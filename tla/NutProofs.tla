----------------------------- MODULE NutProofs ------------------------------
(***************************************************************************)
(* Proofs about NutTransfer, for any number of sockets, offers and files   *)
(* and any limits, and about NutRoute, for any network.                    *)
(*                                                                         *)
(* Who may write to a file follows from what the directory holds under its *)
(* name: a download is linked to a file only if the name was free when it  *)
(* began (Begun), and a file is a part only while the download that writes *)
(* to it has something left (Unwritten).                                   *)
(***************************************************************************)
EXTENDS NutTransfer, NutRoute, FiniteSetTheorems, TLAPS

-----------------------------------------------------------------------------
(* The files of the directory *)

Transfer ==
    [check : {"none", "transfer", "given", "upload", "hosts"},
     disc : {"none", "transfer", "upload"}, offer : Offer \cup {NoOffer},
     hdr : BOOLEAN, left : Int, wrapped : BOOLEAN, fill : BOOLEAN,
     timer : BOOLEAN, linked : BOOLEAN, killed : BOOLEAN]

\* The callbacks of a socket fit together, and downloads have an offer.
Shape(r) ==
    /\ r.disc = "transfer" <=> r.check = "transfer"
    /\ r.disc = "transfer" <=> r.offer # NoOffer
    /\ r.disc = "upload" => r.check = "upload"
    /\ r.linked => r.disc = "transfer"

Begun(r, d) == r.linked => d[FileOf[r.offer]] # "none"

Unwritten(r, d) ==
    r.linked /\ (~r.hdr \/ r.left <= 0) => d[FileOf[r.offer]] # "part"

Types ==
    /\ sock \in [Sock -> Transfer]
    /\ disk \in [File -> {"none", "empty", "part", "whole", "cut"}]
    /\ push \subseteq Offer

Fits(r, d) == Shape(r) /\ Begun(r, d) /\ Unwritten(r, d)

FileInv ==
    /\ Types
    /\ \A s \in Sock : Fits(sock[s], disk)
    /\ FilesOwned

\* A socket that holds no file, before and after.
Plain(r) == r \in Transfer /\ Shape(r) /\ ~r.linked /\ r.disc # "transfer"

LEMMA FreePlain == Plain(Free)
<1>1. Free \in Transfer
  BY DEF Free, Transfer
<1> QED BY <1>1, OfferAssumption DEF Free, Plain, Shape

\* The members of FilesOwned are the downloads that are linked.
LEMMA Owners ==
    ASSUME FileInv
    PROVE  /\ \A f \in File : disk[f] = "part" =>
                \E x \in Sock : sock[x].linked /\ FileOf[sock[x].offer] = f
           /\ \A x, y \in Sock :
                x # y /\ sock[x].linked /\ sock[y].linked
                => FileOf[sock[x].offer] # FileOf[sock[y].offer]
BY DEF FileInv, Fits, Shape, FilesOwned, Name

LEMMA OwnersSuffice ==
    ASSUME \A x \in Sock : Shape(sock'[x]),
           \A f \in File : disk'[f] = "part" =>
                \E x \in Sock : sock'[x].linked /\ FileOf[sock'[x].offer] = f,
           \A x, y \in Sock :
                x # y /\ sock'[x].linked /\ sock'[y].linked
                => FileOf[sock'[x].offer] # FileOf[sock'[y].offer]
    PROVE  FilesOwned'
BY DEF Shape, FilesOwned, Name

\* A step of one socket that leaves its file alone.
LEMMA SameFile ==
    ASSUME FileInv, NEW s \in Sock, NEW r \in Transfer, Fits(r, disk),
           sock' = [sock EXCEPT ![s] = r], UNCHANGED disk,
           r.linked = sock[s].linked, r.linked => r.offer = sock[s].offer,
           push' \subseteq Offer
    PROVE  FileInv'
<1>1. sock' \in [Sock -> Transfer] /\ sock \in [Sock -> Transfer]
  BY DEF FileInv, Types
<1>2. \A x \in Sock : sock'[x] = IF x = s THEN r ELSE sock[x]
  BY <1>1
<1>3. Types'
  BY <1>1 DEF FileInv, Types
<1>4. \A x \in Sock : Fits(sock'[x], disk')
  BY <1>2 DEF FileInv
<1>5. \A x \in Sock : /\ sock'[x].linked = sock[x].linked
                      /\ sock[x].linked => sock'[x].offer = sock[x].offer
  BY <1>2
<1>6. FilesOwned'
  BY <1>4, <1>5, Owners, OwnersSuffice DEF Fits
<1> QED BY <1>3, <1>4, <1>6 DEF FileInv

LEMMA KillFile ==
    ASSUME FileInv, NEW s \in Sock, Kill(s), UNCHANGED disk, push' \subseteq Offer
    PROVE  FileInv'
<1> DEFINE r == [sock[s] EXCEPT !.killed = TRUE]
<1>1. sock[s] \in Transfer /\ Fits(sock[s], disk) /\ sock \in [Sock -> Transfer]
  BY DEF FileInv, Types
<1>2. r \in Transfer /\ r.linked = sock[s].linked /\ r.offer = sock[s].offer
  BY <1>1 DEF Transfer
<1>3. Fits(r, disk)
  BY <1>1 DEF Fits, Shape, Begun, Unwritten, Transfer
<1>4. sock' = [sock EXCEPT ![s] = r]
  BY <1>1 DEF Kill, Transfer
<1> HIDE DEF r
<1> QED BY <1>2, <1>3, <1>4, SameFile

\* A socket without a file stays without one.
LEMMA PlainFile ==
    ASSUME FileInv, NEW s \in Sock, sock[s].disc # "transfer", NEW r, Plain(r),
           sock' = [sock EXCEPT ![s] = r], UNCHANGED disk, push' \subseteq Offer
    PROVE  FileInv'
<1>1. sock[s] \in Transfer /\ Shape(sock[s])
  BY DEF FileInv, Types, Fits
<1>2. sock[s].linked = FALSE /\ r.linked = FALSE /\ r \in Transfer
  BY <1>1 DEF Shape, Plain, Transfer
<1>3. Fits(r, disk)
  BY DEF Plain, Fits, Begun, Unwritten
<1> QED BY <1>2, <1>3, SameFile

\* A download begins: the name was free.
LEMMA BeginFile ==
    ASSUME FileInv, NEW s \in Sock, sock[s].disc # "transfer", NEW o \in Offer,
           NEW r \in Transfer, Shape(r), r.offer = o, r.linked,
           disk[FileOf[o]] = "none",
           disk' = [disk EXCEPT ![FileOf[o]] = "empty"],
           sock' = [sock EXCEPT ![s] = r], push' \subseteq Offer
    PROVE  FileInv'
<1>1. sock' \in [Sock -> Transfer] /\ sock \in [Sock -> Transfer] /\ FileOf[o] \in File
  BY OfferAssumption DEF FileInv, Types
<1>2. \A x \in Sock : sock'[x] = IF x = s THEN r ELSE sock[x]
  BY <1>1
<1>3. Types'
  BY <1>1 DEF FileInv, Types
<1>4. ~sock[s].linked
  BY DEF FileInv, Fits, Shape
<1>5. \A x \in Sock : sock[x].linked => FileOf[sock[x].offer] # FileOf[o]
  BY DEF FileInv, Fits, Begun
<1>6. disk'[FileOf[o]] = "empty" /\ \A f \in File : f # FileOf[o] => disk'[f] = disk[f]
  BY <1>1 DEF FileInv, Types
<1>7. \A x \in Sock : sock[x].linked => FileOf[sock[x].offer] \in File
  BY OfferAssumption DEF FileInv, Types, Transfer, Fits, Shape
<1>8. \A x \in Sock : Fits(sock'[x], disk')
  BY <1>2, <1>5, <1>6, <1>7 DEF FileInv, Fits, Begun, Unwritten
<1>9. ASSUME NEW f \in File, disk'[f] = "part"
      PROVE  \E x \in Sock : sock'[x].linked /\ FileOf[sock'[x].offer] = f
  <2>1. PICK x \in Sock : sock[x].linked /\ FileOf[sock[x].offer] = f
    BY <1>6, <1>9, Owners
  <2> QED BY <1>2, <1>4, <2>1
<1>10. \A x, y \in Sock : x # y /\ sock'[x].linked /\ sock'[y].linked
         => FileOf[sock'[x].offer] # FileOf[sock'[y].offer]
  BY <1>2, <1>5, Owners
<1>11. FilesOwned'
  BY <1>8, <1>9, <1>10, OwnersSuffice DEF Fits
<1> QED BY <1>3, <1>8, <1>11 DEF FileInv

\* The file is made, but there is no socket for it.
LEMMA LeftFile ==
    ASSUME FileInv, NEW o \in Offer, disk[FileOf[o]] = "none",
           disk' = [disk EXCEPT ![FileOf[o]] = "empty"], UNCHANGED <<sock, push>>
    PROVE  FileInv'
<1>1. FileOf[o] \in File
  BY OfferAssumption
<1>2. Types'
  BY <1>1 DEF FileInv, Types
<1>3. disk'[FileOf[o]] = "empty" /\ \A f \in File : f # FileOf[o] => disk'[f] = disk[f]
  BY <1>1 DEF FileInv, Types
<1>4. \A x \in Sock : sock[x].linked => FileOf[sock[x].offer] \in File
  BY OfferAssumption DEF FileInv, Types, Transfer, Fits, Shape
<1>5. \A x \in Sock : Fits(sock'[x], disk')
  BY <1>3, <1>4 DEF FileInv, Fits, Begun, Unwritten
<1>6. \A f \in File : disk'[f] = "part" => disk[f] = "part"
  BY <1>1, <1>3
<1>7. FilesOwned'
  BY <1>5, <1>6, Owners, OwnersSuffice DEF Fits
<1> QED BY <1>2, <1>5, <1>7 DEF FileInv

\* The owner of a file writes to it; it is whole when nothing is left.
LEMMA WriteFile ==
    ASSUME FileInv, NEW s \in Sock, NEW r \in Transfer, Shape(r),
           r.linked, sock[s].linked, r.offer = sock[s].offer, r.hdr, r.left \in Nat,
           disk' = [disk EXCEPT ![Name(s)] = IF r.left = 0 THEN Received(s) ELSE "part"],
           sock' = [sock EXCEPT ![s] = r], push' \subseteq Offer
    PROVE  FileInv'
<1>1. sock' \in [Sock -> Transfer] /\ sock \in [Sock -> Transfer]
  BY DEF FileInv, Types
<1>2. \A x \in Sock : sock'[x] = IF x = s THEN r ELSE sock[x]
  BY <1>1
<1>3. \A x \in Sock : sock[x].linked => FileOf[sock[x].offer] \in File
  BY OfferAssumption DEF FileInv, Types, Transfer, Fits, Shape
<1>4. PICK f \in File : f = Name(s) /\ f = FileOf[sock[s].offer]
  BY <1>3 DEF Name
<1>0. Received(s) \in {"whole", "cut"}
  BY DEF Received
<1>5. /\ disk'[f] = IF r.left = 0 THEN Received(s) ELSE "part"
      /\ \A g \in File : g # f => disk'[g] = disk[g]
  BY <1>4 DEF FileInv, Types
<1>6. Types'
  BY <1>0, <1>1, <1>4 DEF FileInv, Types
<1>7. \A x \in Sock : x # s /\ sock[x].linked => FileOf[sock[x].offer] # f
  BY <1>4, Owners
<1>8. Fits(r, disk')
  BY <1>0, <1>4, <1>5 DEF Fits, Begun, Unwritten
<1>9. \A x \in Sock : Fits(sock'[x], disk')
  BY <1>2, <1>3, <1>5, <1>7, <1>8 DEF FileInv, Fits, Begun, Unwritten
<1>10. ASSUME NEW g \in File, disk'[g] = "part"
       PROVE  \E x \in Sock : sock'[x].linked /\ FileOf[sock'[x].offer] = g
  <2>1. CASE g = f
    BY <1>2, <1>4, <2>1
  <2>2. CASE g # f
    <3>1. PICK x \in Sock : sock[x].linked /\ FileOf[sock[x].offer] = g
      BY <1>5, <1>10, <2>2, Owners
    <3> QED BY <1>2, <1>4, <2>2, <3>1
  <2> QED BY <2>1, <2>2
<1>11. \A x, y \in Sock : x # y /\ sock'[x].linked /\ sock'[y].linked
         => FileOf[sock'[x].offer] # FileOf[sock'[y].offer]
  BY <1>2, <1>4, <1>7, Owners
<1>12. FilesOwned'
  BY <1>9, <1>10, <1>11, OwnersSuffice DEF Fits
<1> QED BY <1>6, <1>9, <1>12 DEF FileInv

\* A download ends with nothing left: its file is no part of one.
LEMMA DoneFile ==
    ASSUME FileInv, NEW s \in Sock, sock[s].hdr, sock[s].left <= 0,
           sock' = [sock EXCEPT ![s] = Free], UNCHANGED disk, push' \subseteq Offer
    PROVE  FileInv'
<1>1. /\ Free \in Transfer /\ Shape(Free) /\ ~Free.linked
      /\ sock' \in [Sock -> Transfer] /\ sock \in [Sock -> Transfer]
  BY FreePlain DEF FileInv, Types, Plain
<1>2. \A x \in Sock : sock'[x] = IF x = s THEN Free ELSE sock[x]
  BY <1>1
<1>3. Types'
  BY <1>1 DEF FileInv, Types
<1>4. \A x \in Sock : Fits(sock'[x], disk')
  BY <1>1, <1>2 DEF FileInv, Fits, Begun, Unwritten
<1>5. ASSUME NEW f \in File, disk'[f] = "part"
      PROVE  \E x \in Sock : sock'[x].linked /\ FileOf[sock'[x].offer] = f
  <2>1. PICK x \in Sock : sock[x].linked /\ FileOf[sock[x].offer] = f
    BY <1>5, Owners
  <2>2. x # s
    BY <1>5, <2>1 DEF FileInv, Fits, Unwritten
  <2> QED BY <1>2, <2>1, <2>2
<1>6. \A x, y \in Sock : x # y /\ sock'[x].linked /\ sock'[y].linked
         => FileOf[sock'[x].offer] # FileOf[sock'[y].offer]
  BY <1>1, <1>2, Owners
<1>7. FilesOwned'
  BY <1>4, <1>5, <1>6, OwnersSuffice DEF Fits
<1> QED BY <1>3, <1>4, <1>7 DEF FileInv

\* A download is given up: nobody is linked to the name any more.
LEMMA DropFile ==
    ASSUME FileInv, NEW s \in Sock, sock[s].disc = "transfer",
           disk' = [disk EXCEPT ![Name(s)] = "none"],
           sock' = [[x \in Sock |->
                       IF sock[x].offer # NoOffer /\ Name(x) = Name(s)
                       THEN [sock[x] EXCEPT !.linked = FALSE] ELSE sock[x]]
                    EXCEPT ![s] = Free],
           push' \subseteq Offer
    PROVE  FileInv'
<1>1. Free \in Transfer /\ Shape(Free) /\ ~Free.linked /\ sock \in [Sock -> Transfer]
  BY FreePlain DEF FileInv, Types, Plain
<1>2. PICK f \in File : f = Name(s) /\ f = FileOf[sock[s].offer]
  BY <1>1, OfferAssumption DEF FileInv, Fits, Shape, Transfer, Name
<1>3. \A x \in Sock : sock'[x] = IF x = s THEN Free
                                 ELSE IF sock[x].offer # NoOffer /\ FileOf[sock[x].offer] = f
                                 THEN [sock[x] EXCEPT !.linked = FALSE] ELSE sock[x]
  BY <1>2 DEF Name
<1>4. \A x \in Sock : [sock[x] EXCEPT !.linked = FALSE] \in Transfer
  BY <1>1 DEF Transfer
<1>5. \A x \in Sock : sock'[x] \in Transfer
  BY <1>1, <1>3, <1>4
<1>6. disk'[f] = "none" /\ \A g \in File : g # f => disk'[g] = disk[g]
  BY <1>2 DEF FileInv, Types
<1>7. Types'
  <2>1. sock' = [x \in Sock |-> sock'[x]]
    OBVIOUS
  <2>2. sock' \in [Sock -> Transfer]
    BY <1>5, <2>1
  <2> QED BY <1>2, <2>2 DEF FileInv, Types
<1>8. \A x \in Sock : sock'[x].linked =>
         /\ x # s /\ sock'[x] = sock[x] /\ FileOf[sock[x].offer] # f
         /\ FileOf[sock[x].offer] \in File
  <2> TAKE x \in Sock
  <2> HAVE sock'[x].linked
  <2>1. x # s
    BY <1>1, <1>3
  <2>2. [sock[x] EXCEPT !.linked = FALSE].linked = FALSE
    BY <1>1 DEF Transfer
  <2>3. sock'[x] = sock[x] /\ (sock[x].offer = NoOffer \/ FileOf[sock[x].offer] # f)
    BY <1>3, <2>1, <2>2
  <2>4. sock[x].offer # NoOffer /\ sock[x].offer \in Offer
    BY <1>1, <2>3 DEF FileInv, Fits, Shape, Transfer
  <2> QED BY <2>1, <2>3, <2>4, OfferAssumption
<1>9. \A x \in Sock : Shape([sock[x] EXCEPT !.linked = FALSE])
  BY <1>1 DEF FileInv, Fits, Shape, Transfer
<1>10. \A x \in Sock : Shape(sock'[x])
  BY <1>1, <1>3, <1>9 DEF FileInv, Fits
<1>11. \A x \in Sock : Begun(sock'[x], disk') /\ Unwritten(sock'[x], disk')
  BY <1>6, <1>8 DEF FileInv, Fits, Begun, Unwritten
<1>12. ASSUME NEW g \in File, disk'[g] = "part"
       PROVE  \E x \in Sock : sock'[x].linked /\ FileOf[sock'[x].offer] = g
  <2>1. g # f /\ disk[g] = "part"
    BY <1>6, <1>12
  <2>2. PICK x \in Sock : sock[x].linked /\ FileOf[sock[x].offer] = g
    BY <2>1, Owners
  <2> QED BY <1>2, <1>3, <2>1, <2>2
<1>13. \A x, y \in Sock : x # y /\ sock'[x].linked /\ sock'[y].linked
         => FileOf[sock'[x].offer] # FileOf[sock'[y].offer]
  BY <1>8, Owners
<1>14. FilesOwned'
  BY <1>10, <1>12, <1>13, OwnersSuffice
<1> QED BY <1>7, <1>10, <1>11, <1>14 DEF FileInv, Fits

LEMMA FileInit == Init => FileInv
<1> SUFFICES ASSUME Init PROVE FileInv
  OBVIOUS
<1>1. Free \in Transfer /\ Shape(Free) /\ ~Free.linked
  BY FreePlain DEF Plain
<1>2. \A s \in Sock : sock[s] = Free
  BY DEF Init
<1>3. Types
  BY <1>1 DEF Init, Types
<1>4. \A s \in Sock : Fits(sock[s], disk)
  BY <1>1, <1>2 DEF Fits, Begun, Unwritten
<1>5. FilesOwned
  BY <1>1, <1>2 DEF Init, FilesOwned
<1> QED BY <1>3, <1>4, <1>5 DEF FileInv

\* The offer of a download is one, so that a push request for it is known.
LEMMA PushKnown ==
    ASSUME FileInv, NEW s \in Sock, sock[s].disc = "transfer", SendPush(sock[s].offer)
    PROVE  push' \subseteq Offer
<1>1. sock[s].offer \in Offer
  BY DEF FileInv, Types, Fits, Shape, Transfer
<1> QED BY <1>1 DEF SendPush, FileInv, Types

\* What the beginnings of a socket are, as records.
LEMMA DownloadRecord ==
    ASSUME NEW o \in Offer, NEW r,
           r \in {Download(o), [Download(o) EXCEPT !.timer = TRUE]}
    PROVE  r \in Transfer /\ Shape(r) /\ r.offer = o /\ r.linked /\ r.disc = "transfer"
<1>1. PICK timer \in BOOLEAN :
        r = [check |-> "transfer", disc |-> "transfer", offer |-> o, hdr |-> FALSE, left |-> 0,
             wrapped |-> FALSE, fill |-> FALSE, timer |-> timer, linked |-> TRUE, killed |-> FALSE]
  <2>1. CASE r = Download(o)
    BY <2>1 DEF Download, Free
  <2>2. CASE r = [Download(o) EXCEPT !.timer = TRUE]
    BY <2>2 DEF Download, Free
  <2> QED BY <2>1, <2>2
<1>2. r \in Transfer
  BY <1>1 DEF Transfer
<1>3. r.check = "transfer" /\ r.disc = "transfer" /\ r.offer = o /\ r.linked
  BY <1>1
<1> QED BY <1>2, <1>3, OfferAssumption DEF Shape

LEMMA TransferFile ==
    ASSUME FileInv, NEW s \in Sock,
           nut_check_transfer(s) \/ nut_save_transfer(s) \/ nut_connect_timeout(s)
    PROVE  FileInv'
<1>1. /\ sock[s] \in Transfer /\ Fits(sock[s], disk) /\ sock \in [Sock -> Transfer]
      /\ push \subseteq Offer
  BY DEF FileInv, Types
<1>2. CASE nut_check_transfer(s)
  <2>1. CASE Kill(s)
    BY <1>1, <1>2, <2>1, KillFile DEF nut_check_transfer
  <2>2. ASSUME NEW n \in -1..MaxLength, NEW wrapped \in BOOLEAN,
               Set(s, [sock[s] EXCEPT !.hdr = TRUE, !.left = n, !.wrapped = wrapped, !.timer = FALSE])
        PROVE  FileInv'
    <3> DEFINE r == [sock[s] EXCEPT !.hdr = TRUE, !.left = n, !.wrapped = wrapped, !.timer = FALSE]
    <3>0. n \in Int
      BY BoundAssumption
    <3>1. r \in Transfer /\ r.linked = sock[s].linked /\ r.offer = sock[s].offer
      BY <1>1, <3>0 DEF Transfer
    <3>2. ~sock[s].hdr /\ UNCHANGED <<disk, push>>
      BY <1>2 DEF nut_check_transfer
    <3>3. r.disc = sock[s].disc /\ r.check = sock[s].check
      BY <1>1 DEF Transfer
    <3>4. sock' = [sock EXCEPT ![s] = r]
      BY <2>2 DEF Set
    <3> HIDE DEF r
    <3>5. Fits(r, disk)
      BY <1>1, <3>1, <3>2, <3>3 DEF Fits, Shape, Begun, Unwritten
    <3> QED BY <1>1, <3>1, <3>2, <3>4, <3>5, SameFile
  <2> QED BY <1>2, <2>1, <2>2 DEF nut_check_transfer
<1>3. CASE nut_save_transfer(s)
  <2>1. CASE Kill(s) /\ UNCHANGED disk
    BY <1>1, <1>3, <2>1, KillFile DEF nut_save_transfer
  <2>2. ASSUME NEW n \in 1..MaxLength, NEW left,
               left = (IF n >= sock[s].left THEN 0 ELSE sock[s].left - n),
               Set(s, [sock[s] EXCEPT !.left = left, !.killed = (left = 0)]),
               disk' = IF sock[s].linked
                       THEN [disk EXCEPT ![Name(s)] = IF left = 0 THEN Received(s) ELSE "part"]
                       ELSE disk
        PROVE  FileInv'
    <3> DEFINE r == [sock[s] EXCEPT !.left = left, !.killed = (left = 0)]
    <3>1. left \in Nat /\ left \in Int
      BY <1>1, <2>2, BoundAssumption DEF Transfer
    <3>2. r \in Transfer /\ r.linked = sock[s].linked /\ r.offer = sock[s].offer /\ r.left = left
      <4>1. r \in Transfer
        BY <1>1, <3>1 DEF Transfer
      <4>2. r.linked = sock[s].linked /\ r.offer = sock[s].offer /\ r.left = left
        BY <1>1 DEF Transfer
      <4> QED BY <4>1, <4>2
    <3>3. r.disc = sock[s].disc /\ r.check = sock[s].check /\ r.hdr = sock[s].hdr
      BY <1>1 DEF Transfer
    <3>4. sock' = [sock EXCEPT ![s] = r] /\ UNCHANGED push /\ sock[s].hdr
      BY <1>3, <2>2 DEF Set, nut_save_transfer
    <3> HIDE DEF r
    <3>5. Shape(r)
      BY <1>1, <3>2, <3>3 DEF Fits, Shape
    <3>6. CASE sock[s].linked
      <4>1. disk' = [disk EXCEPT ![Name(s)] = IF r.left = 0 THEN Received(s) ELSE "part"]
        BY <2>2, <3>2, <3>6
      <4> QED BY <1>1, <3>1, <3>2, <3>3, <3>4, <3>5, <3>6, <4>1, WriteFile
    <3>7. CASE ~sock[s].linked
      <4>1. Fits(r, disk) /\ UNCHANGED disk
        BY <2>2, <3>2, <3>5, <3>7 DEF Fits, Begun, Unwritten
      <4> QED BY <1>1, <3>2, <3>4, <3>7, <4>1, SameFile
    <3> QED BY <3>6, <3>7
  <2> QED BY <1>3, <2>1, <2>2 DEF nut_save_transfer
<1>4. CASE nut_connect_timeout(s)
  <2>1. push' \subseteq Offer
    BY <1>1, <1>4, PushKnown DEF nut_connect_timeout
  <2> QED BY <1>4, <2>1, KillFile DEF nut_connect_timeout
<1> QED BY <1>2, <1>3, <1>4

LEMMA DisconnectFile ==
    ASSUME FileInv, NEW s \in Sock, nut_disconnect_transfer(s)
    PROVE  FileInv'
<1>1. push' \subseteq Offer /\ sock[s].disc = "transfer"
  <2>1. CASE sock[s].hdr
    BY <2>1 DEF nut_disconnect_transfer, FileInv, Types
  <2>2. CASE ~sock[s].hdr
    BY <2>2, PushKnown DEF nut_disconnect_transfer
  <2> QED BY <2>1, <2>2 DEF nut_disconnect_transfer
<1>2. CASE Aborted(s)
  BY <1>1, <1>2, DropFile DEF nut_disconnect_transfer
<1>3. CASE ~Aborted(s)
  <2>1. sock[s].hdr /\ sock[s].left <= 0
    BY <1>3 DEF Aborted, FileInv, Types, Transfer
  <2>2. sock' = [sock EXCEPT ![s] = Free] /\ UNCHANGED disk
    BY <1>3 DEF nut_disconnect_transfer
  <2> QED BY <1>1, <2>1, <2>2, DoneFile
<1> QED BY <1>2, <1>3

LEMMA GivenFileStep ==
    ASSUME FileInv, NEW s \in Sock, nut_check_given(s)
    PROVE  FileInv'
<1>1. /\ sock[s] \in Transfer /\ Shape(sock[s]) /\ sock[s].check = "given"
      /\ push \subseteq Offer
  BY DEF FileInv, Types, Fits, nut_check_given
<1>2. sock[s].disc # "transfer" /\ sock[s].linked = FALSE
  BY <1>1 DEF Shape, Transfer
<1>3. CASE Kill(s) /\ UNCHANGED <<push, disk>>
  BY <1>1, <1>3, KillFile
<1>4. ASSUME NEW o \in push, push' = push \ {o}, disk[FileOf[o]] \in GivenFile(o),
             Set(s, Download(o)), disk' = [disk EXCEPT ![FileOf[o]] = "empty"]
      PROVE  FileInv'
  <2>1. PICK r : r = Download(o)
    OBVIOUS
  <2>2. o \in Offer /\ disk[FileOf[o]] = "none" /\ push' \subseteq Offer
    BY <1>1, <1>4 DEF GivenFile
  <2>3. r \in Transfer /\ Shape(r) /\ r.offer = o /\ r.linked
    BY <2>1, <2>2, DownloadRecord
  <2>4. sock' = [sock EXCEPT ![s] = r]
    BY <1>4, <2>1 DEF Set
  <2> QED BY <1>2, <1>4, <2>2, <2>3, <2>4, BeginFile
<1>5. ASSUME NEW o \in push, push' = push \ {o}, UNCHANGED disk,
             Set(s, [Download(o) EXCEPT !.linked = FALSE, !.killed = TRUE])
      PROVE  FileInv'
  <2>1. PICK d : d = Download(o)
    OBVIOUS
  <2>2. d \in Transfer /\ Shape(d)
    BY <1>1, <2>1, DownloadRecord
  <2>3. PICK r : r = [d EXCEPT !.linked = FALSE, !.killed = TRUE]
    OBVIOUS
  <2>4. r \in Transfer /\ r.linked = FALSE
    BY <2>2, <2>3 DEF Transfer
  <2>5. r.disc = d.disc /\ r.check = d.check /\ r.offer = d.offer
    BY <2>2, <2>3 DEF Transfer
  <2>6. Fits(r, disk)
    BY <2>2, <2>4, <2>5 DEF Fits, Shape, Begun, Unwritten
  <2>7. sock' = [sock EXCEPT ![s] = r] /\ push' \subseteq Offer
    BY <1>1, <1>5, <2>1, <2>3 DEF Set
  <2> QED BY <1>2, <1>5, <2>4, <2>6, <2>7, SameFile
<1> QED BY <1>3, <1>4, <1>5 DEF nut_check_given

\* What a step of a socket that is no download does to the counter of uploads.
Charged(s, r) ==
    \/ r.disc = sock[s].disc /\ UNCHANGED uploads
    \/ /\ r.disc = "upload" /\ uploads' = uploads + 1
       /\ sock[s].disc = "upload" => Pipelining
    \/ r.disc = "none" /\ sock[s].disc = "upload" /\ uploads' = uploads - 1

PlainStep(s) ==
    /\ sock[s].disc # "transfer"
    /\ \E r : Plain(r) /\ sock' = [sock EXCEPT ![s] = r] /\ Charged(s, r)
    /\ UNCHANGED <<disk, push, dnloads>>

LEMMA PlainKept ==
    ASSUME NEW q, Plain(q), NEW r \in Transfer,
           r.disc = q.disc, r.check = q.check, r.offer = q.offer, r.linked = q.linked
    PROVE  Plain(r)
BY DEF Plain, Shape

LEMMA PlainKilled ==
    ASSUME FileInv, NEW s \in Sock, Plain(sock[s]), Kill(s), UNCHANGED <<disk, push, counters>>
    PROVE  PlainStep(s)
<1>1. PICK r : r = [sock[s] EXCEPT !.killed = TRUE]
  OBVIOUS
<1>2. /\ r \in Transfer
      /\ r.disc = sock[s].disc /\ r.check = sock[s].check
      /\ r.offer = sock[s].offer /\ r.linked = sock[s].linked
  BY <1>1 DEF Plain, Transfer
<1>3. Plain(r)
  BY <1>2, PlainKept
<1>4. sock' = [sock EXCEPT ![s] = r]
  BY <1>1 DEF Kill, FileInv, Types, Transfer
<1> QED BY <1>2, <1>3, <1>4 DEF PlainStep, Charged, Plain, counters

\* A connection that is accepted or made, and no download.
LEMMA PlainNew ==
    ASSUME NEW s \in Sock, NEW r, Plain(r), r.disc = "none", New(s, r),
           UNCHANGED <<disk, push, counters>>
    PROVE  PlainStep(s)
<1>1. sock[s] = Free /\ sock' = [sock EXCEPT ![s] = r]
  BY DEF New, Set
<1>2. sock[s].disc = "none"
  BY <1>1 DEF Free
<1>3. Charged(s, r)
  BY <1>2 DEF Charged, counters
<1> QED BY <1>1, <1>2, <1>3 DEF PlainStep, counters

LEMMA PlainChanged ==
    ASSUME NEW s \in Sock, Plain(sock[s]), NEW r \in Transfer,
           r.disc = sock[s].disc, r.check = sock[s].check,
           r.offer = sock[s].offer, r.linked = sock[s].linked,
           Set(s, r), UNCHANGED <<disk, push, counters>>
    PROVE  PlainStep(s)
<1>1. Plain(r)
  BY PlainKept
<1> QED BY <1>1 DEF Set, PlainStep, Charged, counters, Plain

LEMMA IsPlain ==
    ASSUME FileInv, NEW s \in Sock, sock[s].disc # "transfer"
    PROVE  Plain(sock[s])
BY DEF FileInv, Types, Fits, Shape, Plain

LEMMA PlainSteps ==
    ASSUME FileInv, NEW s \in Sock,
           \/ Given(s) \/ Upload(s) \/ nut_check_upload(s) \/ nut_file_read(s)
           \/ nut_file_write(s) \/ nut_disconnect_upload(s) \/ HostList(s)
           \/ nut_hosts_check(s) \/ nut_hosts_write(s) \/ Sweep(s)
    PROVE  PlainStep(s)
<1>1. Plain(Free) /\ Free.disc = "none"
  BY FreePlain DEF Free
<1>2. sock[s] \in Transfer /\ Shape(sock[s])
  BY DEF FileInv, Types, Fits
<1>3. CASE Given(s)
  <2>1. PICK r : r = [Free EXCEPT !.check = "given"]
    OBVIOUS
  <2>2. r \in Transfer /\ r.disc = "none" /\ r.linked = FALSE /\ r.offer = NoOffer /\ r.check = "given"
    <3>1. r \in Transfer
      BY <1>1, <2>1 DEF Plain, Transfer
    <3> QED BY <2>1, <3>1 DEF Free
  <2>3. Plain(r)
    BY <2>2 DEF Plain, Shape
  <2> QED BY <1>3, <2>1, <2>2, <2>3, PlainNew DEF Given
<1>4. CASE Upload(s)
  <2>1. PICK timer \in BOOLEAN : New(s, [Awaiting EXCEPT !.timer = timer])
    BY <1>4 DEF Upload
  <2>2. PICK r : r = [Awaiting EXCEPT !.timer = timer]
    OBVIOUS
  <2>3. r \in Transfer /\ r.disc = "none" /\ r.linked = FALSE /\ r.offer = NoOffer /\ r.check = "upload"
    <3>1. r = [[Free EXCEPT !.check = "upload"] EXCEPT !.timer = timer]
      BY <2>2 DEF Awaiting
    <3>2. r \in Transfer
      BY <1>1, <3>1 DEF Plain, Transfer
    <3> QED BY <3>1, <3>2 DEF Free
  <2>4. Plain(r)
    BY <2>3 DEF Plain, Shape
  <2> QED BY <1>4, <2>1, <2>2, <2>3, <2>4, PlainNew DEF Upload
<1>5. CASE HostList(s)
  <2>1. PICK r : r = [Free EXCEPT !.check = "hosts"]
    OBVIOUS
  <2>2. r \in Transfer /\ r.disc = "none" /\ r.linked = FALSE /\ r.offer = NoOffer /\ r.check = "hosts"
    <3>1. r \in Transfer
      BY <1>1, <2>1 DEF Plain, Transfer
    <3> QED BY <2>1, <3>1 DEF Free
  <2>3. Plain(r)
    BY <2>2 DEF Plain, Shape
  <2> QED BY <1>5, <2>1, <2>2, <2>3, PlainNew DEF HostList
<1>6. CASE nut_check_upload(s)
  <2>1. Plain(sock[s])
    BY <1>2, <1>6, IsPlain DEF nut_check_upload, Shape
  <2>2. CASE Kill(s) /\ UNCHANGED uploads
    BY <1>6, <2>1, <2>2, PlainKilled DEF nut_check_upload, counters
  <2>3. ASSUME NEW n \in 1..MaxLength, uploads' = uploads + 1,
               Set(s, [Awaiting EXCEPT !.disc = "upload", !.hdr = TRUE, !.left = n, !.fill = TRUE])
        PROVE  PlainStep(s)
    <3>1. PICK r : r = [Awaiting EXCEPT !.disc = "upload", !.hdr = TRUE, !.left = n, !.fill = TRUE]
      OBVIOUS
    <3>2. n \in Int
      OBVIOUS
    <3>3. r \in Transfer /\ r.disc = "upload" /\ r.linked = FALSE /\ r.offer = NoOffer /\ r.check = "upload"
      <4>1. r = [[Free EXCEPT !.check = "upload"] EXCEPT !.disc = "upload", !.hdr = TRUE, !.left = n, !.fill = TRUE]
        BY <3>1 DEF Awaiting
      <4>2. r \in Transfer
        BY <1>1, <3>2, <4>1 DEF Plain, Transfer
      <4> QED BY <4>1, <4>2 DEF Free
    <3>4. Plain(r)
      BY <3>3 DEF Plain, Shape
    <3>5. Charged(s, r)
      BY <1>6, <2>3, <3>3 DEF Charged, nut_check_upload
    <3> QED BY <1>6, <2>1, <2>3, <3>1, <3>4, <3>5 DEF nut_check_upload, PlainStep, Set, Plain
  <2> QED BY <1>6, <2>2, <2>3 DEF nut_check_upload
<1>7. CASE nut_file_read(s)
  <2>1. Plain(sock[s])
    BY <1>7, IsPlain DEF nut_file_read
  <2>2. CASE Kill(s)
    BY <1>7, <2>1, <2>2, PlainKilled DEF nut_file_read
  <2>3. CASE Set(s, [sock[s] EXCEPT !.left = @ - 1, !.fill = TRUE])
    <3>1. PICK r : r = [sock[s] EXCEPT !.left = @ - 1, !.fill = TRUE]
      OBVIOUS
    <3>2. sock[s].left - 1 \in Int
      BY <1>2, <1>7 DEF nut_file_read, Transfer
    <3>3. /\ r \in Transfer
          /\ r.disc = sock[s].disc /\ r.check = sock[s].check
          /\ r.offer = sock[s].offer /\ r.linked = sock[s].linked
      <4>1. r \in Transfer
        BY <1>2, <3>1, <3>2 DEF Transfer
      <4> QED BY <1>2, <3>1, <4>1 DEF Transfer
    <3> QED BY <1>7, <2>1, <2>3, <3>1, <3>3, PlainChanged DEF nut_file_read
  <2> QED BY <1>7, <2>2, <2>3 DEF nut_file_read
<1>8. CASE nut_file_write(s)
  <2>1. Plain(sock[s])
    BY <1>8, IsPlain DEF nut_file_write
  <2>2. PICK r : r = [sock[s] EXCEPT !.fill = FALSE, !.killed = Sent(s)]
    OBVIOUS
  <2>3. /\ r \in Transfer
        /\ r.disc = sock[s].disc /\ r.check = sock[s].check
        /\ r.offer = sock[s].offer /\ r.linked = sock[s].linked
    BY <1>2, <2>2 DEF Transfer, Sent
  <2> QED BY <1>8, <2>1, <2>2, <2>3, PlainChanged DEF nut_file_write
<1>9. CASE nut_disconnect_upload(s)
  BY <1>1, <1>9 DEF nut_disconnect_upload, Set, PlainStep, Charged
<1>10. CASE nut_hosts_check(s)
  <2>1. Plain(sock[s])
    BY <1>2, <1>10, IsPlain DEF nut_hosts_check, Shape
  <2>2. CASE Kill(s)
    BY <1>10, <2>1, <2>2, PlainKilled DEF nut_hosts_check
  <2>3. ASSUME NEW fill \in BOOLEAN,
               Set(s, [sock[s] EXCEPT !.hdr = TRUE, !.fill = fill, !.killed = ~fill])
        PROVE  PlainStep(s)
    <3>1. PICK r : r = [sock[s] EXCEPT !.hdr = TRUE, !.fill = fill, !.killed = ~fill]
      OBVIOUS
    <3>2. /\ r \in Transfer
          /\ r.disc = sock[s].disc /\ r.check = sock[s].check
          /\ r.offer = sock[s].offer /\ r.linked = sock[s].linked
      BY <1>2, <3>1 DEF Transfer
    <3> QED BY <1>10, <2>1, <2>3, <3>1, <3>2, PlainChanged DEF nut_hosts_check
  <2> QED BY <1>10, <2>2, <2>3 DEF nut_hosts_check
<1>11. CASE nut_hosts_write(s)
  <2>1. Plain(sock[s])
    BY <1>2, <1>11, IsPlain DEF nut_hosts_write, Shape
  <2>2. PICK r : r = [sock[s] EXCEPT !.fill = FALSE, !.killed = sock[s].hdr]
    OBVIOUS
  <2>3. /\ r \in Transfer
        /\ r.disc = sock[s].disc /\ r.check = sock[s].check
        /\ r.offer = sock[s].offer /\ r.linked = sock[s].linked
    BY <1>2, <2>2 DEF Transfer
  <2> QED BY <1>11, <2>1, <2>2, <2>3, PlainChanged DEF nut_hosts_write
<1>12. CASE Sweep(s)
  BY <1>1, <1>12 DEF Sweep, Set, PlainStep, Charged, counters
<1> QED BY <1>3, <1>4, <1>5, <1>6, <1>7, <1>8, <1>9, <1>10, <1>11, <1>12

\* Every step keeps the directory in order.
LEMMA FileStep == FileInv /\ [Next]_vars => FileInv'
<1> SUFFICES ASSUME FileInv, [Next]_vars PROVE FileInv'
  OBVIOUS
<1>1. CASE UNCHANGED <<sock, disk, push>>
  BY <1>1 DEF FileInv, Types, FilesOwned, Name
<1>2. ASSUME NEW o \in Offer, nut_init_transfer(o) PROVE FileInv'
  <2>1. /\ disk[FileOf[o]] = "none" /\ UNCHANGED push
        /\ disk' = [disk EXCEPT ![FileOf[o]] = "empty"]
    BY <1>2 DEF nut_init_transfer
  <2>2. push' \subseteq Offer
    BY <2>1 DEF FileInv, Types
  <2>3. ASSUME NEW s \in Sock, New(s, [Download(o) EXCEPT !.timer = TRUE])
        PROVE  FileInv'
    <3>1. PICK r : r = [Download(o) EXCEPT !.timer = TRUE]
      OBVIOUS
    <3>2. r \in Transfer /\ Shape(r) /\ r.offer = o /\ r.linked
      BY <3>1, DownloadRecord
    <3>3. sock' = [sock EXCEPT ![s] = r] /\ sock[s] = Free
      BY <2>3, <3>1 DEF New, Set
    <3>4. sock[s].disc # "transfer"
      BY <3>3 DEF Free
    <3> QED BY <2>1, <2>2, <3>2, <3>3, <3>4, BeginFile
  <2>4. CASE UNCHANGED sock
    BY <2>1, <2>4, LeftFile
  <2> QED BY <1>2, <2>3, <2>4 DEF nut_init_transfer
<1>3. ASSUME NEW s \in Sock, PlainStep(s) PROVE FileInv'
  <2>1. PICK r : Plain(r) /\ sock' = [sock EXCEPT ![s] = r]
    BY <1>3 DEF PlainStep
  <2>2. push' \subseteq Offer /\ UNCHANGED disk /\ sock[s].disc # "transfer"
    BY <1>3 DEF PlainStep, FileInv, Types
  <2> QED BY <2>1, <2>2, PlainFile
<1>4. ASSUME NEW s \in Sock, Lost(s) PROVE FileInv'
  <2>1. push' \subseteq Offer /\ UNCHANGED disk /\ Kill(s)
    BY <1>4 DEF Lost, FileInv, Types
  <2> QED BY <2>1, KillFile
<1>5. NetLost \/ NetBack => UNCHANGED <<sock, disk, push>>
  BY DEF NetLost, NetBack
<1>6. UNCHANGED vars => UNCHANGED <<sock, disk, push>>
  BY DEF vars
<1> QED
  BY <1>1, <1>2, <1>3, <1>4, <1>5, <1>6, TransferFile, DisconnectFile, GivenFileStep, PlainSteps
  DEF Next

\* For every number of sockets, offers and files: what the directory holds as a part of
\* a file is being written by a download, and no two downloads write to one file, in
\* whatever order offers, push requests and connections come and fail
\* (nut_init_transfer, nut_check_given, nut_disconnect_transfer).
THEOREM FilesOwnedCorrect == Spec => []FilesOwned
<1>1. Spec => []FileInv
  BY FileInit, FileStep, PTL DEF Spec
<1>2. FileInv => FilesOwned
  BY DEF FileInv
<1> QED BY <1>1, <1>2, PTL

-----------------------------------------------------------------------------
(* The counters *)

\* The sockets whose disconnected_socket is the one of downloads, or of uploads.
Holding(d) == {s \in Sock : sock[s].disc = d}

\* Both sets are finite, as few as they start with, so that they can be counted.
CountInv ==
    /\ IsFiniteSet(Holding("transfer")) /\ dnloads = Cardinality(Holding("transfer"))
    /\ IsFiniteSet(Holding("upload")) /\ uploads = Cardinality(Holding("upload"))

\* At most the socket s changes hands, to the callback e.
ChangesHands(s, e) ==
    sock'[s].disc = e /\ \A x \in Sock : x # s => sock'[x].disc = sock[x].disc

LEMMA HeldAfter ==
    ASSUME NEW s \in Sock, NEW e, ChangesHands(s, e), NEW d
    PROVE  /\ e # d => Holding(d)' = Holding(d) \ {s}
           /\ e = d => Holding(d)' = Holding(d) \cup {s}
BY DEF Holding, ChangesHands

LEMMA Taken ==
    ASSUME NEW S, IsFiniteSet(S), NEW s, s \notin S
    PROVE  IsFiniteSet(S \cup {s}) /\ Cardinality(S \cup {s}) = Cardinality(S) + 1
BY FS_AddElement

LEMMA Released ==
    ASSUME NEW S, IsFiniteSet(S), NEW s \in S
    PROVE  IsFiniteSet(S \ {s}) /\ Cardinality(S \ {s}) = Cardinality(S) - 1
BY FS_RemoveElement

\* The counters follow a step that changes one socket.
LEMMA CountStepOne ==
    ASSUME CountInv, NEW s \in Sock, NEW e, ChangesHands(s, e),
           dnloads' = dnloads + (IF e = "transfer" THEN 1 ELSE 0)
                              - (IF sock[s].disc = "transfer" THEN 1 ELSE 0),
           uploads' = uploads + (IF e = "upload" THEN 1 ELSE 0)
                              - (IF sock[s].disc = "upload" THEN 1 ELSE 0)
    PROVE  CountInv'
<1> DEFINE D == Holding("transfer")
           U == Holding("upload")
<1>1. /\ IsFiniteSet(D) /\ dnloads = Cardinality(D) /\ Cardinality(D) \in Nat
      /\ IsFiniteSet(U) /\ uploads = Cardinality(U) /\ Cardinality(U) \in Nat
  BY FS_CardinalityType DEF CountInv
<1>2. (s \in D <=> sock[s].disc = "transfer") /\ (s \in U <=> sock[s].disc = "upload")
  BY DEF Holding
<1>3. /\ e # "transfer" => D' = D \ {s}
      /\ e = "transfer" => D' = D \cup {s}
  BY HeldAfter
<1>4. /\ e # "upload" => U' = U \ {s}
      /\ e = "upload" => U' = U \cup {s}
  BY HeldAfter
<1> HIDE DEF D, U
<1>5. IsFiniteSet(D') /\ dnloads' = Cardinality(D')
  <2>1. CASE (e = "transfer") <=> (s \in D)
    <3>1. D' = D
      BY <1>3, <2>1
    <3>2. dnloads' = dnloads
      BY <1>1, <1>2, <2>1
    <3> QED BY <1>1, <3>1, <3>2
  <2>2. CASE e = "transfer" /\ s \notin D
    <3>1. D' = D \cup {s} /\ dnloads' = dnloads + 1
      BY <1>1, <1>2, <1>3, <2>2
    <3> QED BY <1>1, <2>2, <3>1, Taken
  <2>3. CASE e # "transfer" /\ s \in D
    <3>1. D' = D \ {s} /\ dnloads' = dnloads - 1
      BY <1>1, <1>2, <1>3, <2>3
    <3> QED BY <1>1, <2>3, <3>1, Released
  <2> QED BY <2>1, <2>2, <2>3
<1>6. IsFiniteSet(U') /\ uploads' = Cardinality(U')
  <2>1. CASE (e = "upload") <=> (s \in U)
    <3>1. U' = U
      BY <1>4, <2>1
    <3>2. uploads' = uploads
      BY <1>1, <1>2, <2>1
    <3> QED BY <1>1, <3>1, <3>2
  <2>2. CASE e = "upload" /\ s \notin U
    <3>1. U' = U \cup {s} /\ uploads' = uploads + 1
      BY <1>1, <1>2, <1>4, <2>2
    <3> QED BY <1>1, <2>2, <3>1, Taken
  <2>3. CASE e # "upload" /\ s \in U
    <3>1. U' = U \ {s} /\ uploads' = uploads - 1
      BY <1>1, <1>2, <1>4, <2>3
    <3> QED BY <1>1, <2>3, <3>1, Released
  <2> QED BY <2>1, <2>2, <2>3
<1> QED BY <1>5, <1>6 DEF CountInv, D, U

LEMMA SetHands ==
    ASSUME FileInv, NEW s \in Sock, NEW r, sock' = [sock EXCEPT ![s] = r]
    PROVE  ChangesHands(s, r.disc)
<1>1. \A x \in Sock : sock'[x] = IF x = s THEN r ELSE sock[x]
  BY DEF FileInv, Types
<1> QED BY <1>1 DEF ChangesHands

\* A step of a socket that keeps its callback, and the counters.
LEMMA CountSame ==
    ASSUME FileInv, CountInv, NEW s \in Sock, ChangesHands(s, sock[s].disc),
           UNCHANGED counters
    PROVE  CountInv'
<1>1. dnloads \in Nat /\ uploads \in Nat
  BY FS_CardinalityType DEF CountInv
<1>2. /\ dnloads' = dnloads + (IF sock[s].disc = "transfer" THEN 1 ELSE 0)
                             - (IF sock[s].disc = "transfer" THEN 1 ELSE 0)
      /\ uploads' = uploads + (IF sock[s].disc = "upload" THEN 1 ELSE 0)
                             - (IF sock[s].disc = "upload" THEN 1 ELSE 0)
  BY <1>1 DEF counters
<1> QED BY <1>2, CountStepOne

LEMMA KillHands ==
    ASSUME FileInv, NEW s \in Sock, Kill(s)
    PROVE  ChangesHands(s, sock[s].disc)
<1>1. sock \in [Sock -> Transfer]
  BY DEF FileInv, Types
<1>2. \A x \in Sock : sock'[x] = IF x = s THEN [sock[s] EXCEPT !.killed = TRUE] ELSE sock[x]
  BY <1>1 DEF Kill
<1>3. sock'[s].disc = sock[s].disc
  BY <1>1, <1>2 DEF Transfer
<1> QED BY <1>2, <1>3 DEF ChangesHands

LEMMA TransferHands ==
    ASSUME FileInv, NEW s \in Sock,
           nut_check_transfer(s) \/ nut_save_transfer(s) \/ nut_connect_timeout(s) \/ Lost(s)
    PROVE  ChangesHands(s, sock[s].disc) /\ UNCHANGED counters
<1>1. sock[s] \in Transfer
  BY DEF FileInv, Types
<1>2. CASE Kill(s)
  BY <1>2, KillHands
  DEF nut_check_transfer, nut_save_transfer, nut_connect_timeout, Lost
<1>3. CASE nut_check_transfer(s) /\ ~Kill(s)
  <2>1. PICK n \in -1..MaxLength, wrapped \in BOOLEAN :
          Set(s, [sock[s] EXCEPT !.hdr = TRUE, !.left = n, !.wrapped = wrapped, !.timer = FALSE])
    BY <1>3 DEF nut_check_transfer
  <2>2. PICK r : r = [sock[s] EXCEPT !.hdr = TRUE, !.left = n, !.wrapped = wrapped, !.timer = FALSE]
    OBVIOUS
  <2>3. sock' = [sock EXCEPT ![s] = r] /\ r.disc = sock[s].disc
    BY <1>1, <2>1, <2>2 DEF Set, Transfer
  <2>4. ChangesHands(s, r.disc)
    BY <2>3, SetHands
  <2> QED BY <1>3, <2>3, <2>4 DEF nut_check_transfer
<1>4. CASE nut_save_transfer(s) /\ ~Kill(s)
  <2>1. PICK left : Set(s, [sock[s] EXCEPT !.left = left, !.killed = (left = 0)])
    BY <1>4 DEF nut_save_transfer
  <2>2. PICK r : r = [sock[s] EXCEPT !.left = left, !.killed = (left = 0)]
    OBVIOUS
  <2>3. sock' = [sock EXCEPT ![s] = r] /\ r.disc = sock[s].disc
    BY <1>1, <2>1, <2>2 DEF Set, Transfer
  <2>4. ChangesHands(s, r.disc)
    BY <2>3, SetHands
  <2> QED BY <1>4, <2>3, <2>4 DEF nut_save_transfer
<1> QED BY <1>2, <1>3, <1>4 DEF nut_connect_timeout, Lost

LEMMA DisconnectHands ==
    ASSUME FileInv, NEW s \in Sock, nut_disconnect_transfer(s)
    PROVE  ChangesHands(s, "none")
<1>1. Free.disc = "none"
  BY DEF Free
<1>2. CASE ~Aborted(s)
  BY <1>1, <1>2, SetHands DEF nut_disconnect_transfer
<1>3. CASE Aborted(s)
  <2>1. \A x \in Sock : sock'[x] = IF x = s THEN Free
                                   ELSE IF sock[x].offer # NoOffer /\ Name(x) = Name(s)
                                   THEN [sock[x] EXCEPT !.linked = FALSE] ELSE sock[x]
    BY <1>3 DEF nut_disconnect_transfer
  <2>2. \A x \in Sock : [sock[x] EXCEPT !.linked = FALSE].disc = sock[x].disc
    BY DEF FileInv, Types, Transfer
  <2> QED BY <1>1, <2>1, <2>2 DEF ChangesHands
<1> QED BY <1>2, <1>3

LEMMA CountStep ==
    ASSUME ~Pipelining, FileInv, CountInv, [Next]_vars
    PROVE  CountInv'
<1>0. dnloads \in Nat /\ uploads \in Nat
  BY FS_CardinalityType DEF CountInv
<1>1. CASE UNCHANGED <<sock, counters>>
  BY <1>1 DEF CountInv, Holding, counters
<1>2. ASSUME NEW o \in Offer, nut_init_transfer(o) PROVE CountInv'
  <2>1. ASSUME NEW s \in Sock, New(s, [Download(o) EXCEPT !.timer = TRUE]),
               dnloads' = dnloads + 1
        PROVE  CountInv'
    <3>1. PICK r : r = [Download(o) EXCEPT !.timer = TRUE]
      OBVIOUS
    <3>2. r.disc = "transfer" /\ sock' = [sock EXCEPT ![s] = r] /\ sock[s] = Free
      BY <2>1, <3>1, DownloadRecord DEF New, Set
    <3>3. ChangesHands(s, "transfer")
      BY <3>2, SetHands
    <3>4. uploads' = uploads /\ sock[s].disc = "none"
      BY <1>2, <3>2 DEF nut_init_transfer, Free
    <3> QED BY <1>0, <2>1, <3>3, <3>4, CountStepOne
  <2>2. CASE UNCHANGED <<sock, dnloads>>
    <3>1. uploads' = uploads
      BY <1>2 DEF nut_init_transfer
    <3> QED BY <1>1, <2>2, <3>1 DEF counters
  <2> QED BY <1>2, <2>1, <2>2 DEF nut_init_transfer
<1>3. ASSUME NEW s \in Sock, ChangesHands(s, sock[s].disc), UNCHANGED counters PROVE CountInv'
  BY <1>3, CountSame
<1>4. ASSUME NEW s \in Sock, nut_disconnect_transfer(s) PROVE CountInv'
  <2>1. sock[s].disc = "transfer" /\ dnloads' = dnloads - 1 /\ uploads' = uploads
    BY <1>4 DEF nut_disconnect_transfer
  <2> QED BY <1>0, <1>4, <2>1, DisconnectHands, CountStepOne
<1>5. ASSUME NEW s \in Sock, nut_check_given(s) PROVE CountInv'
  <2>1. sock[s].disc \in {"none", "transfer", "upload"} /\ uploads' = uploads
    BY <1>5 DEF FileInv, Types, Transfer, nut_check_given
  <2>2. sock[s].disc = "none"
    BY <1>5, <2>1 DEF FileInv, Fits, Shape, nut_check_given
  <2>3. CASE Kill(s) /\ dnloads' = dnloads
    BY <1>3, <2>1, <2>3, KillHands DEF counters
  <2>4. ASSUME NEW o \in push, dnloads' = dnloads + 1,
               \/ Set(s, Download(o))
               \/ Set(s, [Download(o) EXCEPT !.linked = FALSE, !.killed = TRUE])
        PROVE  CountInv'
    <3>1. PICK r : sock' = [sock EXCEPT ![s] = r] /\ r.disc = "transfer"
      <4>1. Download(o).disc = "transfer"
        BY DEF Download, Free
      <4>2. [Download(o) EXCEPT !.linked = FALSE, !.killed = TRUE].disc = "transfer"
        BY DEF Download, Free
      <4> QED BY <2>4, <4>1, <4>2 DEF Set
    <3>2. ChangesHands(s, "transfer")
      BY <3>1, SetHands
    <3> QED BY <1>0, <2>1, <2>2, <2>4, <3>2, CountStepOne
  <2> QED BY <1>5, <2>3, <2>4 DEF nut_check_given
<1>6. ASSUME NEW s \in Sock, PlainStep(s) PROVE CountInv'
  <2>1. PICK r : Plain(r) /\ sock' = [sock EXCEPT ![s] = r] /\ Charged(s, r)
    BY <1>6 DEF PlainStep
  <2>2. sock[s].disc # "transfer" /\ dnloads' = dnloads /\ r.disc # "transfer"
    BY <1>6, <2>1 DEF PlainStep, Plain
  <2>3. ChangesHands(s, r.disc)
    BY <2>1, SetHands
  <2>4. uploads' = uploads + (IF r.disc = "upload" THEN 1 ELSE 0)
                           - (IF sock[s].disc = "upload" THEN 1 ELSE 0)
    BY <1>0, <2>1 DEF Charged
  <2>5. dnloads' = dnloads + (IF r.disc = "transfer" THEN 1 ELSE 0)
                           - (IF sock[s].disc = "transfer" THEN 1 ELSE 0)
    BY <1>0, <2>2
  <2> QED BY <2>3, <2>4, <2>5, CountStepOne
<1>7. NetLost \/ NetBack \/ UNCHANGED vars => UNCHANGED <<sock, counters>>
  BY DEF NetLost, NetBack, vars
<1>8. ASSUME NEW s \in Sock,
             nut_check_transfer(s) \/ nut_save_transfer(s) \/ nut_connect_timeout(s) \/ Lost(s)
      PROVE  CountInv'
  BY <1>3, <1>8, TransferHands
<1> QED BY <1>1, <1>2, <1>4, <1>5, <1>6, <1>7, <1>8, PlainSteps DEF Next

\* For every number of sockets and any limits: unless a peer sends a second request while
\* its upload lasts, the counters that the limits are compared with are the numbers of
\* downloads and uploads that have not been freed (nut_init_transfer, nut_check_given,
\* nut_check_upload, nut_disconnect_transfer, nut_disconnect_upload).
THEOREM CountedCorrect ==
    ASSUME ~Pipelining
    PROVE  Spec => []Counted
<1>1. Init => CountInv
  <2> SUFFICES ASSUME Init PROVE CountInv
    OBVIOUS
  <2>1. Holding("transfer") = {} /\ Holding("upload") = {}
    BY DEF Init, Holding, Free
  <2> QED BY <2>1, FS_EmptySet DEF CountInv, Init
<1>2. FileInv /\ CountInv /\ [Next]_vars => CountInv'
  BY CountStep
<1>3. CountInv => Counted
  BY DEF CountInv, Counted, Holding
<1> QED BY <1>1, <1>2, <1>3, FileInit, FileStep, PTL DEF Spec

-----------------------------------------------------------------------------
(* The tables of the network *)

\* Every pointer of n leads to a socket that is established and not yet freed.
Reaches(n) == conn[n] \cup Range(route[n]) \cup Range(reply[n])
Usable(n) == {m \in Node : peer[n][m] \notin {"none", "calling"}}

RouteTypes ==
    /\ peer \in [Node -> [Node -> {"none", "calling", "open", "killed"}]]
    /\ conn \in [Node -> SUBSET Node]
    /\ route \in [Node -> [Id -> Node \cup {NULL}]]
    /\ reply \in [Node -> [Node -> Node \cup {NULL}]]

RouteInv ==
    /\ RouteTypes
    /\ \A n \in Node : Reaches(n) \subseteq Usable(n) \cup {NULL}

LEMMA InitLive == RouteInit => RouteInv
<1> SUFFICES ASSUME RouteInit PROVE RouteInv
  OBVIOUS
<1>1. RouteTypes
  BY DEF RouteInit, RouteTypes
<1>2. ASSUME NEW n \in Node PROVE Reaches(n) \subseteq Usable(n) \cup {NULL}
  <2>1. Range(route[n]) \subseteq {NULL} /\ Range(reply[n]) \subseteq {NULL}
    BY DEF RouteInit, Range
  <2>2. conn[n] \subseteq Usable(n)
    BY DEF RouteInit, Usable
  <2> QED BY <2>1, <2>2 DEF Reaches
<1> QED BY <1>1, <1>2 DEF RouteInv

\* A step that takes no connection away and adds no pointer but to a usable one.
LEMMA Grows ==
    ASSUME RouteInv, RouteTypes',
           \A n \in Node : Usable(n) \subseteq Usable(n)',
           \A n \in Node : Reaches(n)' \subseteq Reaches(n) \cup Usable(n)' \cup {NULL}
    PROVE  RouteInv'
<1>1. \A n \in Node : Reaches(n) \subseteq Usable(n)' \cup {NULL}
  BY DEF RouteInv
<1> QED BY <1>1 DEF RouteInv

\* Killing a socket leaves it usable: the sweep frees it.
LEMMA KillGrows ==
    ASSUME RouteTypes, NEW n \in Node, NEW ms, ShutDown(n, ms)
    PROVE  /\ peer' \in [Node -> [Node -> {"none", "calling", "open", "killed"}]]
           /\ \A x \in Node : Usable(x) \subseteq Usable(x)'
<1>1. PICK p \in [Node -> {"none", "calling", "open", "killed"}] :
        /\ \A m \in Node : p[m] = IF m \in ms THEN "killed" ELSE peer[n][m]
        /\ peer' = [peer EXCEPT ![n] = p]
  BY DEF ShutDown, RouteTypes
<1>2. \A x \in Node : peer'[x] = IF x = n THEN p ELSE peer[x]
  BY <1>1 DEF RouteTypes
<1>3. peer' \in [Node -> [Node -> {"none", "calling", "open", "killed"}]]
  BY <1>1 DEF RouteTypes
<1> QED BY <1>1, <1>2, <1>3 DEF Usable

\* A step that leaves the tables alone.
LEMMA TablesStay ==
    ASSUME RouteInv, UNCHANGED <<conn, route, reply>>,
           peer' \in [Node -> [Node -> {"none", "calling", "open", "killed"}]],
           \A n \in Node : Usable(n) \subseteq Usable(n)'
    PROVE  RouteInv'
<1>1. RouteTypes'
  BY DEF RouteInv, RouteTypes
<1>2. \A n \in Node : Reaches(n)' = Reaches(n)
  BY DEF Reaches
<1> QED BY <1>1, <1>2, Grows

LEMMA ConnectIpLive ==
    ASSUME RouteInv, NEW n \in Node, NEW m \in Node, nut_connect_ip(n, m)
    PROVE  RouteInv'
<1>1. /\ peer[n][m] = "none" /\ peer[m][n] = "none" /\ UNCHANGED <<conn, route, reply>>
      /\ peer' = [peer EXCEPT ![n][m] = "calling", ![m][n] = "calling"]
  BY DEF nut_connect_ip, tables
<1>2. /\ peer' \in [Node -> [Node -> {"none", "calling", "open", "killed"}]]
      /\ \A x, y \in Node : peer'[x][y] = peer[x][y] \/ peer[x][y] = "none"
  BY <1>1 DEF RouteInv, RouteTypes
<1>3. \A x \in Node : Usable(x) \subseteq Usable(x)'
  BY <1>2 DEF Usable
<1> QED BY <1>1, <1>2, <1>3, TablesStay

\* A socket that is killed, or that ends before it is established.
LEMMA StateLive ==
    ASSUME RouteInv, NEW n \in Node, NEW m \in Node, UNCHANGED <<conn, route, reply>>,
           \/ peer' = [peer EXCEPT ![n][m] = "killed"]
           \/ peer[n][m] = "calling" /\ peer' = [peer EXCEPT ![n][m] = "none"]
    PROVE  RouteInv'
<1>1. RouteTypes
  BY DEF RouteInv
<1>2. PICK v \in {"killed", "none"} :
        /\ peer' = [peer EXCEPT ![n][m] = v]
        /\ v = "none" => peer[n][m] = "calling"
  OBVIOUS
<1>3. /\ peer' \in [Node -> [Node -> {"none", "calling", "open", "killed"}]]
      /\ \A x, y \in Node : peer'[x][y] = IF x = n /\ y = m THEN v ELSE peer[x][y]
  BY <1>1, <1>2 DEF RouteTypes
<1>4. \A x \in Node : Usable(x) \subseteq Usable(x)'
  BY <1>2, <1>3 DEF Usable
<1> QED BY <1>3, <1>4, TablesStay

LEMMA ConnectSocketLive ==
    ASSUME RouteInv, NEW n \in Node, NEW m \in Node, nut_connect_socket(n, m)
    PROVE  RouteInv'
<1>1. RouteTypes /\ peer[n][m] = "calling"
  BY DEF RouteInv, nut_connect_socket
<1>2. CASE peer' = [peer EXCEPT ![n][m] = "none"] /\ UNCHANGED tables
  <2>1. UNCHANGED <<conn, route, reply>>
    BY <1>2 DEF tables
  <2> QED BY <1>1, <1>2, <2>1, StateLive
<1>3. CASE /\ peer' = [peer EXCEPT ![n][m] = "open"] /\ UNCHANGED <<route, reply>>
           /\ conn' = [conn EXCEPT ![n] = @ \cup {m}]
  <2>1. /\ peer' \in [Node -> [Node -> {"none", "calling", "open", "killed"}]]
        /\ \A x, y \in Node : peer'[x][y] = IF x = n /\ y = m THEN "open" ELSE peer[x][y]
    BY <1>1, <1>3 DEF RouteTypes
  <2>2. RouteTypes'
    BY <1>1, <1>3, <2>1 DEF RouteTypes
  <2>3. \A x \in Node : Usable(x) \subseteq Usable(x)'
    BY <2>1 DEF Usable
  <2>4. m \in Usable(n)'
    BY <2>1 DEF Usable
  <2>5. \A x \in Node : conn'[x] = IF x = n THEN conn[n] \cup {m} ELSE conn[x]
    BY <1>1, <1>3 DEF RouteTypes
  <2>6. ASSUME NEW x \in Node
        PROVE  Reaches(x)' \subseteq Reaches(x) \cup Usable(x)' \cup {NULL}
    <3>1. route' = route /\ reply' = reply
      BY <1>3
    <3>2. Reaches(x)' \subseteq Reaches(x) \cup (IF x = n THEN {m} ELSE {})
      BY <2>5, <3>1 DEF Reaches
    <3> QED BY <2>4, <3>2
  <2> QED BY <2>2, <2>3, <2>6, Grows
<1> QED BY <1>2, <1>3 DEF nut_connect_socket

\* nut_disconnect forgets a connection before its socket is freed.
LEMMA SweepLive ==
    ASSUME RouteInv, NEW n \in Node, NEW m \in Node, Disconnect(n, m)
    PROVE  RouteInv'
<1>1. /\ RouteTypes /\ Reaches(n) \subseteq Usable(n) \cup {NULL}
      /\ route' = [route EXCEPT ![n] = Forget(@, m)]
      /\ reply' = [reply EXCEPT ![n] = Forget(@, m)]
      /\ conn' = [conn EXCEPT ![n] = @ \ {m}]
      /\ peer' = [peer EXCEPT ![n][m] = "none"]
  BY DEF RouteInv, Disconnect, nut_disconnect
<1>2. /\ peer' \in [Node -> [Node -> {"none", "calling", "open", "killed"}]]
      /\ \A x, y \in Node : peer'[x][y] = IF x = n /\ y = m THEN "none" ELSE peer[x][y]
  BY <1>1 DEF RouteTypes
<1>3. PICK f \in [Id -> Node \cup {NULL}], g \in [Node -> Node \cup {NULL}] :
        f = Forget(route[n], m) /\ g = Forget(reply[n], m)
  <2>1. Forget(route[n], m) \in [Id -> Node \cup {NULL}]
    BY <1>1 DEF RouteTypes, Forget
  <2>2. Forget(reply[n], m) \in [Node -> Node \cup {NULL}]
    BY <1>1 DEF RouteTypes, Forget
  <2> QED BY <2>1, <2>2
<1>4. /\ route' = [route EXCEPT ![n] = f] /\ reply' = [reply EXCEPT ![n] = g]
      /\ \A x \in Node : x # n => route'[x] = route[x] /\ reply'[x] = reply[x] /\ conn'[x] = conn[x]
  BY <1>1, <1>3 DEF RouteTypes
<1>5. RouteTypes'
  BY <1>1, <1>2, <1>4 DEF RouteTypes
<1>6. /\ \A x \in Node : x # n => Usable(x)' = Usable(x)
      /\ Usable(n)' = Usable(n) \ {m}
      /\ \A x \in Node : x # n => Reaches(x)' = Reaches(x)
  <2>1. \A x \in Node : x # n => Usable(x)' = Usable(x)
    BY <1>2 DEF Usable
  <2>2. Usable(n)' = Usable(n) \ {m}
    BY <1>2 DEF Usable
  <2>3. \A x \in Node : x # n => Reaches(x)' = Reaches(x)
    BY <1>4 DEF Reaches
  <2> QED BY <2>1, <2>2, <2>3
<1>7. Reaches(n)' \subseteq (Reaches(n) \ {m}) \cup {NULL}
  <2>0. PICK a \in [Id -> Node \cup {NULL}], b \in [Node -> Node \cup {NULL}] :
          a = route[n] /\ b = reply[n]
    BY <1>1 DEF RouteTypes
  <2>1. Range(f) \subseteq (Range(route[n]) \ {m}) \cup {NULL}
    BY <1>3, <2>0 DEF Range, Forget
  <2>2. Range(g) \subseteq (Range(reply[n]) \ {m}) \cup {NULL}
    BY <1>3, <2>0 DEF Range, Forget
  <2>3. route'[n] = f /\ reply'[n] = g /\ conn'[n] = conn[n] \ {m}
    BY <1>1, <1>4 DEF RouteTypes
  <2> QED BY <2>1, <2>2, <2>3 DEF Reaches
<1> QED BY <1>1, <1>5, <1>6, <1>7 DEF RouteInv

\* A request is remembered, or a query hit: the connection it came by is there.
LEMMA RememberLive ==
    ASSUME RouteInv, NEW n \in Node, NEW m \in Node, peer[n][m] = "open",
           NEW ms, ShutDown(n, ms), UNCHANGED conn, NEW k,
           \/ route' \in {route, [route EXCEPT ![n][k] = m]} /\ UNCHANGED reply
           \/ reply' = [reply EXCEPT ![n][k] = m] /\ UNCHANGED route
    PROVE  RouteInv'
<1>1. RouteTypes
  BY DEF RouteInv
<1>2. /\ peer' \in [Node -> [Node -> {"none", "calling", "open", "killed"}]]
      /\ \A x \in Node : Usable(x) \subseteq Usable(x)'
  BY <1>1, KillGrows
<1>3. route' \in [Node -> [Id -> Node \cup {NULL}]]
  <2>1. CASE UNCHANGED route
    BY <1>1, <2>1 DEF RouteTypes
  <2>2. CASE route' = [route EXCEPT ![n][k] = m]
    BY <1>1, <2>2 DEF RouteTypes
  <2> QED BY <2>1, <2>2
<1>4. reply' \in [Node -> [Node -> Node \cup {NULL}]]
  <2>1. CASE UNCHANGED reply
    BY <1>1, <2>1 DEF RouteTypes
  <2>2. CASE reply' = [reply EXCEPT ![n][k] = m]
    BY <1>1, <2>2 DEF RouteTypes
  <2> QED BY <2>1, <2>2
<1>5. RouteTypes'
  BY <1>1, <1>2, <1>3, <1>4 DEF RouteTypes
<1>6. m \in Usable(n)'
  BY <1>2 DEF Usable
<1>7. ASSUME NEW x \in Node
      PROVE  Reaches(x)' \subseteq Reaches(x) \cup Usable(x)' \cup {NULL}
  <2>1. PICK f \in [Id -> Node \cup {NULL}], g \in [Node -> Node \cup {NULL}] :
          f = route[x] /\ g = reply[x]
    BY <1>1 DEF RouteTypes
  <2>2. \/ route'[x] = f
        \/ x = n /\ route'[x] = [f EXCEPT ![k] = m]
    <3>1. CASE UNCHANGED route
      BY <2>1, <3>1
    <3>2. CASE route' = [route EXCEPT ![n][k] = m]
      BY <1>1, <2>1, <3>2 DEF RouteTypes
    <3> QED BY <3>1, <3>2
  <2>3. \/ reply'[x] = g
        \/ x = n /\ reply'[x] = [g EXCEPT ![k] = m]
    <3>1. CASE UNCHANGED reply
      BY <2>1, <3>1
    <3>2. CASE reply' = [reply EXCEPT ![n][k] = m]
      BY <1>1, <2>1, <3>2 DEF RouteTypes
    <3> QED BY <3>1, <3>2
  <2>4. Range(route'[x]) \subseteq Range(f) \cup (IF x = n THEN {m} ELSE {})
    BY <2>2 DEF Range
  <2>5. Range(reply'[x]) \subseteq Range(g) \cup (IF x = n THEN {m} ELSE {})
    <3>1. CASE reply'[x] = g
      BY <3>1
    <3>2. CASE x = n /\ reply'[x] = [g EXCEPT ![k] = m]
      <4>1. Range([g EXCEPT ![k] = m]) \subseteq Range(g) \cup {m}
        BY DEF Range
      <4> QED BY <3>2, <4>1
    <3> QED BY <2>3, <3>1, <3>2
  <2>6. Reaches(x)' \subseteq Reaches(x) \cup (IF x = n THEN {m} ELSE {})
    BY <2>1, <2>4, <2>5 DEF Reaches
  <2> QED BY <1>6, <2>6
<1> QED BY <1>2, <1>5, <1>7, Grows

LEMMA RequestLive ==
    ASSUME RouteInv, NEW n \in Node, NEW m \in Node, Request(n, m)
    PROVE  RouteInv'
<1>1. peer[n][m] = "open" /\ UNCHANGED <<conn, reply>>
  BY DEF Request, Incoming
<1>2. \E ms : ShutDown(n, ms)
  BY DEF Request
<1>3. \E k : route' \in {route, [route EXCEPT ![n][k] = m]}
  BY DEF Request
<1> QED BY <1>1, <1>2, <1>3, RememberLive

LEMMA ReplyLive ==
    ASSUME RouteInv, NEW n \in Node, NEW m \in Node, Reply(n, m)
    PROVE  RouteInv'
<1>1. peer[n][m] = "open" /\ UNCHANGED <<conn, route>>
  BY DEF Reply, Incoming
<1>2. \E ms : ShutDown(n, ms)
  BY DEF Reply
<1>3. \E k : reply' = reply \/ reply' = [reply EXCEPT ![n][k] = m]
  BY DEF Reply, nut_pong, nut_reply
<1> QED BY <1>1, <1>2, <1>3, RememberLive

\* Nothing but perhaps a socket that is killed.
LEMMA QuietLive ==
    ASSUME RouteInv, UNCHANGED <<conn, route, reply>>,
           peer' = peer \/ \E n \in Node : \E ms : ShutDown(n, ms)
    PROVE  RouteInv'
<1>1. RouteTypes
  BY DEF RouteInv
<1>2. CASE peer' = peer
  BY <1>2 DEF RouteInv, RouteTypes, Reaches, Usable
<1>3. ASSUME NEW n \in Node, NEW ms, ShutDown(n, ms) PROVE RouteInv'
  BY <1>1, <1>3, KillGrows, TablesStay
<1> QED BY <1>2, <1>3

LEMMA RouteStep == RouteInv /\ [RouteNext]_routeVars => RouteInv'
<1> SUFFICES ASSUME RouteInv, [RouteNext]_routeVars PROVE RouteInv'
  OBVIOUS
<1>1. CASE UNCHANGED routeVars
  BY <1>1, QuietLive DEF routeVars, tables
<1>2. CASE Tick
  BY <1>2, QuietLive DEF Tick
<1>3. ASSUME NEW n \in Node, nut_server_notify(n) PROVE RouteInv'
  BY <1>3, QuietLive DEF nut_server_notify
<1>4. ASSUME NEW n \in Node, NEW m \in Node, Break(n, m) PROVE RouteInv'
  BY <1>4, StateLive DEF Break, tables
<1>5. ASSUME NEW n \in Node, NEW m \in Node, Ended(n, m) PROVE RouteInv'
  BY <1>5, StateLive DEF Ended, tables
<1>6. ASSUME NEW n \in Node, NEW m \in Node, Dropped(n, m) PROVE RouteInv'
  BY <1>6, QuietLive DEF Dropped
<1>7. ASSUME NEW n \in Node, NEW m \in Node, nut_push_request(n, m) PROVE RouteInv'
  BY <1>7, QuietLive DEF nut_push_request, tables
<1>8. ASSUME NEW n \in Node, NEW m \in Node, nut_idle_searching(n, m) PROVE RouteInv'
  BY <1>8, QuietLive DEF nut_idle_searching, Send
<1>9. ASSUME NEW n \in Node, NEW m \in Node, NEW g \in Node, nut_send_push(n, m, g)
      PROVE  RouteInv'
  BY <1>9, QuietLive DEF nut_send_push, Send
<1> QED
  BY <1>1, <1>2, <1>3, <1>4, <1>5, <1>6, <1>7, <1>8, <1>9,
     ConnectIpLive, ConnectSocketLive, SweepLive, RequestLive, ReplyLive
  DEF RouteNext

\* For every network, any connections at the start and any number of packets and faults:
\* no routing table of a node and none of its lists of connections leads to a socket that
\* was freed, although each end of a connection learns of its end on its own
\* (nut_disconnect, nut_route, nut_reply).
THEOREM RoutesLiveCorrect == RouteSpec => []RoutesLive
<1>1. RouteInv => RoutesLive
  BY NodeAssumption DEF RouteInv, RoutesLive, Reaches, Usable
<1> QED BY <1>1, InitLive, RouteStep, PTL DEF RouteSpec
=============================================================================
