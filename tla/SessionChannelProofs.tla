------------------------ MODULE SessionChannelProofs ------------------------
(***************************************************************************)
(* Proofs about SessionChannel, for every number of pages and connections, *)
(* every budget and every limit on waiting frames: it keeps the promise of *)
(* InputStream, and the end of the interview loses nothing.                *)
(*                                                                         *)
(* Three things hold the promise up.  A frame on a connection that some    *)
(* page holds is that page's (HeldInv), so an acknowledgement settles the  *)
(* input it is for.  A watermark, and what a frame expects on its way in,  *)
(* is never beyond the record (MarkInv).  And only a frame in the lane     *)
(* waits to be stored (LaneInv).                                           *)
(***************************************************************************)
EXTENDS SessionChannel, SequenceTheorems, WellFoundedInduction, TLAPS

-----------------------------------------------------------------------------
(* Sequences.                                                              *)

\* A set of numbers that is not empty has a least one.
LEMMA LeastOfNat == ASSUME NEW S, S \subseteq Nat, S # {} PROVE Min(S) \in S
<1>1. PICK m \in S : \A n \in S : ~(<<n, m>> \in OpToRel(<, Nat))
  BY NatLessThanWellFounded, WFMin
<1>2. \A n \in S : m <= n
  <2> SUFFICES ASSUME NEW n \in S, n < m PROVE FALSE
    OBVIOUS
  <2>1. <<n, m>> \in Nat \X Nat /\ <<n, m>>[1] < <<n, m>>[2]
    OBVIOUS
  <2>2. <<n, m>> \in OpToRel(<, Nat)
    BY <2>1, Zenon DEF OpToRel
  <2>3. QED
    BY <1>1, <2>2
<1>3. QED
  BY <1>2 DEF Min

\* What a sequence holds.
Elements(s) == {s[i] : i \in DOMAIN s}

\* Appending adds one element.
LEMMA AppendElements ==
  ASSUME NEW S, NEW s \in Seq(S), NEW e \in S
  PROVE  Append(s, e) \in Seq(S) /\ Elements(Append(s, e)) = Elements(s) \cup {e}
<1>1. /\ Append(s, e) \in Seq(S) /\ DOMAIN Append(s, e) = 1..(Len(s) + 1)
      /\ DOMAIN s = 1..Len(s)
      /\ \A i \in 1..Len(s) : Append(s, e)[i] = s[i]
      /\ Append(s, e)[Len(s) + 1] = e
  OBVIOUS
<1>2. QED
  BY <1>1 DEF Elements

\* Concatenation joins the elements.
LEMMA ConcatElements ==
  ASSUME NEW S, NEW s \in Seq(S), NEW t \in Seq(S)
  PROVE  /\ s \o t \in Seq(S) /\ Len(s \o t) = Len(s) + Len(t)
         /\ \A i \in 1..(Len(s) + Len(t)) :
              (s \o t)[i] = IF i <= Len(s) THEN s[i] ELSE t[i - Len(s)]
         /\ Elements(s \o t) \subseteq Elements(s) \cup Elements(t)
<1>1. /\ s \o t \in Seq(S) /\ DOMAIN (s \o t) = 1..(Len(s) + Len(t))
      /\ DOMAIN s = 1..Len(s) /\ DOMAIN t = 1..Len(t)
      /\ \A i \in 1..(Len(s) + Len(t)) :
           (s \o t)[i] = IF i <= Len(s) THEN s[i] ELSE t[i - Len(s)]
  OBVIOUS
<1>2. QED
  BY <1>1 DEF Elements

\* A part of a sequence, its tail among them, holds nothing else.
LEMMA SubSeqElements ==
  ASSUME NEW S, NEW s \in Seq(S), NEW m \in 1..(Len(s) + 1), NEW n \in 0..Len(s)
  PROVE  /\ SubSeq(s, m, n) \in Seq(S)
         /\ Elements(SubSeq(s, m, n)) \subseteq Elements(s)
<1>1. /\ SubSeq(s, m, n) \in Seq(S)
      /\ DOMAIN SubSeq(s, m, n) = 1..Len(SubSeq(s, m, n))
      /\ Len(SubSeq(s, m, n)) = IF m <= n THEN n - m + 1 ELSE 0
      /\ \A i \in 1..Len(SubSeq(s, m, n)) : SubSeq(s, m, n)[i] = s[m + i - 1]
  BY SubSeqProperties
<1>2. QED
  BY <1>1 DEF Elements

\* A non-empty sequence's head and tail hold elements of it.
LEMMA TailElements ==
  ASSUME NEW S, NEW s \in Seq(S), s # <<>>
  PROVE  /\ Head(s) \in S /\ Head(s) \in Elements(s)
         /\ Tail(s) \in Seq(S) /\ Elements(Tail(s)) \subseteq Elements(s)
<1>1. /\ Head(s) = s[1] /\ 1 \in DOMAIN s /\ s[1] \in S /\ Tail(s) \in Seq(S)
      /\ DOMAIN Tail(s) = 1..(Len(s) - 1) /\ DOMAIN s = 1..Len(s)
      /\ \A i \in 1..(Len(s) - 1) : Tail(s)[i] = s[i + 1]
  OBVIOUS
<1>2. QED
  BY <1>1 DEF Elements

\* Taking the i-th element away leaves all others.
LEMMA RemoveAtElements ==
  ASSUME NEW S, NEW s \in Seq(S), NEW i \in 1..Len(s)
  PROVE  /\ RemoveAt(s, i) \in Seq(S) /\ Len(RemoveAt(s, i)) = Len(s) - 1
         /\ \A j \in 1..(Len(s) - 1) : RemoveAt(s, i)[j] = IF j < i THEN s[j] ELSE s[j + 1]
         /\ Elements(RemoveAt(s, i)) \subseteq Elements(s)
         /\ Elements(s) \subseteq Elements(RemoveAt(s, i)) \cup {s[i]}
<1> DEFINE a == SubSeq(s, 1, i - 1)
           b == SubSeq(s, i + 1, Len(s))
<1>1. /\ a \in Seq(S) /\ Len(a) = i - 1 /\ \A j \in 1..(i - 1) : a[j] = s[j]
  BY SubSeqProperties
<1>2. /\ b \in Seq(S) /\ Len(b) = Len(s) - i /\ \A j \in 1..(Len(s) - i) : b[j] = s[i + j]
  BY SubSeqProperties
<1> HIDE DEF a, b
<1>a. /\ a \o b \in Seq(S) /\ Len(a \o b) = Len(s) - 1
      /\ \A j \in 1..(Len(s) - 1) : (a \o b)[j] = IF j <= i - 1 THEN a[j] ELSE b[j - (i - 1)]
  <2>1. /\ a \o b \in Seq(S) /\ Len(a \o b) = Len(a) + Len(b)
        /\ \A j \in 1..(Len(a) + Len(b)) :
             (a \o b)[j] = IF j <= Len(a) THEN a[j] ELSE b[j - Len(a)]
    BY <1>1, <1>2, ConcatElements
  <2>2. Len(a) + Len(b) = Len(s) - 1
    BY <1>1, <1>2
  <2>3. QED
    BY <2>1, <2>2, <1>1
<1>b. ASSUME NEW j \in 1..(Len(s) - 1)
      PROVE  (a \o b)[j] = IF j < i THEN s[j] ELSE s[j + 1]
  <2>1. CASE j < i
    <3>1. j \in 1..(i - 1)
      BY <2>1
    <3>2. QED
      BY <3>1, <2>1, <1>1, <1>a
  <2>2. CASE ~(j < i)
    <3>1. j - (i - 1) \in 1..(Len(s) - i) /\ ~(j <= i - 1)
      BY <2>2
    <3>a. (a \o b)[j] = b[j - (i - 1)]
      BY <3>1, <1>a
    <3>2. b[j - (i - 1)] = s[i + (j - (i - 1))] /\ i + (j - (i - 1)) = j + 1
      BY <3>1, <1>2
    <3>3. QED
      BY <3>a, <3>2, <2>2
  <2>3. QED
    BY <2>1, <2>2
<1>3. /\ a \o b \in Seq(S) /\ Len(a \o b) = Len(s) - 1
      /\ \A j \in 1..(Len(s) - 1) : (a \o b)[j] = IF j < i THEN s[j] ELSE s[j + 1]
  BY <1>a, <1>b
<1>4. RemoveAt(s, i) = a \o b
  BY DEF RemoveAt, a, b
<1>5. /\ DOMAIN (a \o b) = 1..(Len(s) - 1) /\ DOMAIN s = 1..Len(s)
  BY <1>3
<1>6. Elements(a \o b) \subseteq Elements(s)
  <2>1. \A j \in 1..(Len(s) - 1) : j \in 1..Len(s) /\ j + 1 \in 1..Len(s)
    OBVIOUS
  <2>2. QED
    BY <2>1, <1>3, <1>5 DEF Elements
<1>7. \A j \in 1..Len(s) : s[j] \in Elements(a \o b) \cup {s[i]}
  <2> TAKE j \in 1..Len(s)
  <2>1. CASE j < i
    <3>1. j \in 1..(Len(s) - 1)
      BY <2>1
    <3>2. QED
      BY <3>1, <2>1, <1>3, <1>5 DEF Elements
  <2>2. CASE j > i
    <3>1. j - 1 \in 1..(Len(s) - 1) /\ ~(j - 1 < i) /\ (j - 1) + 1 = j
      BY <2>2
    <3>a. (a \o b)[j - 1] = s[j]
      BY <3>1, <1>3
    <3>2. QED
      BY <3>1, <3>a, <1>5 DEF Elements
  <2>3. QED
    BY <2>1, <2>2
<1>8. Elements(s) \subseteq Elements(a \o b) \cup {s[i]}
  BY <1>5, <1>7 DEF Elements
<1>9. QED
  BY <1>3, <1>4, <1>6, <1>8

-----------------------------------------------------------------------------
(* The invariant.                                                          *)

Events  == [page : Pages, seq : Nat]
Answers == [kind : {"REPLAY_FROM", "ACK"}, seq : Nat] \cup {SaysEnded, Internal}
Jobs    == {Idle, [at |-> "conflict"]} \cup [at : {"latest"}, event : Events]
           \cup [at : {"append"}, event : Events, expected : Nat]

Tabs ==
  [at : {"unborn", "live", "gone"}, first : Nat, next : Nat, outbox : Seq(Events),
   acked : Int, sock : Connections \cup {None}, dial : {"no", "ticket", "stopped"},
   end : {"no", "waiting"}, final : Int]

Sockets ==
  [at : {"free", "open", "closing", "closed"}, wire : Seq(Events), inbox : Seq(Events),
   replies : Seq(Answers), job : Jobs]

TypeOK ==
  /\ tabs \in [Pages -> Tabs] /\ socks \in [Connections -> Sockets]
  /\ lane \in Seq(Connections) /\ log \in Seq(Events)

\* The inputs a page has numbered, and the frames of a connection.
IsMade(e) == e.seq \in tabs[e.page].first .. (tabs[e.page].next - 1)

InHand(job) == IF job.at \in {"latest", "append"} THEN {job.event} ELSE {}
Frames(sock) == Elements(sock.wire) \cup Elements(sock.inbox) \cup InHand(sock.job)

\* A page that was never loaded has done nothing; what waits in an outbox was
\* numbered by that page.
PageInv ==
  \A p \in Pages :
    /\ tabs[p].at = "unborn" => tabs[p] = Unborn
    /\ tabs[p].first <= tabs[p].next
    /\ \A e \in Waiting(p) : e.page = p /\ IsMade(e)

\* Nothing travels that nobody produced.
FrameInv == \A c \in Connections : \A e \in Frames(socks[c]) : IsMade(e)

\* A connection a page holds is its own: it carries the page's frames, and an
\* acknowledgement on it is of an input of that page on record.
HeldInv ==
  /\ \A p, q \in Pages : tabs[p].sock = tabs[q].sock /\ tabs[p].sock # None => p = q
  /\ \A p \in Pages, c \in Connections : tabs[p].sock = c =>
       /\ socks[c].at \in {"open", "closing"}
       /\ \A e \in Frames(socks[c]) : e.page = p
       /\ \A m \in Elements(socks[c].replies) :
            m.kind = "ACK" => [page |-> p, seq |-> m.seq] \in Stored

\* The record is numbered from 0 on, without a gap.
LogInv == \A i \in 1..Len(log) : log[i].seq = i - 1

\* Neither the watermark nor what a frame expects is beyond the record.
MarkInv ==
  /\ watermark \subseteq -1..(Len(log) - 1)
  /\ \A c \in Connections :
       LET job == socks[c].job
       IN  job.at = "append" => job.event.seq <= job.expected /\ job.expected <= Len(log)

\* A connection is in the lane once, with the frame to be stored; one that is
\* free has no frame in hand.
LaneInv ==
  /\ \A i \in 1..Len(lane) : socks[lane[i]].job.at = "append"
  /\ \A i, j \in 1..Len(lane) : lane[i] = lane[j] => i = j
  /\ \A c \in Connections : socks[c].at = "free" => socks[c].job = Idle

\* The page that ended the interview is gone, and what it waited for is stored.
EndInv ==
  \A p \in Pages : ended = p => tabs[p].at = "gone" /\ tabs[p].final < Len(log)

ChannelInv ==
  TypeOK /\ PageInv /\ FrameInv /\ HeldInv /\ LogInv /\ MarkInv /\ LaneInv /\ EndInv

-----------------------------------------------------------------------------
(* Outboxes and the lane.                                                  *)

\* An acknowledgement takes nothing from an outbox but inputs of its number.
LEMMA SettledBox ==
  ASSUME NEW box \in Seq(Events), NEW n
  PROVE  /\ Settled(box, n) \in Seq(Events)
         /\ Elements(Settled(box, n)) \subseteq Elements(box)
         /\ \A e \in Elements(box) : e.seq # n => e \in Elements(Settled(box, n))
<1> DEFINE hits == {i \in 1..Len(box) : box[i].seq = n}
<1>a. hits \subseteq Nat /\ \A i \in hits : i \in 1..Len(box) /\ box[i].seq = n
  OBVIOUS
<1> HIDE DEF hits
<1>1. CASE hits = {}
  <2>1. Settled(box, n) = box
    BY <1>1 DEF Settled, RemoveFirstMatch, hits
  <2>2. QED
    BY <2>1
<1>2. CASE hits # {}
  <2>1. Min(hits) \in hits
    BY <1>2, <1>a, LeastOfNat
  <2>2. Settled(box, n) = RemoveAt(box, Min(hits))
    BY <1>2 DEF Settled, RemoveFirstMatch, SelectInSeq, hits
  <2>3. PICK i \in 1..Len(box) : box[i].seq = n /\ Settled(box, n) = RemoveAt(box, i)
    BY <2>1, <2>2, <1>a
  <2>4. QED
    BY <2>3, RemoveAtElements
<1>3. QED
  BY <1>1, <1>2

\* What is sent again is in the outbox.
LEMMA UnackedBox ==
  ASSUME NEW p \in Pages, tabs[p].outbox \in Seq(Events), NEW n
  PROVE  /\ Unacked(p, n) \in Seq(Events)
         /\ Elements(Unacked(p, n)) \subseteq Waiting(p)
<1> DEFINE box == tabs[p].outbox
           hits == {i \in 1..Len(box) : box[i].seq >= n}
<1>a. hits \subseteq Nat /\ \A i \in hits : i \in 1..Len(box) /\ i # 0
  OBVIOUS
<1> HIDE DEF hits
<1>0. Waiting(p) = Elements(box)
  BY DEF Waiting, Elements
<1>1. CASE hits = {}
  <2>1. Unacked(p, n) = <<>>
    BY <1>1 DEF Unacked, SelectInSeq, hits
  <2>2. QED
    BY <2>1 DEF Elements
<1>2. CASE hits # {}
  <2>1. Min(hits) \in hits
    BY <1>2, <1>a, LeastOfNat
  <2>2. Unacked(p, n) = SubSeq(box, Min(hits), Len(box))
    BY <1>2, <1>a, <2>1 DEF Unacked, SelectInSeq, hits
  <2>3. PICK i \in 1..Len(box) : Unacked(p, n) = SubSeq(box, i, Len(box))
    BY <2>1, <2>2, <1>a
  <2> HIDE DEF box
  <2>a. box \in Seq(Events)
    BY DEF box
  <2>4. i \in 1..(Len(box) + 1) /\ Len(box) \in 0..Len(box)
    BY <2>a
  <2>b. /\ SubSeq(box, i, Len(box)) \in Seq(Events)
        /\ Elements(SubSeq(box, i, Len(box))) \subseteq Elements(box)
    BY <2>a, <2>4, SubSeqElements
  <2>5. QED
    BY <2>3, <2>b, <1>0
<1>3. QED
  BY <1>1, <1>2

\* A connection whose frame fails leaves the lane, and nobody else does.
LEMMA LaneLeft ==
  ASSUME lane \in Seq(Connections), NEW c \in Connections,
         \A i, j \in 1..Len(lane) : lane[i] = lane[j] => i = j
  PROVE  LET rest == RemoveFirst(lane, c)
         IN  /\ rest \in Seq(Connections)
             /\ \A i \in 1..Len(rest) : \E k \in 1..Len(lane) : rest[i] = lane[k] /\ lane[k] # c
             /\ \A i, j \in 1..Len(rest) : rest[i] = rest[j] => i = j
<1> DEFINE hits == {i \in 1..Len(lane) : lane[i] = c}
           rest == RemoveFirst(lane, c)
<1>a. hits \subseteq Nat /\ \A i \in hits : i \in 1..Len(lane) /\ lane[i] = c
  OBVIOUS
<1> HIDE DEF hits
<1>1. CASE hits = {}
  <2>1. rest = lane
    BY <1>1 DEF RemoveFirst, hits
  <2>2. QED
    BY <2>1, <1>1 DEF hits
<1>2. CASE hits # {}
  <2>1. Min(hits) \in hits
    BY <1>2, <1>a, LeastOfNat
  <2>2. rest = RemoveAt(lane, Min(hits))
    BY <1>2 DEF RemoveFirst, SelectInSeq, hits
  <2>3. PICK k \in 1..Len(lane) : lane[k] = c /\ rest = RemoveAt(lane, k)
    BY <2>1, <2>2, <1>a
  <2> HIDE DEF rest
  <2>4. /\ rest \in Seq(Connections) /\ Len(rest) = Len(lane) - 1
        /\ \A j \in 1..(Len(lane) - 1) : rest[j] = IF j < k THEN lane[j] ELSE lane[j + 1]
    BY ZenonT(30), <2>3, RemoveAtElements
  <2>5. ASSUME NEW i \in 1..Len(rest)
        PROVE  \E m \in 1..Len(lane) :
                 rest[i] = lane[m] /\ m = IF i < k THEN i ELSE i + 1
    <3>1. i \in 1..(Len(lane) - 1) /\ i \in 1..Len(lane) /\ i + 1 \in 1..Len(lane)
      BY <2>4
    <3>2. QED
      BY <3>1, <2>4
  <2>6. \A i \in 1..Len(rest) : \E m \in 1..Len(lane) : rest[i] = lane[m] /\ lane[m] # c
    <3> TAKE i \in 1..Len(rest)
    <3>1. PICK m \in 1..Len(lane) : rest[i] = lane[m] /\ m = IF i < k THEN i ELSE i + 1
      BY <2>5
    <3>2. m # k
      BY <3>1, <2>4
    <3>3. QED
      BY <3>1, <3>2, <2>3
  <2>7. \A i, j \in 1..Len(rest) : rest[i] = rest[j] => i = j
    <3> SUFFICES ASSUME NEW i \in 1..Len(rest), NEW j \in 1..Len(rest), rest[i] = rest[j]
                 PROVE  i = j
      OBVIOUS
    <3>1. PICK m \in 1..Len(lane) : rest[i] = lane[m] /\ m = IF i < k THEN i ELSE i + 1
      BY <2>5
    <3>2. PICK n \in 1..Len(lane) : rest[j] = lane[n] /\ n = IF j < k THEN j ELSE j + 1
      BY <2>5
    <3>3. lane[m] = lane[n]
      BY <3>1, <3>2
    <3>4. m = n
      BY <3>3
    <3>5. i \in Int /\ j \in Int
      BY <2>4
    <3>6. QED
      BY <3>1, <3>2, <3>4, <3>5
  <2>8. QED
    BY <2>4, <2>6, <2>7 DEF rest
<1>3. QED
  BY <1>1, <1>2

\* With the record numbered without a gap, its highest number is its length less one.
LEMMA LatestIsLength ==
  ASSUME log \in Seq(Events), LogInv
  PROVE  Latest = Len(log) - 1 /\ \A n \in Nat : Taken(n) <=> n < Len(log)
<1>0. Stored = {log[i] : i \in 1..Len(log)}
  BY DEF Stored
<1>1. \A n \in Nat : Taken(n) <=> n < Len(log)
  <2>1. \A n \in Nat : n < Len(log) => n + 1 \in 1..Len(log) /\ log[n + 1].seq = n
    BY DEF LogInv
  <2>2. \A i \in 1..Len(log) : log[i].seq < Len(log)
    BY DEF LogInv
  <2>3. QED
    BY <1>0, <2>1, <2>2 DEF Taken
<1>2. Latest = Len(log) - 1
  <2> DEFINE S == {-1} \cup {e.seq : e \in Stored}
             Tops(n) == n \in S /\ \A e \in Stored : e.seq <= n
  <2>1. \A n \in S : n \in -1..(Len(log) - 1)
    BY <1>0 DEF LogInv
  <2>2. Len(log) - 1 \in S
    <3>1. CASE Len(log) = 0
      BY <3>1
    <3>2. CASE Len(log) # 0
      <4>1. Len(log) \in 1..Len(log) /\ log[Len(log)].seq = Len(log) - 1
        BY <3>2 DEF LogInv
      <4>2. QED
        BY <4>1, <1>0
    <3>3. QED
      BY <3>1, <3>2
  <2>3. \A e \in Stored : e.seq <= Len(log) - 1
    BY <1>0 DEF LogInv
  <2>4. Tops(Len(log) - 1)
    BY <2>2, <2>3
  <2>5. \A n : Tops(n) => n = Len(log) - 1
    <3> SUFFICES ASSUME NEW n \in S, \A e \in Stored : e.seq <= n PROVE n = Len(log) - 1
      OBVIOUS
    <3>1. CASE Len(log) = 0
      BY <3>1, <2>1
    <3>2. CASE Len(log) # 0
      <4>1. log[Len(log)] \in Stored /\ log[Len(log)].seq = Len(log) - 1
        BY <3>2, <1>0 DEF LogInv
      <4>2. QED
        BY <4>1, <2>1
    <3>3. QED
      BY <3>1, <3>2
  <2>6. Latest = CHOOSE n \in S : \A e \in Stored : e.seq <= n
    BY DEF Latest
  <2>7. QED
    BY <2>4, <2>5, <2>6
<1>3. QED
  BY <1>1, <1>2

-----------------------------------------------------------------------------
(* Connections.                                                            *)

\* The frames of a connection are inputs.
LEMMA FramesTyped ==
  ASSUME NEW sock \in Sockets PROVE Frames(sock) \subseteq Events
<1>1. sock.wire \in Seq(Events) /\ sock.inbox \in Seq(Events) /\ sock.job \in Jobs
  BY DEF Sockets
<1>2. Elements(sock.wire) \subseteq Events /\ Elements(sock.inbox) \subseteq Events
  BY <1>1 DEF Elements
<1>3. InHand(sock.job) \subseteq Events
  BY <1>1 DEF InHand, Jobs, Idle
<1>4. QED
  BY <1>2, <1>3 DEF Frames

\* A frame that is done, and the answer to it, leave the connection with no
\* frame it did not have; a connection somebody holds has the answer last.
LEMMA AnswerKeeps ==
  ASSUME socks \in [Connections -> Sockets], NEW c \in Connections, NEW m \in Answers
  PROVE  /\ Answer(c, m) \in Sockets /\ Answer(c, m).job = Idle
         /\ Answer(c, m).inbox \in {<<>>, socks[c].inbox}
         /\ Answer(c, m).wire \in {<<>>, socks[c].wire}
         /\ socks[c].at # "closed" => /\ Answer(c, m).at = socks[c].at
                                      /\ Answer(c, m).inbox = socks[c].inbox
         /\ Elements(Answer(c, m).replies) \subseteq Elements(socks[c].replies) \cup {m}
<1>1. /\ Idle \in Jobs /\ <<>> \in Seq(Events) /\ <<>> \in Seq(Answers) /\ Elements(<<>>) = {}
  BY DEF Jobs, Elements
<1>2. NoSocket \in Sockets
  BY <1>1 DEF NoSocket, Sockets
<1> DEFINE said == IF Open(c) /\ Held(c) THEN [socks[c] EXCEPT !.replies = Append(@, m)]
                                         ELSE socks[c]
<1>3. /\ said \in Sockets /\ said.at = socks[c].at
      /\ said.inbox = socks[c].inbox /\ said.wire = socks[c].wire
      /\ Elements(said.replies) \subseteq Elements(socks[c].replies) \cup {m}
  <2>0. socks[c] \in Sockets
    OBVIOUS
  <2>1. socks[c].replies \in Seq(Answers)
    BY <2>0 DEF Sockets
  <2>2. /\ Append(socks[c].replies, m) \in Seq(Answers)
        /\ Elements(Append(socks[c].replies, m)) \subseteq Elements(socks[c].replies) \cup {m}
    BY <2>1, AppendElements
  <2>3. QED
    BY <2>0, <2>2 DEF Sockets
<1>4. Answer(c, m) = IF said.at = "closed" THEN NoSocket ELSE [said EXCEPT !.job = Idle]
  BY DEF Answer, Done
<1> HIDE DEF said
<1>5. CASE said.at = "closed"
  BY <1>1, <1>2, <1>3, <1>4, <1>5 DEF NoSocket
<1>6. CASE said.at # "closed"
  <2>1. /\ [said EXCEPT !.job = Idle] \in Sockets
        /\ [said EXCEPT !.job = Idle].at = said.at
        /\ [said EXCEPT !.job = Idle].wire = said.wire
        /\ [said EXCEPT !.job = Idle].inbox = said.inbox
        /\ [said EXCEPT !.job = Idle].replies = said.replies
        /\ [said EXCEPT !.job = Idle].job = Idle
    BY <1>1, <1>3 DEF Sockets
  <2>2. QED
    BY <2>1, <1>3, <1>4, <1>6
<1>7. QED
  BY <1>5, <1>6

\* The server's work on one connection adds no frame to it, and acknowledges
\* nothing that is not on record.
LEMMA ServerKeeps ==
  ASSUME TypeOK, PageInv, FrameInv, HeldInv,
         NEW c \in Connections, NEW sock \in Sockets,
         tabs' = tabs, socks' = [socks EXCEPT ![c] = sock], Stored \subseteq Stored',
         Frames(sock) \subseteq Frames(socks[c]),
         Held(c) => /\ sock.at \in {"open", "closing"}
                    /\ \A m \in Elements(sock.replies) :
                         \/ m \in Elements(socks[c].replies)
                         \/ m.kind # "ACK"
                         \/ \E e \in Frames(socks[c]) : e \in Events /\ e \in Stored' /\ e.seq = m.seq
  PROVE  socks' \in [Connections -> Sockets] /\ PageInv' /\ FrameInv' /\ HeldInv'
<1>1. socks' \in [Connections -> Sockets]
  BY DEF TypeOK
<1>2. PageInv'
  BY DEF PageInv, Waiting, IsMade
<1>3. \A d \in Connections : socks'[d] = IF d = c THEN sock ELSE socks[d]
  BY DEF TypeOK
<1>4. FrameInv'
  <2> SUFFICES ASSUME NEW d \in Connections, NEW e \in Frames(socks'[d]) PROVE IsMade(e)'
    BY DEF FrameInv
  <2>1. e \in Frames(socks[d])
    BY <1>3
  <2>2. QED
    BY <2>1 DEF FrameInv, IsMade
<1>5. HeldInv'
  <2>1. \A p, q \in Pages : tabs'[p].sock = tabs'[q].sock /\ tabs'[p].sock # None => p = q
    BY DEF HeldInv
  <2>2. ASSUME NEW p \in Pages, NEW d \in Connections, tabs'[p].sock = d
        PROVE  /\ socks'[d].at \in {"open", "closing"}
               /\ \A e \in Frames(socks'[d]) : e.page = p
               /\ \A m \in Elements(socks'[d].replies) :
                    m.kind = "ACK" => [page |-> p, seq |-> m.seq] \in Stored'
    <3>1. /\ socks[d].at \in {"open", "closing"}
          /\ \A e \in Frames(socks[d]) : e.page = p
          /\ \A m \in Elements(socks[d].replies) :
               m.kind = "ACK" => [page |-> p, seq |-> m.seq] \in Stored
      BY <2>2 DEF HeldInv
    <3>2. CASE d # c
      BY <3>1, <3>2, <1>3
    <3>3. CASE d = c
      <4>1. Held(c)
        BY <2>2, <3>3 DEF Held
      <4>2. \A m \in Elements(sock.replies) :
              m.kind = "ACK" => [page |-> p, seq |-> m.seq] \in Stored'
        <5> SUFFICES ASSUME NEW m \in Elements(sock.replies), m.kind = "ACK"
                     PROVE  [page |-> p, seq |-> m.seq] \in Stored'
          OBVIOUS
        <5>1. CASE m \in Elements(socks[c].replies)
          BY <5>1, <3>1, <3>3
        <5>2. CASE \E e \in Frames(socks[c]) : e \in Events /\ e \in Stored' /\ e.seq = m.seq
          <6>1. PICK e \in Frames(socks[c]) : e \in Events /\ e \in Stored' /\ e.seq = m.seq
            BY <5>2
          <6>2. e = [page |-> p, seq |-> m.seq]
            BY <6>1, <3>1, <3>3 DEF Events
          <6>3. QED
            BY <6>1, <6>2
        <5>3. QED
          BY <5>1, <5>2, <4>1
      <4>3. QED
        BY <4>1, <4>2, <3>1, <3>3, <1>3
    <3>4. QED
      BY <3>2, <3>3
  <2>3. QED
    BY <2>1, <2>2 DEF HeldInv
<1>6. QED
  BY <1>1, <1>2, <1>4, <1>5

\* What a page does by itself, letting go of its connection included, keeps
\* every part of the invariant.
LEMMA PageKeeps ==
  ASSUME ChannelInv, NEW p \in Pages, Live(p), NEW tab \in Tabs,
         tab.at # "unborn", tab.sock \in {tabs[p].sock, None},
         tab.first = tabs[p].first, tab.next = tabs[p].next, tab.outbox = tabs[p].outbox,
         tabs' = [tabs EXCEPT ![p] = tab],
         UNCHANGED <<socks, lane, watermark, log, ended>>
  PROVE  ChannelInv'
<1>0. TypeOK /\ PageInv /\ FrameInv /\ HeldInv /\ LogInv /\ MarkInv /\ LaneInv /\ EndInv
  BY DEF ChannelInv
<1>1. TypeOK'
  BY <1>0 DEF TypeOK
<1>2. \A q \in Pages : tabs'[q] = IF q = p THEN tab ELSE tabs[q]
  BY <1>0 DEF TypeOK
<1>3. PageInv' /\ FrameInv'
  <2>1. \A q \in Pages : /\ tabs'[q].first = tabs[q].first /\ tabs'[q].next = tabs[q].next
                         /\ tabs'[q].outbox = tabs[q].outbox
    BY <1>2
  <2>2. PageInv'
    BY <1>0, <1>2, <2>1 DEF PageInv, Waiting, IsMade
  <2>3. \A c \in Connections : \A e \in Frames(socks[c]) : e \in Events
    BY <1>0, FramesTyped DEF TypeOK
  <2>4. FrameInv'
    BY <1>0, <2>1, <2>3 DEF FrameInv, IsMade, Events
  <2>5. QED
    BY <2>2, <2>4
<1>4. HeldInv'
  <2>1. \A q \in Pages : tabs'[q].sock \in {tabs[q].sock, None}
    BY <1>2
  <2>2. Stored' = Stored
    BY DEF Stored
  <2>3. \A q \in Pages, c \in Connections : tabs'[q].sock = c => tabs[q].sock = c
    BY <2>1, ChannelAssumption
  <2>4. QED
    BY <1>0, <2>1, <2>2, <2>3 DEF HeldInv
<1>5. LogInv' /\ MarkInv' /\ LaneInv'
  BY <1>0 DEF LogInv, MarkInv, LaneInv
<1>6. EndInv'
  BY <1>0, <1>2 DEF EndInv, Live
<1>7. QED
  BY <1>1, <1>3, <1>4, <1>5, <1>6 DEF ChannelInv

\* The server's work on one connection, whatever it does to the record, the
\* watermark and the lane, keeps the invariant if those keep theirs.
LEMMA ServerStep ==
  ASSUME ChannelInv, NEW c \in Connections, NEW sock \in Sockets,
         tabs' = tabs, ended' = ended, socks' = [socks EXCEPT ![c] = sock],
         log' \in Seq(Events), LogInv', Stored \subseteq Stored', Len(log) <= Len(log'),
         watermark' \subseteq -1..(Len(log') - 1),
         sock.job.at = "append" => /\ sock.job.event.seq <= sock.job.expected
                                   /\ sock.job.expected <= Len(log'),
         sock.at = "free" => sock.job = Idle,
         lane' \in Seq(Connections),
         \A i \in 1..Len(lane') : lane'[i] # c => \E k \in 1..Len(lane) : lane'[i] = lane[k],
         \A i \in 1..Len(lane') : lane'[i] = c => sock.job.at = "append",
         \A i, j \in 1..Len(lane') : lane'[i] = lane'[j] => i = j,
         Frames(sock) \subseteq Frames(socks[c]),
         Held(c) => /\ sock.at \in {"open", "closing"}
                    /\ \A m \in Elements(sock.replies) :
                         \/ m \in Elements(socks[c].replies)
                         \/ m.kind # "ACK"
                         \/ \E e \in Frames(socks[c]) : e \in Events /\ e \in Stored' /\ e.seq = m.seq
  PROVE  ChannelInv'
<1>0. TypeOK /\ PageInv /\ FrameInv /\ HeldInv /\ LogInv /\ MarkInv /\ LaneInv /\ EndInv
  BY DEF ChannelInv
<1>1. socks' \in [Connections -> Sockets] /\ PageInv' /\ FrameInv' /\ HeldInv'
  BY <1>0, ServerKeeps
<1>2. TypeOK'
  BY <1>0, <1>1 DEF TypeOK
<1>3. \A d \in Connections : socks'[d] = IF d = c THEN sock ELSE socks[d]
  BY <1>0 DEF TypeOK
<1>4. Len(log) \in Nat /\ Len(log') \in Nat
  BY <1>0 DEF TypeOK
<1>5. MarkInv'
  <2> SUFFICES ASSUME NEW d \in Connections, socks'[d].job.at = "append"
               PROVE  /\ socks'[d].job.event.seq <= socks'[d].job.expected
                      /\ socks'[d].job.expected <= Len(log')
    BY DEF MarkInv
  <2>1. CASE d = c
    BY <2>1, <1>3
  <2>2. CASE d # c
    <3>1. /\ socks[d].job.at = "append" /\ socks[d].job.event.seq <= socks[d].job.expected
          /\ socks[d].job.expected <= Len(log)
      BY <2>2, <1>0, <1>3 DEF MarkInv
    <3>2. socks[d].job \in Jobs
      BY <1>0 DEF TypeOK, Sockets
    <3>3. socks[d].job.expected \in Nat
      BY <3>1, <3>2 DEF Jobs, Idle
    <3>4. QED
      BY <2>2, <1>3, <1>4, <3>1, <3>3
  <2>3. QED
    BY <2>1, <2>2
<1>6. LaneInv'
  <2>1. ASSUME NEW i \in 1..Len(lane') PROVE socks'[lane'[i]].job.at = "append"
    <3>1. CASE lane'[i] = c
      BY <3>1, <1>3
    <3>2. CASE lane'[i] # c
      <4>1. PICK k \in 1..Len(lane) : lane'[i] = lane[k]
        BY <3>2
      <4>2. socks[lane'[i]].job.at = "append" /\ lane'[i] \in Connections
        BY <4>1, <1>0 DEF LaneInv, TypeOK
      <4>3. QED
        BY <4>2, <3>2, <1>3
    <3>3. QED
      BY <3>1, <3>2
  <2>2. QED
    BY <2>1, <1>0, <1>3 DEF LaneInv
<1>7. EndInv'
  <2> SUFFICES ASSUME NEW p \in Pages, ended' = p
               PROVE  tabs'[p].at = "gone" /\ tabs'[p].final < Len(log')
    BY DEF EndInv
  <2>1. tabs[p].at = "gone" /\ tabs[p].final < Len(log) /\ tabs[p].final \in Int
    BY <1>0 DEF EndInv, TypeOK, Tabs
  <2>2. QED
    BY <2>1, <1>4
<1>8. QED
  BY <1>1, <1>2, <1>5, <1>6, <1>7 DEF ChannelInv

-----------------------------------------------------------------------------
(* Every action keeps the invariant.                                       *)

\* No page is loaded, and nothing is on its way.
LEMMA InitChannel == Init => ChannelInv
<1> SUFFICES ASSUME Init PROVE ChannelInv
  OBVIOUS
<1>1. /\ <<>> \in Seq(Events) /\ <<>> \in Seq(Answers) /\ <<>> \in Seq(Connections)
      /\ Elements(<<>>) = {} /\ Idle \in Jobs /\ Idle.at = "idle" /\ -1 \in Int
  BY DEF Elements, Jobs, Idle
<1>2. Unborn \in Tabs /\ [Unborn EXCEPT !.at = "live"] \in Tabs /\ NoSocket \in Sockets
  BY <1>1 DEF Unborn, Tabs, NoSocket, Sockets
<1>3. TypeOK
  BY <1>1, <1>2 DEF TypeOK, Init
<1>4. \A p \in Pages : /\ tabs[p].first = 0 /\ tabs[p].next = 0 /\ tabs[p].outbox = <<>>
                       /\ tabs[p].sock = None
                       /\ tabs[p].at = "unborn" => tabs[p] = Unborn
  BY DEF Init, Unborn
<1>5. \A c \in Connections : socks[c] = NoSocket /\ Frames(socks[c]) = {}
  BY <1>1 DEF Init, NoSocket, Frames, InHand
<1>6. PageInv
  BY <1>4 DEF PageInv, Waiting
<1>7. FrameInv /\ HeldInv
  BY <1>4, <1>5, ChannelAssumption DEF FrameInv, HeldInv
<1>8. LogInv /\ MarkInv /\ LaneInv
  BY <1>1, <1>5 DEF Init, LogInv, MarkInv, LaneInv, NoSocket, Idle
<1>9. EndInv
  BY ChannelAssumption DEF Init, EndInv
<1>10. QED
  BY <1>3, <1>6, <1>7, <1>8, <1>9 DEF ChannelInv

\* A page asks for a ticket; nothing of what it keeps changes.
LEMMA KeepRequestTicket ==
  ASSUME ChannelInv, NEW p \in Pages, RequestTicket(p) PROVE ChannelInv'
<1> DEFINE tab(dial) == [tabs[p] EXCEPT !.dial = dial]
<1>1. tabs[p] \in Tabs
  BY DEF ChannelInv, TypeOK
<1>2. PICK dial \in {"ticket", "stopped"} : tabs' = [tabs EXCEPT ![p] = tab(dial)]
  BY <1>1 DEF RequestTicket
<1>3. tab(dial) \in Tabs /\ tab(dial).at = tabs[p].at /\ tab(dial).sock = tabs[p].sock
      /\ tab(dial).first = tabs[p].first /\ tab(dial).next = tabs[p].next
      /\ tab(dial).outbox = tabs[p].outbox
  BY <1>1 DEF Tabs
<1>4. QED
  BY <1>2, <1>3, PageKeeps DEF RequestTicket, Live

\* A ticket that is refused changes nothing either.
LEMMA KeepRefused ==
  ASSUME ChannelInv, NEW p \in Pages, Refused(p) PROVE ChannelInv'
<1> DEFINE tab == [tabs[p] EXCEPT !.dial = "no"]
<1>1. tabs[p] \in Tabs
  BY DEF ChannelInv, TypeOK
<1>2. tabs' = [tabs EXCEPT ![p] = tab]
  BY <1>1 DEF Refused
<1>3. tab \in Tabs /\ tab.at = tabs[p].at /\ tab.sock = tabs[p].sock
      /\ tab.first = tabs[p].first /\ tab.next = tabs[p].next /\ tab.outbox = tabs[p].outbox
  BY <1>1 DEF Tabs
<1> HIDE DEF tab
<1>4. QED
  BY <1>2, <1>3, PageKeeps DEF Refused, Live

\* A page that learns of its socket's end keeps what it has.
LEMMA KeepNoticeClose ==
  ASSUME ChannelInv, NEW p \in Pages, NoticeClose(p) PROVE ChannelInv'
<1> DEFINE tab == [tabs[p] EXCEPT !.sock = None]
<1>1. tabs[p] \in Tabs
  BY DEF ChannelInv, TypeOK
<1>2. tabs' = [tabs EXCEPT ![p] = tab]
  BY <1>1 DEF NoticeClose
<1>3. tab \in Tabs /\ tab.at = tabs[p].at /\ tab.sock = None
      /\ tab.first = tabs[p].first /\ tab.next = tabs[p].next /\ tab.outbox = tabs[p].outbox
  BY <1>1 DEF Tabs
<1> HIDE DEF tab
<1>4. QED
  BY <1>2, <1>3, PageKeeps DEF NoticeClose, Live

\* A page that asks to end marks the last it produced.
LEMMA KeepAskToEnd ==
  ASSUME ChannelInv, NEW p \in Pages, AskToEnd(p) PROVE ChannelInv'
<1> DEFINE tab == [tabs[p] EXCEPT !.end = "waiting", !.final = tabs[p].next - 1]
<1>1. tabs[p] \in Tabs
  BY DEF ChannelInv, TypeOK
<1>2. tabs' = [tabs EXCEPT ![p] = tab]
  BY <1>1 DEF AskToEnd
<1>a. tabs[p].next - 1 \in Int
  BY <1>1 DEF Tabs
<1>3. tab \in Tabs /\ tab.at = tabs[p].at /\ tab.sock = tabs[p].sock
      /\ tab.first = tabs[p].first /\ tab.next = tabs[p].next /\ tab.outbox = tabs[p].outbox
  BY <1>1, <1>a DEF Tabs
<1> HIDE DEF tab
<1>4. QED
  BY <1>2, <1>3, PageKeeps DEF AskToEnd, Live

\* One that gives up takes the mark back.
LEMMA KeepGiveUpEnding ==
  ASSUME ChannelInv, NEW p \in Pages, GiveUpEnding(p) PROVE ChannelInv'
<1> DEFINE tab == [tabs[p] EXCEPT !.end = "no", !.final = -1]
<1>1. tabs[p] \in Tabs
  BY DEF ChannelInv, TypeOK
<1>2. tabs' = [tabs EXCEPT ![p] = tab]
  BY <1>1 DEF GiveUpEnding
<1>a. -1 \in Int
  OBVIOUS
<1>3. tab \in Tabs /\ tab.at = tabs[p].at /\ tab.sock = tabs[p].sock
      /\ tab.first = tabs[p].first /\ tab.next = tabs[p].next /\ tab.outbox = tabs[p].outbox
  BY <1>1, <1>a DEF Tabs
<1> HIDE DEF tab
<1>4. QED
  BY <1>2, <1>3, PageKeeps DEF GiveUpEnding, Live

\* A page that was just loaded has numbered nothing, and those it replaces are gone.
LEMMA KeepLoad ==
  ASSUME ChannelInv, NEW p \in Pages, Load(p) PROVE ChannelInv'
<1>0. TypeOK /\ PageInv /\ FrameInv /\ HeldInv /\ LogInv /\ MarkInv /\ LaneInv /\ EndInv
  BY DEF ChannelInv
<1>a. Latest + 1 \in Nat
  <2>1. Latest = Len(log) - 1 /\ Len(log) \in Nat
    BY <1>0, LatestIsLength DEF TypeOK
  <2>2. QED
    BY <2>1
<1>b. PICK failed \in BOOLEAN, closed \in SUBSET {q \in Pages : Live(q)} :
        tabs' = [q \in Pages |->
                   CASE q = p -> [Unborn EXCEPT
                          !.at = "live", !.first = IF failed THEN 0 ELSE Latest + 1,
                          !.next = IF failed THEN 0 ELSE Latest + 1]
                     [] q \in closed -> Gone(tabs[q])
                     [] OTHER -> tabs[q]]
  BY DEF Load
<1>1. PICK start : start = IF failed THEN 0 ELSE Latest + 1
  OBVIOUS
<1>c. start \in Nat
  BY <1>a, <1>1
<1>2. tabs[p] = Unborn /\ tabs[p].at = "unborn"
  BY <1>0 DEF PageInv, Load
<1> DEFINE tab == [Unborn EXCEPT !.at = "live", !.first = start, !.next = start]
<1>3. /\ tab \in Tabs /\ tab.at = "live" /\ tab.first = start /\ tab.next = start
      /\ tab.outbox = <<>> /\ tab.sock = None
  <2>1. <<>> \in Seq(Events) /\ -1 \in Int
    OBVIOUS
  <2>2. QED
    BY <2>1, <1>c DEF Unborn, Tabs
<1>4. \A q \in Pages : tabs'[q] = IF q = p THEN tab
                                  ELSE IF q \in closed THEN Gone(tabs[q]) ELSE tabs[q]
  <2>1. p \notin closed
    BY <1>2 DEF Live
  <2>2. QED
    BY <1>b, <1>1, <2>1
<1> HIDE DEF tab
<1>5. ASSUME NEW q \in Pages, q # p
      PROVE  /\ tabs'[q] \in Tabs
             /\ tabs'[q].first = tabs[q].first /\ tabs'[q].next = tabs[q].next
             /\ tabs'[q].outbox = tabs[q].outbox /\ tabs'[q].final = tabs[q].final
             /\ tabs'[q].sock \in {tabs[q].sock, None}
             /\ tabs'[q].at = "unborn" => tabs'[q] = tabs[q]
             /\ tabs[q].at = "gone" => tabs'[q].at = "gone"
  <2>1. tabs[q] \in Tabs
    BY <1>0 DEF TypeOK
  <2>2. /\ Gone(tabs[q]) \in Tabs /\ Gone(tabs[q]).at = "gone"
        /\ Gone(tabs[q]).first = tabs[q].first /\ Gone(tabs[q]).next = tabs[q].next
        /\ Gone(tabs[q]).outbox = tabs[q].outbox /\ Gone(tabs[q]).final = tabs[q].final
        /\ Gone(tabs[q]).sock = None
    BY <2>1 DEF Gone, Tabs
  <2>3. QED
    BY <1>4, <1>5, <2>1, <2>2
<1>6. TypeOK'
  <2>1. tabs' \in [Pages -> Tabs]
    <3>1. \A q \in Pages : tabs'[q] \in Tabs
      BY <1>3, <1>4, <1>5
    <3>2. tabs' = [q \in Pages |-> tabs'[q]]
      BY <1>b
    <3>3. QED
      BY <3>1, <3>2
  <2>2. QED
    BY <1>0, <2>1 DEF TypeOK, Load
<1>7. PageInv'
  <2> SUFFICES ASSUME NEW q \in Pages
               PROVE  /\ tabs'[q].at = "unborn" => tabs'[q] = Unborn
                      /\ tabs'[q].first <= tabs'[q].next
                      /\ \A e \in Waiting(q)' : e.page = q /\ IsMade(e)'
    BY DEF PageInv
  <2>1. CASE q = p
    BY <2>1, <1>c, <1>3, <1>4 DEF Waiting
  <2>2. CASE q # p
    <3>1. Waiting(q)' = Waiting(q)
      BY <2>2, <1>5 DEF Waiting
    <3>2. QED
      BY <3>1, <2>2, <1>0, <1>5 DEF PageInv, IsMade
  <2>3. QED
    BY <2>1, <2>2
<1>8. FrameInv'
  <2> SUFFICES ASSUME NEW c \in Connections, NEW e \in Frames(socks[c]) PROVE IsMade(e)'
    BY DEF FrameInv, Load
  <2>a. e \in Events
    <3>1. socks[c] \in Sockets
      BY <1>0 DEF TypeOK
    <3>2. QED
      BY <3>1, FramesTyped
  <2>1. e \in Events /\ IsMade(e)
    BY <1>0, <2>a DEF FrameInv
  <2>2. e.page # p
    BY <2>1, <1>2 DEF IsMade, Unborn
  <2>3. QED
    BY <2>1, <2>2, <1>5 DEF IsMade, Events
<1>9. HeldInv'
  <2>1. \A q \in Pages : tabs'[q].sock \in {tabs[q].sock, None}
    BY <1>3, <1>4, <1>5
  <2>2. Stored' = Stored /\ socks' = socks
    BY DEF Stored, Load
  <2>3. \A q \in Pages, c \in Connections : tabs'[q].sock = c => tabs[q].sock = c
    BY <2>1, ChannelAssumption
  <2>4. QED
    BY <1>0, <2>1, <2>2, <2>3 DEF HeldInv
<1>10. LogInv' /\ MarkInv' /\ LaneInv'
  BY <1>0 DEF LogInv, MarkInv, LaneInv, Load
<1>11. EndInv'
  BY ChannelAssumption DEF EndInv, Load
<1>12. QED
  BY <1>6, <1>7, <1>8, <1>9, <1>10, <1>11 DEF ChannelInv

\* An input is numbered, kept in the outbox and sent.
LEMMA KeepProduce ==
  ASSUME ChannelInv, NEW p \in Pages, Produce(p) PROVE ChannelInv'
<1>0. TypeOK /\ PageInv /\ FrameInv /\ HeldInv /\ LogInv /\ MarkInv /\ LaneInv /\ EndInv
  BY DEF ChannelInv
<1>e. PICK e : e = [page |-> p, seq |-> tabs[p].next]
  OBVIOUS
<1> DEFINE tab == [tabs[p] EXCEPT !.next = @ + 1, !.outbox = Append(@, e)]
<1>1. tabs[p] \in Tabs /\ e \in Events /\ e.page = p /\ e.seq = tabs[p].next
  BY <1>0, <1>e DEF TypeOK, Tabs, Events
<1>2. tabs' = [tabs EXCEPT ![p] = tab] /\ socks' = Send(tabs[p].sock, <<e>>)
  BY <1>0, <1>e DEF Produce, TypeOK
<1>3. /\ tab \in Tabs /\ tab.at = "live" /\ tab.first = tabs[p].first
      /\ tab.next = tabs[p].next + 1 /\ tab.sock = tabs[p].sock
      /\ Elements(tab.outbox) = Elements(tabs[p].outbox) \cup {e}
  <2>1. /\ Append(tabs[p].outbox, e) \in Seq(Events)
        /\ Elements(Append(tabs[p].outbox, e)) = Elements(tabs[p].outbox) \cup {e}
    BY <1>1, AppendElements DEF Tabs
  <2>2. tabs[p].next + 1 \in Nat
    BY <1>1 DEF Tabs
  <2>3. QED
    BY <1>1, <2>1, <2>2 DEF Tabs, Produce, Live
<1> HIDE DEF tab
<1>4. \A q \in Pages : tabs'[q] = IF q = p THEN tab ELSE tabs[q]
  BY <1>0, <1>2 DEF TypeOK
<1>5. \A d \in Events : IsMade(d) => IsMade(d)'
  <2> SUFFICES ASSUME NEW d \in Events, IsMade(d) PROVE IsMade(d)'
    OBVIOUS
  <2>1. d.page \in Pages /\ d.seq \in Nat /\ tabs[d.page].next \in Nat /\ tabs[d.page].first \in Nat
    BY <1>0 DEF TypeOK, Tabs, Events
  <2>2. tabs'[d.page].first = tabs[d.page].first
    BY <2>1, <1>3, <1>4
  <2>3. tabs'[d.page].next \in {tabs[d.page].next, tabs[d.page].next + 1}
    BY <2>1, <1>3, <1>4
  <2>4. QED
    BY <2>1, <2>2, <2>3 DEF IsMade
<1>6. IsMade(e)'
  <2>1. tabs[p].first <= tabs[p].next /\ tabs[p].first \in Nat /\ tabs[p].next \in Nat
    BY <1>0, <1>1 DEF PageInv, Tabs
  <2>2. QED
    BY <2>1, <1>1, <1>3, <1>4 DEF IsMade
<1>7. PageInv'
  <2> SUFFICES ASSUME NEW q \in Pages
               PROVE  /\ tabs'[q].at = "unborn" => tabs'[q] = Unborn
                      /\ tabs'[q].first <= tabs'[q].next
                      /\ \A d \in Waiting(q)' : d.page = q /\ IsMade(d)'
    BY DEF PageInv
  <2>0. /\ tabs[q].first \in Nat /\ tabs[q].next \in Nat /\ tabs[q].first <= tabs[q].next
        /\ \A d \in Waiting(q) : d \in Events /\ d.page = q /\ IsMade(d)
    BY <1>0 DEF PageInv, TypeOK, Tabs, Waiting
  <2>1. CASE q = p
    <3>1. Waiting(q)' = Waiting(q) \cup {e}
      BY <2>1, <1>3, <1>4 DEF Waiting, Elements
    <3>2. QED
      BY <3>1, <2>0, <2>1, <1>1, <1>3, <1>4, <1>5, <1>6
  <2>2. CASE q # p
    <3>1. Waiting(q)' = Waiting(q) /\ tabs'[q] = tabs[q]
      BY <2>2, <1>4 DEF Waiting
    <3>2. QED
      BY <3>1, <2>0, <1>5, <1>0 DEF PageInv
  <2>3. QED
    BY <2>1, <2>2
<1>8. CASE tabs[p].sock = None
  <2>1. socks' = socks
    BY <1>2, <1>8 DEF Send
  <2>2. \A q \in Pages : tabs'[q].sock = tabs[q].sock
    BY <1>3, <1>4
  <2>3. TypeOK'
    BY <1>0, <1>2, <1>3, <2>1 DEF TypeOK, Produce
  <2>4. FrameInv'
    BY <1>0, <1>5, <2>1, FramesTyped DEF FrameInv, TypeOK
  <2>a. Stored' = Stored
    BY DEF Stored, Produce
  <2>5. HeldInv'
    BY <1>0, <2>1, <2>2, <2>a DEF HeldInv
  <2>6. LogInv' /\ MarkInv' /\ LaneInv'
    BY <1>0, <2>1 DEF LogInv, MarkInv, LaneInv, Produce
  <2>7. EndInv'
    BY <1>0, <1>4 DEF EndInv, Produce, Live
  <2>8. QED
    BY <1>7, <2>3, <2>4, <2>5, <2>6, <2>7 DEF ChannelInv
<1>9. CASE tabs[p].sock # None
  <2>c. PICK c : c = tabs[p].sock
    OBVIOUS
  <2> DEFINE sock == [socks[c] EXCEPT !.wire = @ \o <<e>>]
  <2>1. c \in Connections /\ socks[c] \in Sockets
    BY <1>0, <1>1, <1>9, <2>c DEF TypeOK, Tabs
  <2>2. socks' = [socks EXCEPT ![c] = sock]
    BY <1>0, <1>2, <1>9, <2>1, <2>c DEF Send, TypeOK
  <2>3. /\ sock \in Sockets /\ sock.job = socks[c].job /\ sock.at = socks[c].at
        /\ sock.replies = socks[c].replies
        /\ Frames(sock) \subseteq Frames(socks[c]) \cup {e}
    <3>1. socks[c].wire \in Seq(Events) /\ <<e>> \in Seq(Events) /\ Elements(<<e>>) = {e}
      BY <1>1, <2>1 DEF Sockets, Elements
    <3>2. /\ socks[c].wire \o <<e>> \in Seq(Events)
          /\ Elements(socks[c].wire \o <<e>>) \subseteq
               Elements(socks[c].wire) \cup Elements(<<e>>)
      BY <3>1, ConcatElements
    <3>3. QED
      BY <2>1, <3>1, <3>2 DEF Sockets, Frames
  <2> HIDE DEF sock
  <2>4. \A d \in Connections : socks'[d] = IF d = c THEN sock ELSE socks[d]
    BY <1>0, <2>2 DEF TypeOK
  <2>5. \A q \in Pages : tabs'[q].sock = tabs[q].sock
    BY <1>3, <1>4
  <2>6. TypeOK'
    BY <1>0, <1>2, <1>3, <2>2, <2>3 DEF TypeOK, Produce
  <2>7. FrameInv'
    <3> SUFFICES ASSUME NEW d \in Connections, NEW f \in Frames(socks'[d]) PROVE IsMade(f)'
      BY DEF FrameInv
    <3>1. f \in Frames(socks[d]) \/ f = e
      BY <2>3, <2>4
    <3>2. CASE f \in Frames(socks[d])
      <4>1. f \in Events /\ IsMade(f)
        BY <3>2, <1>0, FramesTyped DEF FrameInv, TypeOK
      <4>2. QED
        BY <4>1, <1>5
    <3>3. QED
      BY <3>1, <3>2, <1>6
  <2>8. HeldInv'
    <3>1. \A q, r \in Pages : tabs'[q].sock = tabs'[r].sock /\ tabs'[q].sock # None => q = r
      BY <1>0, <2>5 DEF HeldInv
    <3>2. Stored' = Stored
      BY DEF Stored, Produce
    <3>3. ASSUME NEW q \in Pages, NEW d \in Connections, tabs'[q].sock = d
          PROVE  /\ socks'[d].at \in {"open", "closing"}
                 /\ \A f \in Frames(socks'[d]) : f.page = q
                 /\ \A m \in Elements(socks'[d].replies) :
                      m.kind = "ACK" => [page |-> q, seq |-> m.seq] \in Stored'
      <4>1. /\ socks[d].at \in {"open", "closing"}
            /\ \A f \in Frames(socks[d]) : f.page = q
            /\ \A m \in Elements(socks[d].replies) :
                 m.kind = "ACK" => [page |-> q, seq |-> m.seq] \in Stored
        BY <3>3, <2>5, <1>0 DEF HeldInv
      <4>2. d = c => q = p
        BY <3>3, <2>5, <2>c, <1>9, <1>0 DEF HeldInv
      <4>3. QED
        BY <4>1, <4>2, <3>2, <2>3, <2>4, <1>1
    <3>4. QED
      BY <3>1, <3>3 DEF HeldInv
  <2>9. LogInv' /\ MarkInv' /\ LaneInv'
    <3>1. \A d \in Connections : socks'[d].job = socks[d].job /\ socks'[d].at = socks[d].at
      BY <2>3, <2>4
    <3>2. \A i \in 1..Len(lane) : lane[i] \in Connections
      BY <1>0 DEF TypeOK
    <3>3. QED
      BY <1>0, <3>1, <3>2 DEF LogInv, MarkInv, LaneInv, Produce
  <2>10. EndInv'
    BY <1>0, <1>4 DEF EndInv, Produce, Live
  <2>11. QED
    BY <1>7, <2>6, <2>7, <2>8, <2>9, <2>10 DEF ChannelInv
<1>10. QED
  BY <1>8, <1>9

\* The page's new connection is sent what waits in the outbox.
LEMMA KeepRedeem ==
  ASSUME ChannelInv, NEW p \in Pages, Redeem(p) PROVE ChannelInv'
<1>0. TypeOK /\ PageInv /\ FrameInv /\ HeldInv /\ LogInv /\ MarkInv /\ LaneInv /\ EndInv
  BY DEF ChannelInv
<1>1. PICK c \in NextFree :
        /\ tabs' = [tabs EXCEPT ![p].dial = "no", ![p].sock = c]
        /\ socks' = [socks EXCEPT ![c] = [NoSocket EXCEPT !.at = "open",
                                                         !.wire = Unacked(p, 0)]]
  BY DEF Redeem
<1>2. c \in Connections /\ socks[c].at = "free" /\ c # None
  <2>1. {d \in Connections : socks[d].at = "free"} # {}
    BY <1>1 DEF NextFree
  <2>2. c = CHOOSE d \in {d \in Connections : socks[d].at = "free"} : TRUE
    BY <1>1, <2>1 DEF NextFree
  <2>3. c \in {d \in Connections : socks[d].at = "free"}
    BY <2>1, <2>2
  <2>4. QED
    BY <2>3, ChannelAssumption
<1> DEFINE tab  == [tabs[p] EXCEPT !.dial = "no", !.sock = c]
           sock == [NoSocket EXCEPT !.at = "open", !.wire = Unacked(p, 0)]
<1>3. /\ tabs[p] \in Tabs /\ tab \in Tabs /\ tab.at = "live" /\ tab.sock = c
      /\ tab.first = tabs[p].first /\ tab.next = tabs[p].next /\ tab.outbox = tabs[p].outbox
  BY ZenonT(30), <1>0, <1>2 DEF TypeOK, Tabs, Redeem, Live
<1>4. /\ sock \in Sockets /\ sock.at = "open" /\ sock.job = Idle
      /\ Elements(sock.replies) = {}
      /\ Frames(sock) \subseteq Waiting(p)
  <2>1. /\ Unacked(p, 0) \in Seq(Events) /\ Elements(Unacked(p, 0)) \subseteq Waiting(p)
    BY <1>3, UnackedBox DEF Tabs
  <2>2. <<>> \in Seq(Events) /\ <<>> \in Seq(Answers) /\ Elements(<<>>) = {} /\ Idle \in Jobs
    BY DEF Elements, Jobs
  <2>c. NoSocket \in Sockets
    BY <2>2 DEF NoSocket, Sockets
  <2>3. /\ sock.at = "open" /\ sock.wire = Unacked(p, 0) /\ sock.inbox = <<>>
        /\ sock.replies = <<>> /\ sock.job = Idle
    BY DEF NoSocket
  <2>b. sock \in Sockets
    BY <2>1, <2>c DEF Sockets
  <2> HIDE DEF sock
  <2>4. InHand(Idle) = {}
    BY DEF InHand, Idle
  <2>a. Frames(sock) = Elements(Unacked(p, 0))
    BY <2>2, <2>3, <2>4 DEF Frames
  <2>5. QED
    BY <2>1, <2>2, <2>3, <2>a, <2>b
<1>5. tabs' = [tabs EXCEPT ![p] = tab] /\ socks' = [socks EXCEPT ![c] = sock]
  BY <1>0, <1>1 DEF TypeOK
<1> HIDE DEF tab, sock
<1>6. /\ \A q \in Pages : tabs'[q] = IF q = p THEN tab ELSE tabs[q]
      /\ \A d \in Connections : socks'[d] = IF d = c THEN sock ELSE socks[d]
  BY <1>0, <1>5 DEF TypeOK
<1>7. TypeOK'
  BY <1>0, <1>3, <1>4, <1>5 DEF TypeOK, Redeem
<1>8. \A q \in Pages : /\ tabs'[q].first = tabs[q].first /\ tabs'[q].next = tabs[q].next
                       /\ tabs'[q].outbox = tabs[q].outbox
  BY <1>3, <1>6
<1>9. PageInv'
  BY <1>0, <1>3, <1>6, <1>8 DEF PageInv, Waiting, IsMade
<1>10. \A d \in Events : IsMade(d) => IsMade(d)'
  BY <1>8 DEF IsMade, Events
<1>11. \A f \in Waiting(p) : f \in Events /\ f.page = p /\ IsMade(f)
  BY <1>0, <1>3 DEF PageInv, Waiting, Tabs
<1>12. FrameInv'
  <2> SUFFICES ASSUME NEW d \in Connections, NEW f \in Frames(socks'[d]) PROVE IsMade(f)'
    BY DEF FrameInv
  <2>1. f \in Events /\ IsMade(f)
    <3>1. CASE d = c
      BY <3>1, <1>4, <1>6, <1>11
    <3>2. CASE d # c
      <4>1. f \in Frames(socks[d]) /\ socks[d] \in Sockets
        BY <3>2, <1>0, <1>6 DEF TypeOK
      <4>2. QED
        BY <4>1, <1>0, FramesTyped DEF FrameInv
    <3>3. QED
      BY <3>1, <3>2
  <2>2. QED
    BY <2>1, <1>10
<1>13. HeldInv'
  <2>1. \A q \in Pages : tabs[q].sock # c
    BY <1>0, <1>2 DEF HeldInv
  <2>2. \A q, r \in Pages : tabs'[q].sock = tabs'[r].sock /\ tabs'[q].sock # None => q = r
    BY <2>1, <1>0, <1>3, <1>6 DEF HeldInv
  <2>3. Stored' = Stored
    BY DEF Stored, Redeem
  <2>4. ASSUME NEW q \in Pages, NEW d \in Connections, tabs'[q].sock = d
        PROVE  /\ socks'[d].at \in {"open", "closing"}
               /\ \A f \in Frames(socks'[d]) : f.page = q
               /\ \A m \in Elements(socks'[d].replies) :
                    m.kind = "ACK" => [page |-> q, seq |-> m.seq] \in Stored'
    <3>1. CASE q = p
      BY <3>1, <2>4, <1>3, <1>4, <1>6, <1>11
    <3>2. CASE q # p
      <4>1. tabs[q].sock = d /\ d # c
        BY <3>2, <2>1, <2>4, <1>6
      <4>2. QED
        BY <4>1, <2>3, <1>0, <1>6 DEF HeldInv
    <3>3. QED
      BY <3>1, <3>2
  <2>5. QED
    BY <2>2, <2>4 DEF HeldInv
<1>14. LogInv' /\ MarkInv' /\ LaneInv'
  <2>1. socks'[c].job.at # "append" /\ socks[c].job.at # "append"
    BY <1>0, <1>2, <1>4, <1>6 DEF Idle, LaneInv
  <2>2. MarkInv'
    BY <1>0, <1>6, <2>1 DEF MarkInv, Redeem
  <2>3. \A i \in 1..Len(lane) : lane[i] \in Connections /\ lane[i] # c
    BY <1>0, <2>1 DEF TypeOK, LaneInv
  <2>4. LaneInv'
    BY <1>0, <1>4, <1>6, <2>3 DEF LaneInv, Redeem
  <2>5. QED
    BY <1>0, <2>2, <2>4 DEF LogInv, Redeem
<1>15. EndInv'
  BY <1>0, <1>6 DEF EndInv, Redeem, Live
<1>16. QED
  BY <1>7, <1>9, <1>12, <1>13, <1>14, <1>15 DEF ChannelInv

\* What a page does with its own connection, sending again what waits in its
\* outbox included, keeps the invariant.
LEMMA PageTalks ==
  ASSUME ChannelInv, NEW p \in Pages, Live(p), NEW c \in Connections, tabs[p].sock = c,
         NEW tab \in Tabs, tab.at # "unborn", tab.sock \in {tabs[p].sock, None},
         tab.first = tabs[p].first, tab.next = tabs[p].next,
         Elements(tab.outbox) \subseteq Waiting(p),
         NEW sock \in Sockets, sock.at = socks[c].at, sock.job = socks[c].job,
         Elements(sock.replies) \subseteq Elements(socks[c].replies),
         Frames(sock) \subseteq Frames(socks[c]) \cup Waiting(p),
         tabs' = [tabs EXCEPT ![p] = tab], socks' = [socks EXCEPT ![c] = sock],
         UNCHANGED <<lane, watermark, log, ended>>
  PROVE  ChannelInv'
<1>0. TypeOK /\ PageInv /\ FrameInv /\ HeldInv /\ LogInv /\ MarkInv /\ LaneInv /\ EndInv
  BY DEF ChannelInv
<1>1. /\ \A q \in Pages : tabs'[q] = IF q = p THEN tab ELSE tabs[q]
      /\ \A d \in Connections : socks'[d] = IF d = c THEN sock ELSE socks[d]
  BY <1>0 DEF TypeOK
<1>2. TypeOK'
  BY <1>0 DEF TypeOK
<1>3. \A d \in Events : IsMade(d) => IsMade(d)'
  <2>1. \A q \in Pages : tabs'[q].first = tabs[q].first /\ tabs'[q].next = tabs[q].next
    BY <1>1
  <2>2. QED
    BY <2>1 DEF IsMade, Events
<1>4. \A q \in Pages : \A f \in Waiting(q) : f \in Events /\ f.page = q /\ IsMade(f)
  BY <1>0 DEF PageInv, Waiting, TypeOK, Tabs
<1>5. PageInv'
  <2> SUFFICES ASSUME NEW q \in Pages
               PROVE  /\ tabs'[q].at = "unborn" => tabs'[q] = Unborn
                      /\ tabs'[q].first <= tabs'[q].next
                      /\ \A d \in Waiting(q)' : d.page = q /\ IsMade(d)'
    BY DEF PageInv
  <2>1. Waiting(q)' \subseteq Waiting(q)
    BY <1>1 DEF Waiting, Elements
  <2>2. \A d \in Waiting(q)' : d.page = q /\ IsMade(d)'
    BY <2>1, <1>3, <1>4
  <2>3. QED
    BY <2>2, <1>0, <1>1 DEF PageInv
<1>6. FrameInv'
  <2> SUFFICES ASSUME NEW d \in Connections, NEW f \in Frames(socks'[d]) PROVE IsMade(f)'
    BY DEF FrameInv
  <2>1. f \in Frames(socks[d]) \/ f \in Waiting(p)
    BY <1>1
  <2>2. CASE f \in Frames(socks[d])
    <3>1. socks[d] \in Sockets
      BY <1>0 DEF TypeOK
    <3>2. f \in Events /\ IsMade(f)
      BY <2>2, <3>1, <1>0, FramesTyped DEF FrameInv
    <3>3. QED
      BY <3>2, <1>3
  <2>3. QED
    BY <2>1, <2>2, <1>3, <1>4
<1>7. HeldInv'
  <2>1. \A q \in Pages : tabs'[q].sock \in {tabs[q].sock, None}
    BY <1>1
  <2>2. Stored' = Stored
    BY DEF Stored
  <2>3. \A q \in Pages, d \in Connections : tabs'[q].sock = d => tabs[q].sock = d
    BY <2>1, ChannelAssumption
  <2>4. \A q, r \in Pages : tabs'[q].sock = tabs'[r].sock /\ tabs'[q].sock # None => q = r
    BY <1>0, <2>1 DEF HeldInv
  <2>5. ASSUME NEW q \in Pages, NEW d \in Connections, tabs'[q].sock = d
        PROVE  /\ socks'[d].at \in {"open", "closing"}
               /\ \A f \in Frames(socks'[d]) : f.page = q
               /\ \A m \in Elements(socks'[d].replies) :
                    m.kind = "ACK" => [page |-> q, seq |-> m.seq] \in Stored'
    <3>1. /\ socks[d].at \in {"open", "closing"}
          /\ \A f \in Frames(socks[d]) : f.page = q
          /\ \A m \in Elements(socks[d].replies) :
               m.kind = "ACK" => [page |-> q, seq |-> m.seq] \in Stored
      BY <2>3, <2>5, <1>0 DEF HeldInv
    <3>2. CASE d # c
      BY <3>1, <3>2, <2>2, <1>1
    <3>3. CASE d = c
      <4>1. q = p
        <5>1. tabs[q].sock = tabs[p].sock /\ tabs[q].sock # None
          BY <3>3, <2>3, <2>5, ChannelAssumption
        <5>2. QED
          BY <5>1, <1>0 DEF HeldInv
      <4>2. QED
        BY <4>1, <3>1, <3>3, <2>2, <1>1, <1>4
    <3>4. QED
      BY <3>2, <3>3
  <2>6. QED
    BY <2>4, <2>5 DEF HeldInv
<1>8. LogInv' /\ MarkInv' /\ LaneInv'
  <2>1. \A d \in Connections : socks'[d].job = socks[d].job /\ socks'[d].at = socks[d].at
    BY <1>1
  <2>2. \A i \in 1..Len(lane) : lane[i] \in Connections
    BY <1>0 DEF TypeOK
  <2>3. QED
    BY <1>0, <2>1, <2>2 DEF LogInv, MarkInv, LaneInv
<1>9. EndInv'
  BY <1>0, <1>1 DEF EndInv, Live
<1>10. QED
  BY <1>2, <1>5, <1>6, <1>7, <1>8, <1>9 DEF ChannelInv

\* An answer settles only what the log holds, or what was refused.
LEMMA KeepReceive ==
  ASSUME ChannelInv, NEW p \in Pages, Receive(p) PROVE ChannelInv'
<1>0. TypeOK /\ PageInv
  BY DEF ChannelInv
<1>c. PICK c : c = tabs[p].sock
  OBVIOUS
<1>1. /\ tabs[p] \in Tabs /\ c \in Connections /\ socks[c] \in Sockets
      /\ socks[c].replies # <<>> /\ Live(p) /\ tabs[p].outbox \in Seq(Events)
      /\ UNCHANGED <<lane, watermark, log, ended>>
  BY <1>0, <1>c DEF Receive, TypeOK, Tabs
<1>m. PICK m : m = Head(socks[c].replies)
  OBVIOUS
<1>2. /\ m \in Answers /\ Tail(socks[c].replies) \in Seq(Answers)
      /\ Elements(Tail(socks[c].replies)) \subseteq Elements(socks[c].replies)
  BY <1>1, <1>m, TailElements DEF Sockets
<1>3. m.kind = "ACK" => m.seq \in Nat
  BY <1>2 DEF Answers, SaysEnded, Internal
<1> DEFINE rest == [socks[c] EXCEPT !.replies = Tail(@)]
<1>4. /\ rest \in Sockets /\ rest.at = socks[c].at /\ rest.job = socks[c].job
      /\ rest.wire = socks[c].wire
      /\ Elements(rest.replies) \subseteq Elements(socks[c].replies)
      /\ Frames(rest) = Frames(socks[c])
  BY <1>1, <1>2 DEF Sockets, Frames
<1>5. Elements(tabs[p].outbox) = Waiting(p)
  BY DEF Elements, Waiting
<1>6. CASE m.kind = "ACK"
  <2> DEFINE tab == [tabs[p] EXCEPT !.acked  = IF m.seq > @ THEN m.seq ELSE @,
                                    !.outbox = Settled(@, m.seq)]
  <2>1. tabs' = [tabs EXCEPT ![p] = tab] /\ socks' = [socks EXCEPT ![c] = rest]
    BY <1>0, <1>1, <1>6, <1>c, <1>m DEF Receive, TypeOK
  <2>2. /\ Settled(tabs[p].outbox, m.seq) \in Seq(Events)
        /\ Elements(Settled(tabs[p].outbox, m.seq)) \subseteq Waiting(p)
    BY <1>1, <1>5, SettledBox
  <2>3. (IF m.seq > tabs[p].acked THEN m.seq ELSE tabs[p].acked) \in Int
    BY <1>1, <1>3, <1>6 DEF Tabs
  <2>4. /\ tab \in Tabs /\ tab.at = tabs[p].at /\ tab.sock = tabs[p].sock
        /\ tab.first = tabs[p].first /\ tab.next = tabs[p].next
        /\ Elements(tab.outbox) \subseteq Waiting(p)
    BY <1>1, <2>2, <2>3 DEF Tabs
  <2> HIDE DEF tab, rest
  <2>5. QED
    BY <1>1, <1>4, <1>c, <2>1, <2>4, PageTalks DEF Live
<1>7. CASE m.kind = "REPLAY_FROM"
  <2> DEFINE sock == [rest EXCEPT !.wire = @ \o Unacked(p, m.seq)]
  <2>1. tabs' = [tabs EXCEPT ![p] = tabs[p]] /\ socks' = [socks EXCEPT ![c] = sock]
    BY <1>0, <1>1, <1>7, <1>c, <1>m DEF Receive, TypeOK
  <2>2. Unacked(p, m.seq) \in Seq(Events) /\ Elements(Unacked(p, m.seq)) \subseteq Waiting(p)
    BY <1>1, UnackedBox
  <2>3. socks[c].wire \in Seq(Events)
    BY <1>1 DEF Sockets
  <2>4. /\ socks[c].wire \o Unacked(p, m.seq) \in Seq(Events)
        /\ Elements(socks[c].wire \o Unacked(p, m.seq)) \subseteq
             Elements(socks[c].wire) \cup Elements(Unacked(p, m.seq))
    BY <2>2, <2>3, ConcatElements
  <2> HIDE DEF rest
  <2>5. /\ sock \in Sockets /\ sock.at = rest.at /\ sock.job = rest.job
        /\ sock.replies = rest.replies /\ sock.inbox = rest.inbox
        /\ sock.wire = socks[c].wire \o Unacked(p, m.seq)
    BY <1>4, <2>4 DEF Sockets
  <2>6. Frames(sock) \subseteq Frames(socks[c]) \cup Waiting(p)
    BY <1>4, <2>2, <2>4, <2>5 DEF Frames
  <2> HIDE DEF sock
  <2>7. QED
    BY <1>1, <1>4, <1>5, <1>c, <2>1, <2>5, <2>6, PageTalks DEF Live
<1>8. CASE m.kind = "SESSION_ENDED"
  <2> DEFINE tab == Gone(tabs[p])
  <2>1. tabs' = [tabs EXCEPT ![p] = tab] /\ socks' = [socks EXCEPT ![c] = rest]
    BY <1>0, <1>1, <1>8, <1>c, <1>m DEF Receive, TypeOK
  <2>2. /\ tab \in Tabs /\ tab.at = "gone" /\ tab.sock = None
        /\ tab.first = tabs[p].first /\ tab.next = tabs[p].next
        /\ tab.outbox = tabs[p].outbox
    BY <1>1 DEF Tabs, Gone
  <2> HIDE DEF tab, rest
  <2>3. QED
    BY ZenonT(30), <1>1, <1>4, <1>5, <1>c, <2>1, <2>2, PageTalks
<1>9. CASE m.kind \notin {"ACK", "REPLAY_FROM", "SESSION_ENDED"}
  <2>1. tabs' = [tabs EXCEPT ![p] = tabs[p]] /\ socks' = [socks EXCEPT ![c] = rest]
    BY <1>0, <1>1, <1>9, <1>c, <1>m DEF Receive, TypeOK
  <2> HIDE DEF rest
  <2>2. QED
    BY <1>1, <1>4, <1>5, <1>c, <2>1, PageTalks DEF Live
<1>10. QED
  BY <1>6, <1>7, <1>8, <1>9

\* A socket is lost with whatever was on its wire.
LEMMA KeepDrop ==
  ASSUME ChannelInv, NEW p \in Pages, Drop(p) PROVE ChannelInv'
<1>0. TypeOK
  BY DEF ChannelInv
<1>c. PICK c : c = tabs[p].sock
  OBVIOUS
<1>1. /\ tabs[p] \in Tabs /\ c \in Connections /\ socks[c] \in Sockets /\ Live(p)
      /\ UNCHANGED <<lane, watermark, log, ended>>
  BY <1>0, <1>c DEF Drop, TypeOK, Tabs
<1>2. PICK arrived \in 0..Len(socks[c].wire) :
        socks' = [socks EXCEPT ![c].wire = SubSeq(@, 1, arrived), ![c].replies = <<>>]
  BY <1>c DEF Drop
<1> DEFINE tab  == [tabs[p] EXCEPT !.sock = None]
           sock == [socks[c] EXCEPT !.wire = SubSeq(@, 1, arrived), !.replies = <<>>]
<1>3. tabs' = [tabs EXCEPT ![p] = tab] /\ socks' = [socks EXCEPT ![c] = sock]
  BY <1>0, <1>1, <1>2 DEF Drop, TypeOK
<1>4. /\ tab \in Tabs /\ tab.at = tabs[p].at /\ tab.sock = None
      /\ tab.first = tabs[p].first /\ tab.next = tabs[p].next /\ tab.outbox = tabs[p].outbox
  BY <1>1 DEF Tabs
<1>5. socks[c].wire \in Seq(Events) /\ 1 \in 1..(Len(socks[c].wire) + 1)
  BY <1>1 DEF Sockets
<1>6. /\ SubSeq(socks[c].wire, 1, arrived) \in Seq(Events)
      /\ Elements(SubSeq(socks[c].wire, 1, arrived)) \subseteq Elements(socks[c].wire)
  BY <1>5, SubSeqElements
<1>7. <<>> \in Seq(Answers) /\ Elements(<<>>) = {}
  BY DEF Elements
<1>8. /\ sock \in Sockets /\ sock.at = socks[c].at /\ sock.job = socks[c].job
      /\ Elements(sock.replies) \subseteq Elements(socks[c].replies)
      /\ Frames(sock) \subseteq Frames(socks[c])
  BY <1>1, <1>6, <1>7 DEF Sockets, Frames
<1>9. Elements(tabs[p].outbox) = Waiting(p)
  BY DEF Elements, Waiting
<1> HIDE DEF tab, sock
<1>a. /\ tab.at # "unborn" /\ tab.sock \in {tabs[p].sock, None}
      /\ Elements(tab.outbox) \subseteq Waiting(p)
      /\ Frames(sock) \subseteq Frames(socks[c]) \cup Waiting(p)
  BY <1>1, <1>4, <1>8, <1>9 DEF Live
<1>10. QED
  BY <1>1, <1>3, <1>4, <1>8, <1>a, <1>c, PageTalks

\* The request that ends the interview is refused while the record lacks the
\* page's last number.
LEMMA KeepEnd ==
  ASSUME ChannelInv, NEW p \in Pages, End(p) PROVE ChannelInv'
<1>0. TypeOK /\ PageInv /\ FrameInv /\ HeldInv /\ LogInv /\ MarkInv /\ LaneInv /\ EndInv
  BY DEF ChannelInv
<1>1. /\ tabs[p] \in Tabs /\ Live(p) /\ UNCHANGED <<socks, lane, log>>
      /\ Latest = Len(log) - 1 /\ Len(log) \in Nat
  BY <1>0, LatestIsLength DEF End, TypeOK
<1>2. CASE ended = "no" /\ Latest < tabs[p].final
  <2> DEFINE tab == [tabs[p] EXCEPT !.end = "no", !.final = -1]
  <2>0. -1 \in Int
    OBVIOUS
  <2>1. /\ tab \in Tabs /\ tab.at = tabs[p].at /\ tab.sock = tabs[p].sock
        /\ tab.first = tabs[p].first /\ tab.next = tabs[p].next
        /\ tab.outbox = tabs[p].outbox
    BY <1>1, <2>0 DEF Tabs
  <2>2. tabs' = [tabs EXCEPT ![p] = tab] /\ UNCHANGED <<ended, watermark>>
    BY <1>0, <1>2 DEF End, TypeOK
  <2> HIDE DEF tab
  <2>3. QED
    BY <1>1, <2>1, <2>2, PageKeeps DEF Live
<1>3. CASE ~(ended = "no" /\ Latest < tabs[p].final)
  <2> DEFINE tab == Gone(tabs[p])
  <2>1. /\ tabs' = [tabs EXCEPT ![p] = tab] /\ watermark' = {}
        /\ ended' = IF ended = "no" THEN p ELSE ended
    BY <1>0, <1>3 DEF End, TypeOK
  <2>2. /\ tab \in Tabs /\ tab.at = "gone" /\ tab.sock = None
        /\ tab.first = tabs[p].first /\ tab.next = tabs[p].next
        /\ tab.outbox = tabs[p].outbox /\ tab.final = tabs[p].final
    BY <1>1 DEF Tabs, Gone
  <2> HIDE DEF tab
  <2>3. \A q \in Pages : tabs'[q] = IF q = p THEN tab ELSE tabs[q]
    BY <1>0, <2>1 DEF TypeOK
  <2>4. TypeOK'
    BY <1>0, <1>1, <2>1, <2>2 DEF TypeOK
  <2>5. \A q \in Pages : /\ tabs'[q].first = tabs[q].first /\ tabs'[q].next = tabs[q].next
                         /\ tabs'[q].outbox = tabs[q].outbox
                         /\ tabs'[q].sock \in {tabs[q].sock, None}
    BY <2>2, <2>3
  <2>6. PageInv'
    BY <1>0, <2>2, <2>3, <2>5 DEF PageInv, Waiting, IsMade
  <2>7. FrameInv'
    <3>1. \A c \in Connections : \A e \in Frames(socks[c]) : e \in Events
      BY <1>0, FramesTyped DEF TypeOK
    <3>2. QED
      BY <1>0, <1>1, <2>5, <3>1 DEF FrameInv, IsMade, Events
  <2>8. HeldInv'
    <3>1. Stored' = Stored
      BY <1>1 DEF Stored
    <3>2. \A q \in Pages, c \in Connections : tabs'[q].sock = c => tabs[q].sock = c
      BY <2>5, ChannelAssumption
    <3>3. QED
      BY <1>0, <1>1, <2>5, <3>1, <3>2 DEF HeldInv
  <2>9. LogInv' /\ MarkInv' /\ LaneInv'
    BY <1>0, <1>1, <2>1 DEF LogInv, MarkInv, LaneInv
  <2>10. EndInv'
    <3> SUFFICES ASSUME NEW q \in Pages, ended' = q
                 PROVE  tabs'[q].at = "gone" /\ tabs'[q].final < Len(log)
      BY <1>1 DEF EndInv
    <3>1. CASE ended = "no"
      <4>1. q = p /\ ~(Latest < tabs[p].final) /\ tabs[p].final \in Int
        BY <3>1, <2>1, <1>1, <1>3 DEF Tabs
      <4>2. QED
        BY <4>1, <1>1, <2>2, <2>3
    <3>2. CASE ended # "no"
      <4>1. ended = q
        BY <3>2, <2>1
      <4>2. q # p /\ tabs[q].at = "gone" /\ tabs[q].final < Len(log)
        BY <4>1, <1>0, <1>1 DEF EndInv, Live
      <4>3. QED
        BY <4>2, <2>3
    <3>3. QED
      BY <3>1, <3>2
  <2>11. QED
    BY <2>4, <2>6, <2>7, <2>8, <2>9, <2>10 DEF ChannelInv
<1>4. QED
  BY <1>2, <1>3

\* A restart leaves no connection, and every page and the record as they were.
LEMMA KeepRestart == ASSUME ChannelInv, Restart PROVE ChannelInv'
<1>0. TypeOK /\ PageInv /\ FrameInv /\ HeldInv /\ LogInv /\ MarkInv /\ LaneInv /\ EndInv
  BY DEF ChannelInv
<1>1. /\ \A q \in Pages : tabs'[q] = [tabs[q] EXCEPT !.sock = None]
      /\ \A c \in Connections : socks'[c] = NoSocket
      /\ lane' = <<>> /\ watermark' = {} /\ UNCHANGED <<log, ended>>
  BY DEF Restart
<1>2. /\ <<>> \in Seq(Events) /\ <<>> \in Seq(Answers) /\ <<>> \in Seq(Connections)
      /\ Elements(<<>>) = {} /\ Idle \in Jobs
  BY DEF Elements, Jobs, Idle
<1>3. NoSocket \in Sockets /\ Frames(NoSocket) = {} /\ NoSocket.job.at = "idle"
      /\ NoSocket.job = Idle
  BY <1>2 DEF NoSocket, Sockets, Frames, InHand, Idle
<1>4. \A q \in Pages :
        /\ tabs'[q] \in Tabs /\ tabs'[q].at = tabs[q].at
        /\ tabs'[q].first = tabs[q].first /\ tabs'[q].next = tabs[q].next
        /\ tabs'[q].outbox = tabs[q].outbox /\ tabs'[q].final = tabs[q].final
        /\ tabs'[q].sock = None
        /\ tabs[q] = Unborn => tabs'[q] = Unborn
  <2> SUFFICES ASSUME NEW q \in Pages
               PROVE  LET t == [tabs[q] EXCEPT !.sock = None]
                      IN  /\ t \in Tabs /\ t.at = tabs[q].at
                          /\ t.first = tabs[q].first /\ t.next = tabs[q].next
                          /\ t.outbox = tabs[q].outbox /\ t.final = tabs[q].final
                          /\ t.sock = None /\ (tabs[q] = Unborn => t = Unborn)
    BY <1>1
  <2>1. tabs[q] \in Tabs
    BY <1>0 DEF TypeOK
  <2>2. QED
    BY <2>1 DEF Tabs, Unborn
<1>5. TypeOK'
  <2>1. tabs' = [q \in Pages |-> tabs'[q]] /\ socks' = [c \in Connections |-> socks'[c]]
    BY DEF Restart
  <2>2. tabs' \in [Pages -> Tabs]
    BY <2>1, <1>4
  <2>3. socks' \in [Connections -> Sockets]
    BY <2>1, <1>1, <1>3
  <2>4. QED
    BY <1>0, <1>1, <1>2, <2>2, <2>3 DEF TypeOK
<1>6. PageInv'
  BY <1>0, <1>4 DEF PageInv, Waiting, IsMade
<1>7. FrameInv' /\ HeldInv'
  BY <1>1, <1>3, <1>4, ChannelAssumption DEF FrameInv, HeldInv
<1>8. LogInv' /\ MarkInv' /\ LaneInv'
  BY <1>0, <1>1, <1>3 DEF LogInv, MarkInv, LaneInv
<1>9. EndInv'
  BY <1>0, <1>1, <1>4 DEF EndInv
<1>10. QED
  BY <1>5, <1>6, <1>7, <1>8, <1>9 DEF ChannelInv

\* The sweep ends the interview when its time is over.
LEMMA KeepTimeIsUp == ASSUME ChannelInv, TimeIsUp PROVE ChannelInv'
<1>0. TypeOK /\ PageInv /\ FrameInv /\ HeldInv /\ LogInv /\ MarkInv /\ LaneInv /\ EndInv
  BY DEF ChannelInv
<1>1. /\ UNCHANGED <<tabs, socks, lane, log>> /\ watermark' = {} /\ ended' = "time"
  BY DEF TimeIsUp
<1>2. TypeOK' /\ PageInv' /\ FrameInv'
  BY <1>0, <1>1 DEF TypeOK, PageInv, Waiting, IsMade, FrameInv
<1>3. HeldInv'
  BY <1>0, <1>1 DEF HeldInv, Stored
<1>4. LogInv' /\ MarkInv' /\ LaneInv'
  BY <1>0, <1>1 DEF LogInv, MarkInv, LaneInv
<1>5. EndInv'
  BY <1>1, ChannelAssumption DEF EndInv
<1>6. QED
  BY <1>2, <1>3, <1>4, <1>5 DEF ChannelInv

\* A connection that is shut goes on with the frame in hand and no other.
LEMMA ShutKeeps ==
  ASSUME NEW sock \in Sockets, NEW at \in {"closing", "closed"}
  PROVE  /\ Shut(sock, at) \in Sockets /\ Shut(sock, at).at = at
         /\ Shut(sock, at).job = sock.job /\ Shut(sock, at).replies = sock.replies
         /\ Frames(Shut(sock, at)) \subseteq Frames(sock)
<1>1. <<>> \in Seq(Events) /\ Elements(<<>>) = {}
  BY DEF Elements
<1>2. QED
  BY <1>1 DEF Shut, Sockets, Frames

\* When neither the record, the watermark nor the lane changes, a connection
\* with the same frame in hand, and none new, keeps the invariant.
LEMMA SameFrameStep ==
  ASSUME ChannelInv, NEW c \in Connections, NEW sock \in Sockets,
         socks' = [socks EXCEPT ![c] = sock], sock.job = socks[c].job,
         sock.at = "free" => sock.job = Idle,
         Frames(sock) \subseteq Frames(socks[c]),
         Held(c) => sock.at \in {"open", "closing"} /\ sock.replies = socks[c].replies,
         watermark' \in {watermark, {}}, UNCHANGED <<tabs, lane, log, ended>>
  PROVE  ChannelInv'
<1>0. TypeOK /\ LogInv /\ MarkInv /\ LaneInv
  BY DEF ChannelInv
<1>1. log' \in Seq(Events) /\ LogInv' /\ Stored' = Stored /\ Len(log) <= Len(log')
  BY <1>0 DEF TypeOK, LogInv, Stored
<1>2. watermark' \subseteq -1..(Len(log') - 1)
  BY <1>0 DEF MarkInv
<1>3. sock.job.at = "append" => /\ sock.job.event.seq <= sock.job.expected
                                /\ sock.job.expected <= Len(log')
  BY <1>0 DEF MarkInv
<1>4. /\ lane' \in Seq(Connections)
      /\ \A i \in 1..Len(lane') : lane'[i] # c => \E k \in 1..Len(lane) : lane'[i] = lane[k]
      /\ \A i \in 1..Len(lane') : lane'[i] = c => sock.job.at = "append"
      /\ \A i, j \in 1..Len(lane') : lane'[i] = lane'[j] => i = j
  BY <1>0 DEF TypeOK, LaneInv
<1>5. QED
  BY <1>1, <1>2, <1>3, <1>4, ServerStep

\* A candidate's credential expires, and the socket is shut.
LEMMA KeepExpire ==
  ASSUME ChannelInv, NEW c \in Connections, Expire(c) PROVE ChannelInv'
<1>1. TypeOK /\ socks[c] \in Sockets
  BY DEF ChannelInv, TypeOK
<1> DEFINE sock == Shut(socks[c], "closing")
<1>2. socks' = [socks EXCEPT ![c] = sock] /\ UNCHANGED <<tabs, lane, watermark, log, ended>>
  BY <1>1 DEF Expire, TypeOK
<1>3. /\ sock \in Sockets /\ sock.at = "closing" /\ sock.job = socks[c].job
      /\ sock.replies = socks[c].replies /\ Frames(sock) \subseteq Frames(socks[c])
  BY <1>1, ShutKeeps
<1> HIDE DEF sock
<1>4. QED
  BY <1>2, <1>3, SameFrameStep

\* A connection is gone, and the watermark with it.
LEMMA KeepClosed ==
  ASSUME ChannelInv, NEW c \in Connections, Closed(c) PROVE ChannelInv'
<1>1. TypeOK /\ socks[c] \in Sockets
  BY DEF ChannelInv, TypeOK
<1>2. /\ ~Held(c) /\ watermark' = {} /\ UNCHANGED <<tabs, lane, log, ended>>
      /\ socks' = [socks EXCEPT ![c] = IF socks[c].job = Idle THEN NoSocket
                                       ELSE Shut(socks[c], "closed")]
  BY <1>1 DEF Closed, TypeOK
<1>3. CASE socks[c].job = Idle
  <2>1. /\ <<>> \in Seq(Events) /\ <<>> \in Seq(Answers) /\ Elements(<<>>) = {} /\ Idle \in Jobs
    BY DEF Elements, Jobs
  <2>2. NoSocket \in Sockets /\ NoSocket.job = Idle /\ Frames(NoSocket) = {}
    BY <2>1 DEF NoSocket, Sockets, Frames, InHand, Idle
  <2>3. QED
    BY <1>2, <1>3, <2>2, SameFrameStep
<1>4. CASE socks[c].job # Idle
  <2> DEFINE sock == Shut(socks[c], "closed")
  <2>1. /\ sock \in Sockets /\ sock.at = "closed" /\ sock.job = socks[c].job
        /\ Frames(sock) \subseteq Frames(socks[c])
    BY <1>1, ShutKeeps
  <2> HIDE DEF sock
  <2>2. socks' = [socks EXCEPT ![c] = sock]
    BY <1>2, <1>4 DEF sock
  <2>3. QED
    BY <1>2, <2>1, <2>2, SameFrameStep
<1>5. QED
  BY <1>3, <1>4

\* A frame that arrives joins the inbox, or shuts the socket.
LEMMA KeepArrive ==
  ASSUME ChannelInv, NEW c \in Connections, Arrive(c) PROVE ChannelInv'
<1>1. TypeOK /\ socks[c] \in Sockets /\ socks[c].at = "open" /\ socks[c].wire # <<>>
  BY DEF ChannelInv, TypeOK, Arrive, Open
<1> DEFINE shut   == Shut(socks[c], "closing")
           queued == [socks[c] EXCEPT !.inbox = Append(@, Head(socks[c].wire)),
                                      !.wire = Tail(@)]
<1>2. /\ socks' = [socks EXCEPT ![c] = shut] \/ socks' = [socks EXCEPT ![c] = queued]
      /\ UNCHANGED <<tabs, lane, watermark, log, ended>>
  BY <1>1 DEF Arrive, TypeOK
<1>3. CASE socks' = [socks EXCEPT ![c] = shut]
  <2>1. /\ shut \in Sockets /\ shut.at = "closing" /\ shut.job = socks[c].job
        /\ shut.replies = socks[c].replies /\ Frames(shut) \subseteq Frames(socks[c])
    BY <1>1, ShutKeeps
  <2> HIDE DEF shut
  <2>2. QED
    BY <1>2, <1>3, <2>1, SameFrameStep
<1>4. CASE socks' = [socks EXCEPT ![c] = queued]
  <2>1. socks[c].wire \in Seq(Events) /\ socks[c].inbox \in Seq(Events)
    BY <1>1 DEF Sockets
  <2>2. /\ Head(socks[c].wire) \in Events /\ Head(socks[c].wire) \in Elements(socks[c].wire)
        /\ Tail(socks[c].wire) \in Seq(Events)
        /\ Elements(Tail(socks[c].wire)) \subseteq Elements(socks[c].wire)
    BY <1>1, <2>1, TailElements
  <2>3. /\ Append(socks[c].inbox, Head(socks[c].wire)) \in Seq(Events)
        /\ Elements(Append(socks[c].inbox, Head(socks[c].wire)))
             = Elements(socks[c].inbox) \cup {Head(socks[c].wire)}
    BY <2>1, <2>2, AppendElements
  <2>4. /\ queued \in Sockets /\ queued.at = "open" /\ queued.job = socks[c].job
        /\ queued.replies = socks[c].replies
        /\ queued.inbox = Append(socks[c].inbox, Head(socks[c].wire))
        /\ queued.wire = Tail(socks[c].wire)
    BY <1>1, <2>2, <2>3 DEF Sockets
  <2> HIDE DEF queued
  <2>5. Frames(queued) \subseteq Frames(socks[c])
    BY <2>2, <2>3, <2>4 DEF Frames
  <2>6. QED
    BY <1>2, <1>4, <2>4, <2>5, SameFrameStep
<1>5. QED
  BY <1>2, <1>3, <1>4

\* A frame that is answered without being stored.
LEMMA AnsweredStep ==
  ASSUME ChannelInv, NEW c \in Connections, NEW m \in Answers, m.kind # "ACK",
         NEW sock \in Sockets, sock.job = Idle, Frames(sock) \subseteq Frames(socks[c]),
         socks[c].at # "closed" => sock.at = socks[c].at,
         Elements(sock.replies) \subseteq Elements(socks[c].replies) \cup {m},
         socks' = [socks EXCEPT ![c] = sock],
         watermark' \subseteq -1..(Len(log) - 1), UNCHANGED <<tabs, log, ended>>,
         lane' \in Seq(Connections),
         \A i \in 1..Len(lane') : lane'[i] # c /\ \E k \in 1..Len(lane) : lane'[i] = lane[k],
         \A i, j \in 1..Len(lane') : lane'[i] = lane'[j] => i = j
  PROVE  ChannelInv'
<1>0. TypeOK /\ LogInv /\ HeldInv
  BY DEF ChannelInv
<1>1. log' \in Seq(Events) /\ LogInv' /\ Stored' = Stored /\ Len(log) <= Len(log')
  BY <1>0 DEF TypeOK, LogInv, Stored
<1>2. Held(c) => sock.at \in {"open", "closing"}
  BY <1>0 DEF HeldInv, Held
<1>3. sock.job.at # "append"
  BY DEF Idle
<1>4. /\ sock.at = "free" => sock.job = Idle
      /\ \A i \in 1..Len(lane') : lane'[i] # c => \E k \in 1..Len(lane) : lane'[i] = lane[k]
      /\ \A i \in 1..Len(lane') : lane'[i] = c => sock.job.at = "append"
      /\ watermark' \subseteq -1..(Len(log') - 1)
  OBVIOUS
<1>5. Held(c) => /\ sock.at \in {"open", "closing"}
                 /\ \A n \in Elements(sock.replies) :
                      \/ n \in Elements(socks[c].replies)
                      \/ n.kind # "ACK"
                      \/ \E e \in Frames(socks[c]) : e \in Events /\ e \in Stored' /\ e.seq = n.seq
  BY <1>2
<1>6. QED
  BY <1>1, <1>3, <1>4, <1>5, ServerStep

\* An answer adds no frame to the connection.
LEMMA AnswerFrames ==
  ASSUME socks \in [Connections -> Sockets], NEW c \in Connections, NEW m \in Answers
  PROVE  Frames(Answer(c, m)) \subseteq Frames(socks[c])
<1>1. Elements(<<>>) = {} /\ InHand(Idle) = {}
  BY DEF Elements, InHand, Idle
<1>2. QED
  BY <1>1, AnswerKeeps DEF Frames

\* A frame that goes on: the watermark is asked for, or it waits in the lane.
LEMMA GoesStep ==
  ASSUME ChannelInv, NEW c \in Connections, NEW sock \in Sockets,
         socks[c].at # "free", socks[c].job.at # "append",
         sock.at = socks[c].at, sock.replies = socks[c].replies,
         Frames(sock) \subseteq Frames(socks[c]), socks' = [socks EXCEPT ![c] = sock],
         watermark' \subseteq -1..(Len(log) - 1), UNCHANGED <<tabs, log, ended>>,
         sock.job.at = "append" => /\ sock.job.event.seq <= sock.job.expected
                                   /\ sock.job.expected <= Len(log),
         lane' = lane \/ (lane' = Append(lane, c) /\ sock.job.at = "append")
  PROVE  ChannelInv'
<1>0. TypeOK /\ LogInv /\ HeldInv /\ LaneInv
  BY DEF ChannelInv
<1>1. log' \in Seq(Events) /\ LogInv' /\ Stored' = Stored /\ Len(log) <= Len(log')
  BY <1>0 DEF TypeOK, LogInv, Stored
<1>2. lane \in Seq(Connections) /\ \A i \in 1..Len(lane) : lane[i] # c
  BY <1>0 DEF TypeOK, LaneInv
<1>3. /\ lane' \in Seq(Connections)
      /\ \A i \in 1..Len(lane') : lane'[i] # c => \E k \in 1..Len(lane) : lane'[i] = lane[k]
      /\ \A i \in 1..Len(lane') : lane'[i] = c => sock.job.at = "append"
      /\ \A i, j \in 1..Len(lane') : lane'[i] = lane'[j] => i = j
  <2>1. CASE lane' = lane
    BY <2>1, <1>0, <1>2 DEF LaneInv
  <2>2. CASE lane' = Append(lane, c) /\ sock.job.at = "append"
    <3>1. /\ lane' \in Seq(Connections) /\ Len(lane') = Len(lane) + 1 /\ Len(lane) \in Nat
          /\ lane'[Len(lane) + 1] = c /\ \A i \in 1..Len(lane) : lane'[i] = lane[i]
      BY <2>2, <1>2
    <3>2. \A i \in 1..Len(lane') : i \in 1..Len(lane) \/ i = Len(lane) + 1
      BY <3>1
    <3>3. \A i, j \in 1..Len(lane) : lane[i] = lane[j] => i = j
      BY <1>0 DEF LaneInv
    <3>4. ASSUME NEW i \in 1..Len(lane'), NEW j \in 1..Len(lane'), lane'[i] = lane'[j]
          PROVE  i = j
      <4>1. CASE i \in 1..Len(lane) /\ j \in 1..Len(lane)
        BY <4>1, <3>1, <3>3, <3>4
      <4>2. CASE i = Len(lane) + 1
        BY <4>2, <3>1, <3>2, <3>4, <1>2
      <4>3. CASE j = Len(lane) + 1
        BY <4>3, <3>1, <3>2, <3>4, <1>2
      <4>4. QED
        BY <4>1, <4>2, <4>3, <3>2
    <3>5. \A i \in 1..Len(lane') : lane'[i] # c => \E k \in 1..Len(lane) : lane'[i] = lane[k]
      BY <3>1, <3>2
    <3>6. QED
      BY <2>2, <3>1, <3>4, <3>5
  <2>3. QED
    BY <2>1, <2>2
<1>4. Held(c) => /\ sock.at \in {"open", "closing"}
                 /\ \A m \in Elements(sock.replies) :
                      \/ m \in Elements(socks[c].replies)
                      \/ m.kind # "ACK"
                      \/ \E e \in Frames(socks[c]) : e \in Events /\ e \in Stored' /\ e.seq = m.seq
  BY <1>0 DEF HeldInv, Held
<1>5. watermark' \subseteq -1..(Len(log') - 1)
  OBVIOUS
<1>6. sock.at = "free" => sock.job = Idle
  OBVIOUS
<1>7. sock.job.at = "append" => /\ sock.job.event.seq <= sock.job.expected
                                /\ sock.job.expected <= Len(log')
  OBVIOUS
<1>8. QED
  BY <1>1, <1>3, <1>4, <1>5, <1>6, <1>7, ServerStep

\* A number already taken is answered with a replay from the log's end.
LEMMA KeepConflicted ==
  ASSUME ChannelInv, NEW c \in Connections, Conflicted(c) PROVE ChannelInv'
<1>0. TypeOK /\ LogInv /\ LaneInv
  BY DEF ChannelInv
<1>1. Latest = Len(log) - 1 /\ Len(log) \in Nat
  BY <1>0, LatestIsLength DEF TypeOK
<1>2. ReplayFrom(Latest + 1) \in Answers /\ ReplayFrom(Latest + 1).kind # "ACK"
  <2>1. Latest + 1 \in Nat
    BY <1>1
  <2>2. QED
    BY <2>1 DEF ReplayFrom, Answers
<1>3. watermark' \subseteq -1..(Len(log) - 1)
  BY <1>1 DEF Conflicted
<1>4. \A i \in 1..Len(lane) : lane[i] # c
  BY <1>0 DEF LaneInv, Conflicted
<1>5. /\ lane' \in Seq(Connections)
      /\ \A i \in 1..Len(lane') : lane'[i] # c /\ \E k \in 1..Len(lane) : lane'[i] = lane[k]
      /\ \A i, j \in 1..Len(lane') : lane'[i] = lane'[j] => i = j
  BY <1>0, <1>4 DEF Conflicted, TypeOK, LaneInv
<1> DEFINE sock == Answer(c, ReplayFrom(Latest + 1))
<1>6. /\ sock \in Sockets /\ sock.job = Idle /\ Frames(sock) \subseteq Frames(socks[c])
      /\ socks[c].at # "closed" => sock.at = socks[c].at
      /\ Elements(sock.replies) \subseteq Elements(socks[c].replies) \cup {ReplayFrom(Latest + 1)}
  BY <1>0, <1>2, AnswerKeeps, AnswerFrames DEF TypeOK
<1>7. socks' = [socks EXCEPT ![c] = sock] /\ UNCHANGED <<tabs, log, ended>>
  BY DEF Conflicted
<1> HIDE DEF sock
<1>8. QED
  BY <1>2, <1>3, <1>5, <1>6, <1>7, AnsweredStep

\* An append that fails is answered with an error, and the log stands.
LEMMA KeepFail ==
  ASSUME ChannelInv, NEW c \in Connections, Fail(c) PROVE ChannelInv'
<1>0. TypeOK /\ LogInv /\ LaneInv /\ MarkInv
  BY DEF ChannelInv
<1>1. /\ socks' = [socks EXCEPT ![c] = Answer(c, Internal)]
      /\ lane' = RemoveFirst(lane, c) /\ UNCHANGED <<tabs, watermark, log, ended>>
  BY DEF Fail
<1>2. Internal \in Answers /\ Internal.kind # "ACK"
  BY DEF Internal, Answers
<1>3. lane \in Seq(Connections) /\ \A i, j \in 1..Len(lane) : lane[i] = lane[j] => i = j
  BY <1>0 DEF TypeOK, LaneInv
<1>4. /\ lane' \in Seq(Connections)
      /\ \A i \in 1..Len(lane') : \E k \in 1..Len(lane) : lane'[i] = lane[k] /\ lane[k] # c
      /\ \A i, j \in 1..Len(lane') : lane'[i] = lane'[j] => i = j
  BY <1>1, <1>3, LaneLeft
<1>5. watermark' \subseteq -1..(Len(log) - 1)
  BY <1>0, <1>1 DEF MarkInv
<1>a. \A i \in 1..Len(lane') : lane'[i] # c /\ \E k \in 1..Len(lane) : lane'[i] = lane[k]
  BY <1>4
<1> DEFINE sock == Answer(c, Internal)
<1>6. /\ sock \in Sockets /\ sock.job = Idle /\ Frames(sock) \subseteq Frames(socks[c])
      /\ socks[c].at # "closed" => sock.at = socks[c].at
      /\ Elements(sock.replies) \subseteq Elements(socks[c].replies) \cup {Internal}
  BY <1>0, <1>2, AnswerKeeps, AnswerFrames DEF TypeOK
<1>7. socks' = [socks EXCEPT ![c] = sock]
  BY <1>1
<1> HIDE DEF sock
<1>8. QED
  BY <1>1, <1>2, <1>4, <1>5, <1>6, <1>7, <1>a, AnsweredStep

\* What Admit makes of a frame: it asks for what comes first, or waits.
LEMMA AdmitKeeps ==
  ASSUME ChannelInv, NEW c \in Connections, NEW e \in Events, NEW mark \in -1..(Len(log) - 1)
  PROVE  \/ /\ mark + 1 \in Nat
            /\ Admit(c, e, mark) = [sock |-> Answer(c, ReplayFrom(mark + 1)), waits |-> <<>>]
            /\ ReplayFrom(mark + 1) \in Answers /\ ReplayFrom(mark + 1).kind # "ACK"
         \/ /\ Admit(c, e, mark) =
                 [sock |-> Goes(c, [at |-> "append", event |-> e, expected |-> mark + 1]),
                  waits |-> <<c>>]
            /\ [at |-> "append", event |-> e, expected |-> mark + 1] \in Jobs
            /\ e.seq <= mark + 1 /\ mark + 1 <= Len(log)
<1>1. log \in Seq(Events)
  BY DEF ChannelInv, TypeOK
<1>2. mark \in Int /\ mark + 1 \in Nat /\ mark + 1 <= Len(log) /\ e.seq \in Nat
  BY <1>1 DEF Events
<1>3. ReplayFrom(mark + 1) \in Answers /\ ReplayFrom(mark + 1).kind # "ACK"
  BY <1>2 DEF ReplayFrom, Answers
<1>4. [at |-> "append", event |-> e, expected |-> mark + 1] \in Jobs
  BY <1>2 DEF Jobs
<1>5. QED
  BY <1>2, <1>3, <1>4 DEF Admit

\* What is admitted depends on the log's end as it was read.
LEMMA KeepLatestRead ==
  ASSUME ChannelInv, NEW c \in Connections, LatestRead(c) PROVE ChannelInv'
<1>0. TypeOK /\ LogInv /\ LaneInv
  BY DEF ChannelInv
<1>1. Latest = Len(log) - 1 /\ Len(log) \in Nat /\ Latest \in -1..(Len(log) - 1)
  <2>1. Latest = Len(log) - 1 /\ Len(log) \in Nat
    BY <1>0, LatestIsLength DEF TypeOK
  <2>2. QED
    BY <2>1
<1>e. PICK e : e = socks[c].job.event
  OBVIOUS
<1>2. socks[c] \in Sockets /\ socks[c].job \in Jobs /\ socks[c].job.at = "latest" /\ e \in Events
  BY <1>0, <1>e DEF TypeOK, Sockets, Jobs, Idle, LatestRead
<1>3. e \in Frames(socks[c]) /\ socks[c].at # "free"
  BY <1>0, <1>2, <1>e DEF Frames, InHand, LaneInv, Idle
<1>4. /\ watermark' = {Latest} /\ UNCHANGED <<tabs, log, ended>>
      /\ watermark' \subseteq -1..(Len(log) - 1)
      /\ socks' = [socks EXCEPT ![c] = Admit(c, e, Latest).sock]
      /\ lane' = lane \o Admit(c, e, Latest).waits
  BY <1>1, <1>e DEF LatestRead
<1>5. \A i \in 1..Len(lane) : lane[i] # c
  BY <1>0, <1>2 DEF LaneInv
<1>6. CASE Admit(c, e, Latest) = [sock |-> Answer(c, ReplayFrom(Latest + 1)), waits |-> <<>>]
           /\ ReplayFrom(Latest + 1) \in Answers /\ ReplayFrom(Latest + 1).kind # "ACK"
  <2> DEFINE sock == Answer(c, ReplayFrom(Latest + 1))
  <2>1. /\ sock \in Sockets /\ sock.job = Idle /\ Frames(sock) \subseteq Frames(socks[c])
        /\ socks[c].at # "closed" => sock.at = socks[c].at
        /\ Elements(sock.replies) \subseteq Elements(socks[c].replies) \cup {ReplayFrom(Latest + 1)}
    BY <1>0, <1>6, AnswerKeeps, AnswerFrames DEF TypeOK
  <2>2. socks' = [socks EXCEPT ![c] = sock]
    BY <1>4, <1>6
  <2>3. lane' = lane
    BY <1>0, <1>4, <1>6 DEF TypeOK
  <2>4. /\ lane' \in Seq(Connections)
        /\ \A i \in 1..Len(lane') : lane'[i] # c /\ \E k \in 1..Len(lane) : lane'[i] = lane[k]
        /\ \A i, j \in 1..Len(lane') : lane'[i] = lane'[j] => i = j
    BY <1>0, <1>5, <2>3 DEF TypeOK, LaneInv
  <2> HIDE DEF sock
  <2>5. QED
    BY <1>4, <1>6, <2>1, <2>2, <2>4, AnsweredStep
<1>7. CASE /\ Admit(c, e, Latest) =
                [sock |-> Goes(c, [at |-> "append", event |-> e, expected |-> Latest + 1]),
                 waits |-> <<c>>]
           /\ [at |-> "append", event |-> e, expected |-> Latest + 1] \in Jobs
           /\ e.seq <= Latest + 1 /\ Latest + 1 <= Len(log)
  <2> DEFINE job  == [at |-> "append", event |-> e, expected |-> Latest + 1]
             sock == Goes(c, job)
  <2>1. /\ sock \in Sockets /\ sock.job = job /\ sock.at = socks[c].at
        /\ sock.replies = socks[c].replies /\ sock.wire = socks[c].wire
        /\ sock.inbox = socks[c].inbox
    BY <1>2, <1>7 DEF Goes, Sockets
  <2>2. socks' = [socks EXCEPT ![c] = sock]
    BY <1>4, <1>7
  <2>3. lane' = Append(lane, c)
    BY <1>0, <1>4, <1>7 DEF TypeOK
  <2>4. job.at = "append" /\ job.event = e /\ job.expected = Latest + 1
    OBVIOUS
  <2> HIDE DEF sock, job
  <2>5. Frames(sock) \subseteq Frames(socks[c])
    BY <1>3, <2>1, <2>4 DEF Frames, InHand
  <2>6. sock.job.at = "append" => /\ sock.job.event.seq <= sock.job.expected
                                  /\ sock.job.expected <= Len(log)
    BY <1>7, <2>1, <2>4
  <2>7. socks[c].job.at # "append"
    BY <1>2
  <2>8. lane' = Append(lane, c) /\ sock.job.at = "append"
    BY <2>1, <2>3, <2>4
  <2>9. QED
    BY <1>3, <1>4, <2>1, <2>2, <2>5, <2>6, <2>7, <2>8, GoesStep
<1>8. QED
  BY <1>1, <1>2, <1>6, <1>7, AdmitKeeps

\* The head of the inbox is taken up, in its turn.
LEMMA KeepTakeFrame ==
  ASSUME ChannelInv, NEW c \in Connections, TakeFrame(c) PROVE ChannelInv'
<1>0. TypeOK /\ LogInv /\ LaneInv /\ MarkInv
  BY DEF ChannelInv
<1>e. PICK e : e = Head(socks[c].inbox)
  OBVIOUS
<1>1. /\ socks[c] \in Sockets /\ socks[c].at = "open" /\ socks[c].job = Idle
      /\ socks[c].inbox \in Seq(Events) /\ socks[c].inbox # <<>>
      /\ UNCHANGED <<tabs, watermark, log, ended>>
  BY <1>0 DEF TakeFrame, Open, TypeOK, Sockets
<1>2. /\ e \in Events /\ e \in Elements(socks[c].inbox) /\ Tail(socks[c].inbox) \in Seq(Events)
      /\ Elements(Tail(socks[c].inbox)) \subseteq Elements(socks[c].inbox)
  BY <1>1, <1>e, TailElements
<1>3. e \in Frames(socks[c]) /\ socks[c].job.at # "append"
  BY <1>1, <1>2 DEF Frames, Idle
<1>4. watermark' \subseteq -1..(Len(log) - 1)
  BY <1>0, <1>1 DEF MarkInv
<1>5. \A i \in 1..Len(lane) : lane[i] # c
  BY <1>0, <1>3 DEF LaneInv
<1> DEFINE Answered(m) == /\ m \in Answers /\ m.kind # "ACK" /\ lane' = lane
                          /\ socks' = [socks EXCEPT ![c] =
                                         [Answer(c, m) EXCEPT !.inbox = Tail(Answer(c, m).inbox)]]
           Onward(job) == /\ job \in Jobs /\ job.at \in {"latest", "append"} /\ job.event = e
                          /\ job.at = "append" => /\ e.seq <= job.expected
                                                  /\ job.expected <= Len(log)
                          /\ lane' = IF job.at = "append" THEN Append(lane, c) ELSE lane
                          /\ socks' = [socks EXCEPT ![c] =
                                         [Goes(c, job) EXCEPT !.inbox = Tail(Goes(c, job).inbox)]]
<1>6. (\E m : Answered(m)) \/ (\E job : Onward(job))
  <2>0. lane \in Seq(Connections) /\ lane \o <<>> = lane /\ lane \o <<c>> = Append(lane, c)
    BY <1>0 DEF TypeOK
  <2>1. CASE ended # "no"
    <3>1. SaysEnded \in Answers /\ SaysEnded.kind # "ACK"
      BY DEF SaysEnded, Answers
    <3>2. Answered(SaysEnded)
      BY <2>0, <2>1, <3>1 DEF TakeFrame
    <3>3. QED
      BY <3>2
  <2>2. CASE ended = "no" /\ watermark = {}
    <3> DEFINE job == [at |-> "latest", event |-> e]
    <3>1. job \in Jobs /\ job.at = "latest" /\ job.event = e
      BY <1>2 DEF Jobs
    <3>2. Onward(job)
      BY <2>0, <2>2, <3>1, <1>e DEF TakeFrame
    <3>3. QED
      BY <3>2
  <2>3. CASE ended = "no" /\ watermark # {}
    <3>1. PICK mark : mark = CHOOSE n \in watermark : TRUE
      OBVIOUS
    <3>2. mark \in watermark
      BY <2>3, <3>1
    <3>3. mark \in -1..(Len(log) - 1)
      BY <3>2, <1>0 DEF MarkInv
    <3>4. /\ socks' = [socks EXCEPT ![c] =
               [Admit(c, e, mark).sock EXCEPT !.inbox = Tail(Admit(c, e, mark).sock.inbox)]]
          /\ lane' = lane \o Admit(c, e, mark).waits
      BY <2>3, <3>1, <1>e DEF TakeFrame
    <3>5. CASE Admit(c, e, mark) = [sock |-> Answer(c, ReplayFrom(mark + 1)), waits |-> <<>>]
               /\ ReplayFrom(mark + 1) \in Answers /\ ReplayFrom(mark + 1).kind # "ACK"
      <4>1. Answered(ReplayFrom(mark + 1))
        BY <2>0, <3>4, <3>5
      <4>2. QED
        BY <4>1
    <3>6. CASE /\ Admit(c, e, mark) =
                    [sock |-> Goes(c, [at |-> "append", event |-> e, expected |-> mark + 1]),
                     waits |-> <<c>>]
               /\ [at |-> "append", event |-> e, expected |-> mark + 1] \in Jobs
               /\ e.seq <= mark + 1 /\ mark + 1 <= Len(log)
      <4>1. Onward([at |-> "append", event |-> e, expected |-> mark + 1])
        BY <2>0, <3>4, <3>6
      <4>2. QED
        BY <4>1
    <3>7. QED
      BY <1>2, <3>3, <3>5, <3>6, AdmitKeeps
  <2>4. QED
    BY <2>1, <2>2, <2>3
<1>7. ASSUME NEW m, Answered(m) PROVE ChannelInv'
  <2>0. m \in Answers /\ m.kind # "ACK" /\ lane' = lane
    BY <1>7
  <2> DEFINE sock == [Answer(c, m) EXCEPT !.inbox = Tail(Answer(c, m).inbox)]
  <2>1. /\ Answer(c, m) \in Sockets /\ Answer(c, m).job = Idle
        /\ Answer(c, m).inbox = socks[c].inbox /\ Answer(c, m).at = "open"
        /\ Frames(Answer(c, m)) \subseteq Frames(socks[c])
        /\ Elements(Answer(c, m).replies) \subseteq Elements(socks[c].replies) \cup {m}
    BY <1>0, <1>1, <2>0, AnswerKeeps, AnswerFrames DEF TypeOK
  <2>2. /\ sock \in Sockets /\ sock.job = Idle /\ sock.at = "open"
        /\ sock.inbox = Tail(socks[c].inbox) /\ sock.wire = Answer(c, m).wire
        /\ sock.replies = Answer(c, m).replies
    BY <1>2, <2>1 DEF Sockets
  <2>3. socks' = [socks EXCEPT ![c] = sock]
    BY <1>7
  <2> HIDE DEF sock
  <2>4. Frames(sock) \subseteq Frames(socks[c])
    BY <1>2, <2>1, <2>2 DEF Frames
  <2>5. /\ lane' \in Seq(Connections)
        /\ \A i \in 1..Len(lane') : lane'[i] # c /\ \E k \in 1..Len(lane) : lane'[i] = lane[k]
        /\ \A i, j \in 1..Len(lane') : lane'[i] = lane'[j] => i = j
    BY <1>0, <1>5, <2>0 DEF TypeOK, LaneInv
  <2>6. socks[c].at # "closed" => sock.at = socks[c].at
    BY <1>1, <2>2
  <2>7. Elements(sock.replies) \subseteq Elements(socks[c].replies) \cup {m}
    BY <2>1, <2>2
  <2>8. QED
    BY <1>1, <1>4, <2>0, <2>2, <2>3, <2>4, <2>5, <2>6, <2>7, AnsweredStep
<1>8. ASSUME NEW job, Onward(job) PROVE ChannelInv'
  <2>0. /\ job \in Jobs /\ job.at \in {"latest", "append"} /\ job.event = e
        /\ job.at = "append" => e.seq <= job.expected /\ job.expected <= Len(log)
        /\ lane' = IF job.at = "append" THEN Append(lane, c) ELSE lane
    BY <1>8
  <2> DEFINE sock == [Goes(c, job) EXCEPT !.inbox = Tail(Goes(c, job).inbox)]
  <2>1. /\ sock \in Sockets /\ sock.job = job /\ sock.at = "open"
        /\ sock.inbox = Tail(socks[c].inbox) /\ sock.wire = socks[c].wire
        /\ sock.replies = socks[c].replies
    BY <1>1, <1>2, <2>0 DEF Sockets, Goes
  <2>2. socks' = [socks EXCEPT ![c] = sock]
    BY <1>8
  <2> HIDE DEF sock
  <2>3. Frames(sock) \subseteq Frames(socks[c])
    BY <1>2, <1>3, <2>0, <2>1 DEF Frames, InHand
  <2>4. QED
    BY <1>1, <1>3, <1>4, <2>0, <2>1, <2>2, <2>3, GoesStep
<1>9. QED
  BY <1>6, <1>7, <1>8

\* An input stored is the next in number, whoever else stores inputs meanwhile.
LEMMA NewIsNext ==
  ASSUME TypeOK, LogInv, MarkInv, NEW c \in Connections, socks[c].job.at = "append",
         ~Taken(socks[c].job.event.seq)
  PROVE  socks[c].job.event \in Events /\ socks[c].job.event.seq = Len(log)
<1>1. socks[c].job \in Jobs
  BY DEF TypeOK, Sockets
<1>2. /\ socks[c].job.event \in Events /\ socks[c].job.expected \in Nat
      /\ socks[c].job.event.seq \in Nat /\ Len(log) \in Nat
  BY <1>1 DEF Jobs, Idle, Events, TypeOK
<1>3. socks[c].job.event.seq <= socks[c].job.expected /\ socks[c].job.expected <= Len(log)
  BY DEF MarkInv
<1>4. ~(socks[c].job.event.seq < Len(log))
  BY <1>2, LatestIsLength DEF TypeOK
<1>5. QED
  BY <1>2, <1>3, <1>4

\* The connection at the head of the lane leaves it.
LEMMA HeadLeaves ==
  ASSUME TypeOK, LaneInv, lane # <<>>
  PROVE  /\ Head(lane) \in Connections /\ socks[Head(lane)].job.at = "append"
         /\ Tail(lane) \in Seq(Connections)
         /\ \A i \in 1..Len(Tail(lane)) :
              Tail(lane)[i] # Head(lane) /\ \E k \in 1..Len(lane) : Tail(lane)[i] = lane[k]
         /\ \A i, j \in 1..Len(Tail(lane)) : Tail(lane)[i] = Tail(lane)[j] => i = j
<1>1. /\ lane \in Seq(Connections) /\ Head(lane) = lane[1] /\ 1 \in 1..Len(lane)
      /\ Tail(lane) \in Seq(Connections) /\ Len(Tail(lane)) = Len(lane) - 1
      /\ \A i \in 1..(Len(lane) - 1) : Tail(lane)[i] = lane[i + 1]
  BY DEF TypeOK
<1>2. Head(lane) \in Connections /\ socks[Head(lane)].job.at = "append"
  BY <1>1 DEF LaneInv
<1>3. \A i \in 1..(Len(lane) - 1) : i + 1 \in 1..Len(lane) /\ i + 1 # 1
  BY <1>1
<1>4. \A i, j \in 1..Len(lane) : lane[i] = lane[j] => i = j
  BY DEF LaneInv
<1>5. \A i \in 1..(Len(lane) - 1) :
        Tail(lane)[i] # Head(lane) /\ \E k \in 1..Len(lane) : Tail(lane)[i] = lane[k]
  BY <1>1, <1>3, <1>4
<1>6. \A i, j \in 1..(Len(lane) - 1) : Tail(lane)[i] = Tail(lane)[j] => i = j
  <2> SUFFICES ASSUME NEW i \in 1..(Len(lane) - 1), NEW j \in 1..(Len(lane) - 1),
                      Tail(lane)[i] = Tail(lane)[j]
               PROVE  i = j
    OBVIOUS
  <2>1. i + 1 = j + 1
    BY <1>1, <1>3, <1>4
  <2>2. QED
    BY <2>1
<1>7. QED
  BY <1>1, <1>2, <1>5, <1>6

\* An input that is acknowledged is on record.
LEMMA AcknowledgedStep ==
  ASSUME ChannelInv, NEW c \in Connections, lane # <<>>, Head(lane) = c, lane' = Tail(lane),
         NEW e, e = socks[c].job.event,
         watermark' = IF e.seq >= socks[c].job.expected THEN {e.seq} ELSE watermark,
         socks' = [socks EXCEPT ![c] = Answer(c, Ack(e.seq))],
         UNCHANGED <<tabs, ended>>,
         (e \in Stored /\ log' = log) \/ (~Taken(e.seq) /\ log' = Append(log, e))
  PROVE  ChannelInv'
<1>0. TypeOK /\ LogInv /\ LaneInv /\ MarkInv /\ HeldInv
  BY DEF ChannelInv
<1>1. /\ socks[c].job.at = "append" /\ lane' \in Seq(Connections)
      /\ \A i \in 1..Len(lane') : lane'[i] # c /\ \E k \in 1..Len(lane) : lane'[i] = lane[k]
      /\ \A i, j \in 1..Len(lane') : lane'[i] = lane'[j] => i = j
  BY <1>0, HeadLeaves
<1>2. e \in Events /\ e \in Frames(socks[c]) /\ e.seq \in Nat
  <2>1. socks[c] \in Sockets /\ socks[c].job \in Jobs
    BY <1>0 DEF TypeOK, Sockets
  <2>2. e \in Events
    BY <1>1, <2>1 DEF Jobs, Idle
  <2>3. e \in Frames(socks[c])
    BY <1>1 DEF Frames, InHand
  <2>4. QED
    BY <2>2, <2>3 DEF Events
<1>3. /\ log \in Seq(Events) /\ log' \in Seq(Events) /\ LogInv' /\ Stored \subseteq Stored'
      /\ Len(log) <= Len(log') /\ e \in Stored' /\ e.seq \in -1..(Len(log') - 1)
      /\ Len(log) \in Nat /\ Len(log') \in Nat
  <2>1. CASE e \in Stored /\ log' = log
    <3>1. Stored' = Stored /\ Taken(e.seq)
      BY <2>1 DEF Stored, Taken
    <3>2. e.seq < Len(log) /\ Len(log) \in Nat
      BY <3>1, <1>0, <1>2, LatestIsLength DEF TypeOK
    <3>a. e.seq \in -1..(Len(log) - 1)
      BY <3>2, <1>2
    <3>b. LogInv' /\ log \in Seq(Events)
      BY <2>1, <1>0 DEF TypeOK, LogInv
    <3>3. QED
      BY <2>1, <3>1, <3>2, <3>a, <3>b
  <2>2. CASE ~Taken(e.seq) /\ log' = Append(log, e)
    <3>1. e.seq = Len(log)
      BY <2>2, <1>0, <1>1, NewIsNext
    <3>2. /\ log \in Seq(Events) /\ log' \in Seq(Events) /\ Len(log') = Len(log) + 1
          /\ Len(log) \in Nat
          /\ \A i \in 1..Len(log) : log'[i] = log[i]
          /\ log'[Len(log) + 1] = e
      BY <2>2, <1>0, <1>2 DEF TypeOK
    <3>3. \A i \in 1..Len(log') : i \in 1..Len(log) \/ i = Len(log) + 1
      BY <3>2
    <3>4. LogInv'
      BY <3>1, <3>2, <3>3, <1>0 DEF LogInv
    <3>5. Elements(log') = Elements(log) \cup {e}
      BY <2>2, <3>2, <1>2, AppendElements
    <3>6. Stored = Elements(log) /\ Stored' = Elements(log')
      BY DEF Stored, Elements
    <3>7. QED
      BY <3>1, <3>2, <3>4, <3>5, <3>6
  <2>3. QED
    BY <2>1, <2>2
<1>4. watermark' \subseteq -1..(Len(log') - 1)
  <2>1. watermark \subseteq -1..(Len(log) - 1)
    BY <1>0 DEF MarkInv
  <2>2. \A n \in -1..(Len(log) - 1) : n \in -1..(Len(log') - 1)
    BY <1>3
  <2>3. QED
    BY <2>1, <2>2, <1>3
<1> DEFINE sock == Answer(c, Ack(e.seq))
<1>5. Ack(e.seq) \in Answers /\ Ack(e.seq).seq = e.seq
  BY <1>2 DEF Ack, Answers
<1>6. /\ sock \in Sockets /\ sock.job = Idle /\ Frames(sock) \subseteq Frames(socks[c])
      /\ socks[c].at # "closed" => sock.at = socks[c].at
      /\ Elements(sock.replies) \subseteq Elements(socks[c].replies) \cup {Ack(e.seq)}
  BY <1>0, <1>5, AnswerKeeps, AnswerFrames DEF TypeOK
<1>7. socks' = [socks EXCEPT ![c] = sock]
  OBVIOUS
<1> HIDE DEF sock
<1>8. Held(c) => /\ sock.at \in {"open", "closing"}
                 /\ \A m \in Elements(sock.replies) :
                      \/ m \in Elements(socks[c].replies)
                      \/ m.kind # "ACK"
                      \/ \E d \in Frames(socks[c]) : d \in Events /\ d \in Stored' /\ d.seq = m.seq
  <2>1. Held(c) => sock.at \in {"open", "closing"}
    BY <1>0, <1>6 DEF HeldInv, Held
  <2>2. QED
    BY <2>1, <1>2, <1>3, <1>5, <1>6
<1>9. /\ sock.at = "free" => sock.job = Idle
      /\ \A i \in 1..Len(lane') : lane'[i] # c => \E k \in 1..Len(lane) : lane'[i] = lane[k]
      /\ \A i \in 1..Len(lane') : lane'[i] = c => sock.job.at = "append"
  BY <1>1, <1>6
<1>a. sock.job.at # "append"
  BY <1>6 DEF Idle
<1>10. QED
  BY ZenonT(30), <1>a, <1>1, <1>3, <1>4, <1>6, <1>7, <1>8, <1>9, ServerStep

\* The event in hand becomes the log's next.
LEMMA KeepAppended ==
  ASSUME ChannelInv, NEW c \in Connections, Appended(c) PROVE ChannelInv'
<1>0. TypeOK /\ LogInv /\ LaneInv /\ MarkInv /\ HeldInv
  BY DEF ChannelInv
<1>e. PICK e : e = socks[c].job.event
  OBVIOUS
<1>1. lane # <<>> /\ Head(lane) = c /\ lane' = Tail(lane) /\ UNCHANGED <<tabs, ended>>
  BY DEF Appended
<1>2. /\ socks[c].job.at = "append" /\ lane' \in Seq(Connections)
      /\ \A i \in 1..Len(lane') : lane'[i] # c /\ \E k \in 1..Len(lane) : lane'[i] = lane[k]
      /\ \A i, j \in 1..Len(lane') : lane'[i] = lane'[j] => i = j
  BY <1>0, <1>1, HeadLeaves
<1>3. socks[c] \in Sockets /\ socks[c].at # "free"
  BY <1>0, <1>2 DEF TypeOK, LaneInv, Idle
<1>4. CASE /\ ended # "no" /\ UNCHANGED <<log, watermark>>
           /\ socks' = [socks EXCEPT ![c] = Answer(c, SaysEnded)]
  <2> DEFINE sock == Answer(c, SaysEnded)
  <2>0. SaysEnded \in Answers /\ SaysEnded.kind # "ACK"
    BY DEF SaysEnded, Answers
  <2>1. /\ sock \in Sockets /\ sock.job = Idle /\ Frames(sock) \subseteq Frames(socks[c])
        /\ socks[c].at # "closed" => sock.at = socks[c].at
        /\ Elements(sock.replies) \subseteq Elements(socks[c].replies) \cup {SaysEnded}
    BY <1>0, <2>0, AnswerKeeps, AnswerFrames DEF TypeOK
  <2>2. socks' = [socks EXCEPT ![c] = sock]
    BY <1>4
  <2>3. watermark' \subseteq -1..(Len(log) - 1)
    BY <1>0, <1>4 DEF MarkInv
  <2> HIDE DEF sock
  <2>4. QED
    BY ZenonT(30), <1>1, <1>2, <1>4, <2>0, <2>1, <2>2, <2>3, AnsweredStep
<1>5. CASE /\ UNCHANGED <<log, watermark>>
           /\ socks' = [socks EXCEPT ![c] = Goes(c, [at |-> "conflict"])]
  <2> DEFINE sock == Goes(c, [at |-> "conflict"])
  <2>1. [at |-> "conflict"] \in Jobs /\ InHand([at |-> "conflict"]) = {}
    BY DEF Jobs, InHand
  <2>2. /\ sock \in Sockets /\ sock.job = [at |-> "conflict"] /\ sock.at = socks[c].at
        /\ sock.replies = socks[c].replies /\ sock.wire = socks[c].wire
        /\ sock.inbox = socks[c].inbox /\ sock.job.at # "append"
    BY <1>3, <2>1 DEF Goes, Sockets
  <2>3. socks' = [socks EXCEPT ![c] = sock]
    BY <1>5
  <2> HIDE DEF sock
  <2>4. Frames(sock) \subseteq Frames(socks[c])
    BY <2>1, <2>2 DEF Frames
  <2>5. log' \in Seq(Events) /\ LogInv' /\ Stored' = Stored /\ Len(log) <= Len(log')
    BY <1>0, <1>5 DEF TypeOK, LogInv, Stored
  <2>6. watermark' \subseteq -1..(Len(log') - 1)
    BY <1>0, <1>5 DEF MarkInv
  <2>7. Held(c) => /\ sock.at \in {"open", "closing"}
                   /\ \A m \in Elements(sock.replies) :
                        \/ m \in Elements(socks[c].replies)
                        \/ m.kind # "ACK"
                        \/ \E d \in Frames(socks[c]) : d \in Events /\ d \in Stored' /\ d.seq = m.seq
    BY <1>0, <2>2 DEF HeldInv, Held
  <2>8. /\ \A i \in 1..Len(lane') : lane'[i] # c => \E k \in 1..Len(lane) : lane'[i] = lane[k]
        /\ \A i \in 1..Len(lane') : lane'[i] = c => sock.job.at = "append"
        /\ sock.at = "free" => sock.job = Idle
    BY <1>2, <1>3, <2>2
  <2>9. QED
    BY <1>1, <1>2, <2>2, <2>3, <2>4, <2>5, <2>6, <2>7, <2>8, ServerStep
<1>6. CASE /\ watermark' = IF e.seq >= socks[c].job.expected THEN {e.seq} ELSE watermark
           /\ socks' = [socks EXCEPT ![c] = Answer(c, Ack(e.seq))]
           /\ (e \in Stored /\ log' = log) \/ (~Taken(e.seq) /\ log' = Append(log, e))
  BY <1>1, <1>6, <1>e, AcknowledgedStep
<1>7. QED
  BY <1>4, <1>5, <1>6, <1>e DEF Appended

-----------------------------------------------------------------------------
(* The theorems.                                                           *)

\* Every step keeps the invariant.
LEMMA NextKeeps == ChannelInv /\ [Next]_vars => ChannelInv'
<1> SUFFICES ASSUME ChannelInv, [Next]_vars PROVE ChannelInv'
  OBVIOUS
<1>1. CASE UNCHANGED vars
  <2>1. UNCHANGED <<tabs, socks, lane, watermark, log, ended>>
    BY <1>1 DEF vars
  <2>2. (TypeOK /\ LogInv /\ MarkInv /\ LaneInv /\ EndInv)'
    BY <2>1 DEF ChannelInv, TypeOK, LogInv, MarkInv, LaneInv, EndInv
  <2>3. (PageInv /\ FrameInv)'
    BY <2>1 DEF ChannelInv, PageInv, Waiting, IsMade, FrameInv
  <2>4. HeldInv'
    BY <2>1 DEF ChannelInv, HeldInv, Stored
  <2>5. QED
    BY <2>2, <2>3, <2>4 DEF ChannelInv
<1>2. ASSUME NEW p \in Pages, \/ Load(p) \/ Produce(p) \/ Browse(p) \/ Drop(p)
                              \/ AskToEnd(p) \/ GiveUpEnding(p) \/ End(p)
      PROVE ChannelInv'
  BY <1>2, KeepLoad, KeepProduce, KeepRequestTicket, KeepRedeem, KeepRefused, KeepReceive,
     KeepNoticeClose, KeepDrop, KeepAskToEnd, KeepGiveUpEnding, KeepEnd DEF Browse
<1>3. ASSUME NEW c \in Connections, Serve(c) \/ Expire(c) \/ Fail(c) PROVE ChannelInv'
  BY <1>3, KeepArrive, KeepTakeFrame, KeepLatestRead, KeepAppended, KeepConflicted,
     KeepClosed, KeepExpire, KeepFail DEF Serve
<1>4. QED
  BY <1>1, <1>2, <1>3, KeepRestart, KeepTimeIsUp DEF Next

\* The invariant holds of every number of pages and connections and every budget.
THEOREM ChannelHolds == Spec => []ChannelInv
<1>1. Init => ChannelInv
  BY InitChannel
<1>2. ChannelInv /\ [Next]_vars => ChannelInv'
  BY NextKeeps
<1>3. QED
  BY <1>1, <1>2, PTL DEF Spec

\* The interview a candidate ends seals everything the page had produced, the
\* inputs whose number another page had used excepted.
THEOREM EndingIsComplete == Spec => []EndKeepsEverything
<1>1. ChannelInv => EndKeepsEverything
  <2> SUFFICES ASSUME ChannelInv, NEW p \in Pages, ended = p, NEW e \in Made(p),
                      e.seq <= tabs[p].final
               PROVE  e \in Stored \/ NumberTaken(e)
    BY DEF EndKeepsEverything
  <2>1. TypeOK /\ LogInv /\ EndInv
    BY DEF ChannelInv
  <2>2. tabs[p].final < Len(log) /\ tabs[p].final \in Int /\ Len(log) \in Nat
    BY <2>1 DEF EndInv, TypeOK, Tabs
  <2>3. e.seq \in Nat
    BY <2>1 DEF Made, TypeOK, Tabs
  <2>4. Taken(e.seq)
    BY <2>1, <2>2, <2>3, LatestIsLength DEF TypeOK
  <2>5. QED
    BY <2>4 DEF NumberTaken
<1>2. QED
  BY <1>1, ChannelHolds, PTL

-----------------------------------------------------------------------------
(* The channel keeps the promise of InputStream.                           *)

\* When no page numbers or settles an input and nothing is stored, nothing
\* happens to the promise.
LEMMA NothingPromised ==
  ASSUME log' = log, \A p \in Pages : Made(p)' = Made(p) /\ Waiting(p)' = Waiting(p)
  PROVE  UNCHANGED Stream!stream
<1>1. {Made(p)' : p \in Pages} = {Made(p) : p \in Pages}
  OBVIOUS
<1>2. {Made(p)' \ Waiting(p)' : p \in Pages} = {Made(p) \ Waiting(p) : p \in Pages}
  OBVIOUS
<1>3. QED
  BY <1>1, <1>2, Zenon DEF Stream!stream

\* A page that only dials, reads or leaves numbers and settles nothing.
LEMMA SameNumbers ==
  ASSUME NEW p \in Pages, tabs'[p].first = tabs[p].first, tabs'[p].next = tabs[p].next,
         tabs'[p].outbox = tabs[p].outbox
  PROVE  Made(p)' = Made(p) /\ Waiting(p)' = Waiting(p)
BY DEF Made, Waiting

\* An acknowledgement tells the page of one input at most, and that input is
\* on record.
LEMMA ReceiveTells ==
  ASSUME ChannelInv, NEW p \in Pages, Receive(p) PROVE Stream!Step \/ UNCHANGED Stream!stream
<1>0. TypeOK /\ PageInv /\ HeldInv
  BY DEF ChannelInv
<1>c. PICK c : c = tabs[p].sock
  OBVIOUS
<1>m. PICK m : m = Head(socks[c].replies)
  OBVIOUS
<1>1. /\ tabs[p] \in Tabs /\ c \in Connections /\ socks[c] \in Sockets
      /\ socks[c].replies # <<>> /\ tabs[p].outbox \in Seq(Events) /\ log' = log
  BY <1>0, <1>c DEF Receive, TypeOK, Tabs
<1>2. m \in Answers /\ m \in Elements(socks[c].replies)
  BY <1>1, <1>m, TailElements DEF Sockets
<1>3. CASE m.kind # "ACK"
  <2>1. \A q \in Pages : /\ tabs'[q].first = tabs[q].first /\ tabs'[q].next = tabs[q].next
                         /\ tabs'[q].outbox = tabs[q].outbox
    <3>1. tabs' = tabs \/ tabs' = [tabs EXCEPT ![p] = Gone(tabs[p])]
      BY <1>0, <1>3, <1>c, <1>m DEF Receive, TypeOK
    <3>2. /\ Gone(tabs[p]).first = tabs[p].first /\ Gone(tabs[p]).next = tabs[p].next
          /\ Gone(tabs[p]).outbox = tabs[p].outbox
      BY <1>1 DEF Gone, Tabs
    <3>3. QED
      BY <3>1, <3>2, <1>0 DEF TypeOK
  <2>2. QED
    BY <2>1, <1>1, SameNumbers, NothingPromised
<1>4. CASE m.kind = "ACK"
  <2>e. PICK e : e = [page |-> p, seq |-> m.seq]
    OBVIOUS
  <2>1. e \in Stored
    BY <1>0, <1>2, <1>4, <1>c, <1>1, <2>e DEF HeldInv
  <2>2. tabs' = [tabs EXCEPT ![p] = [tabs[p] EXCEPT
                   !.acked  = IF m.seq > @ THEN m.seq ELSE @,
                   !.outbox = Settled(@, m.seq)]]
    BY <1>0, <1>1, <1>4, <1>c, <1>m DEF Receive, TypeOK
  <2>3. /\ tabs'[p].first = tabs[p].first /\ tabs'[p].next = tabs[p].next
        /\ tabs'[p].outbox = Settled(tabs[p].outbox, m.seq)
        /\ \A q \in Pages \ {p} : tabs'[q] = tabs[q]
    BY <1>0, <1>1, <2>2 DEF TypeOK, Tabs
  <2>4. \A q \in Pages : Made(q)' = Made(q)
    BY <2>3 DEF Made
  <2>5. \A q \in Pages \ {p} : Waiting(q)' = Waiting(q)
    BY <2>3 DEF Waiting
  <2>6. /\ Waiting(p) = Elements(tabs[p].outbox)
        /\ Waiting(p)' = Elements(Settled(tabs[p].outbox, m.seq))
    BY <2>3 DEF Waiting, Elements
  <2>7. /\ Waiting(p)' \subseteq Waiting(p)
        /\ \A d \in Waiting(p) : d.seq # m.seq => d \in Waiting(p)'
    BY <2>6, <1>1, SettledBox
  <2>8. \A d \in Waiting(p) : d.seq = m.seq => d = e
    <3>1. \A d \in Waiting(p) : d \in Events /\ d.page = p
      BY <1>0, <1>1 DEF Waiting, PageInv
    <3>2. QED
      BY <3>1, <2>e DEF Events
  <2>9. CASE e \in Waiting(p) /\ e \notin Waiting(p)'
    <3>1. Waiting(p)' = Waiting(p) \ {e}
      BY <2>7, <2>8, <2>9
    <3>2. e \in Made(p)
      <4>1. e.page = p /\ e.seq \in tabs[p].first .. (tabs[p].next - 1) /\ e.seq = m.seq
        BY <1>0, <2>9, <2>e DEF PageInv, IsMade
      <4>2. QED
        BY <4>1, <2>e DEF Made
    <3>3. Made(p) \ Waiting(p)' = (Made(p) \ Waiting(p)) \cup {e}
      BY <3>1, <3>2
    <3>4. {Made(q)' : q \in Pages} = {Made(q) : q \in Pages}
      BY <2>4
    <3>5. UNION {Made(q)' \ Waiting(q)' : q \in Pages}
            = (UNION {Made(q) \ Waiting(q) : q \in Pages}) \cup {e}
      <4>1. ASSUME NEW d
            PROVE  (\E q \in Pages : d \in Made(q)' \ Waiting(q)')
                     <=> ((\E q \in Pages : d \in Made(q) \ Waiting(q)) \/ d = e)
        <5>1. \A q \in Pages \ {p} : Made(q)' \ Waiting(q)' = Made(q) \ Waiting(q)
          BY <2>4, <2>5
        <5>2. Made(p)' \ Waiting(p)' = (Made(p) \ Waiting(p)) \cup {e}
          BY <2>4, <3>3
        <5>3. QED
          BY <5>1, <5>2
      <4>2. QED
        BY <4>1
    <3>6. Stream!Tell(e)
      BY <2>1, <3>4, <3>5, <1>1 DEF Stream!Tell, Stream!OnRecord, Stored
    <3>7. e \in UNION {Made(q)' : q \in Pages}
      BY <3>2, <2>4
    <3>8. QED
      BY <3>6, <3>7 DEF Stream!Step
  <2>10. CASE ~(e \in Waiting(p) /\ e \notin Waiting(p)')
    <3>1. Waiting(p)' = Waiting(p)
      BY <2>7, <2>8, <2>10
    <3>2. \A q \in Pages : Waiting(q)' = Waiting(q)
      BY <3>1, <2>5
    <3>3. QED
      BY <3>2, <2>4, <1>1, NothingPromised
  <2>11. QED
    BY <2>9, <2>10
<1>5. QED
  BY <1>3, <1>4

\* An input the candidate produces is numbered anew.
LEMMA ProduceMakes ==
  ASSUME ChannelInv, NEW p \in Pages, Produce(p) PROVE Stream!Step
<1>0. TypeOK /\ PageInv
  BY DEF ChannelInv
<1>e. PICK e : e = [page |-> p, seq |-> tabs[p].next]
  OBVIOUS
<1>1. /\ tabs[p] \in Tabs /\ tabs[p].first \in Nat /\ tabs[p].next \in Nat
      /\ tabs[p].first <= tabs[p].next /\ tabs[p].outbox \in Seq(Events)
      /\ e \in Events /\ log' = log
  BY <1>0, <1>e DEF TypeOK, Tabs, Events, PageInv, Produce
<1>2. tabs' = [tabs EXCEPT ![p] = [tabs[p] EXCEPT !.next = @ + 1, !.outbox = Append(@, e)]]
  BY <1>0, <1>e DEF Produce, TypeOK
<1>3. /\ tabs'[p].first = tabs[p].first /\ tabs'[p].next = tabs[p].next + 1
      /\ tabs'[p].outbox = Append(tabs[p].outbox, e)
      /\ \A q \in Pages \ {p} : tabs'[q] = tabs[q]
  BY <1>0, <1>1, <1>2 DEF TypeOK, Tabs
<1>4. Made(p)' = Made(p) \cup {e}
  <2>1. \A n : n \in tabs'[p].first .. (tabs'[p].next - 1)
                 <=> (n \in tabs[p].first .. (tabs[p].next - 1) \/ n = tabs[p].next)
    BY <1>1, <1>3
  <2>2. Made(p)' = {[page |-> p, seq |-> n] : n \in tabs'[p].first .. (tabs'[p].next - 1)}
    BY DEF Made
  <2>3. Made(p)' \subseteq Made(p) \cup {e}
    BY <2>1, <2>2, <1>e DEF Made
  <2>4. Made(p) \cup {e} \subseteq Made(p)'
    BY <2>1, <2>2, <1>e DEF Made
  <2>5. QED
    BY <2>3, <2>4
<1>5. Waiting(p)' = Waiting(p) \cup {e}
  <2>1. Waiting(p)' = Elements(Append(tabs[p].outbox, e))
    BY <1>3 DEF Waiting, Elements
  <2>2. Waiting(p) = Elements(tabs[p].outbox)
    BY DEF Waiting, Elements
  <2>3. QED
    BY <2>1, <2>2, <1>1, AppendElements
<1>6. \A q \in Pages \ {p} : Made(q)' = Made(q) /\ Waiting(q)' = Waiting(q)
  BY <1>3 DEF Made, Waiting
<1>7. \A q \in Pages : e \notin Made(q)
  <2> SUFFICES ASSUME NEW q \in Pages, NEW n \in tabs[q].first .. (tabs[q].next - 1),
                      e = [page |-> q, seq |-> n]
               PROVE  FALSE
    BY DEF Made
  <2>1. q = p /\ n = tabs[p].next
    BY <1>e
  <2>2. QED
    BY <2>1, <1>1
<1>8. UNION {Made(q)' : q \in Pages} = (UNION {Made(q) : q \in Pages}) \cup {e}
  <2>1. ASSUME NEW d
        PROVE  (\E q \in Pages : d \in Made(q)') <=> ((\E q \in Pages : d \in Made(q)) \/ d = e)
    BY <1>4, <1>6
  <2>2. QED
    BY <2>1
<1>9. {Made(q)' \ Waiting(q)' : q \in Pages} = {Made(q) \ Waiting(q) : q \in Pages}
  <2>1. Made(p)' \ Waiting(p)' = Made(p) \ Waiting(p)
    BY <1>4, <1>5, <1>7
  <2>2. \A q \in Pages : Made(q)' \ Waiting(q)' = Made(q) \ Waiting(q)
    BY <2>1, <1>6
  <2>3. QED
    BY <2>2
<1>10. e \notin UNION {Made(q) : q \in Pages}
  BY <1>7
<1>11. Stream!Make(e)
  BY <1>1, <1>8, <1>9, <1>10, Zenon DEF Stream!Make
<1>12. e \in UNION {Made(q)' : q \in Pages}
  BY <1>8
<1>13. QED
  BY <1>11, <1>12 DEF Stream!Step

\* What is stored is an input somebody produced, numbered next.
LEMMA AppendedKeeps ==
  ASSUME ChannelInv, NEW c \in Connections, Appended(c)
  PROVE  Stream!Step \/ UNCHANGED Stream!stream
<1>0. TypeOK /\ LogInv /\ LaneInv /\ MarkInv /\ FrameInv
  BY DEF ChannelInv
<1>e. PICK e : e = socks[c].job.event
  OBVIOUS
<1>1. /\ tabs' = tabs /\ lane # <<>> /\ Head(lane) = c
      /\ \/ log' = log
         \/ ~Taken(e.seq) /\ log' = Append(log, e)
  BY <1>e DEF Appended
<1>2. socks[c].job.at = "append"
  BY <1>0, <1>1, HeadLeaves
<1>3. \A q \in Pages : Made(q)' = Made(q) /\ Waiting(q)' = Waiting(q)
  BY <1>1 DEF Made, Waiting
<1>4. CASE log' = log
  BY <1>3, <1>4, NothingPromised
<1>5. CASE ~Taken(e.seq) /\ log' = Append(log, e)
  <2>1. e \in Events /\ e.seq = Len(log)
    BY <1>0, <1>2, <1>5, <1>e, NewIsNext
  <2>2. IsMade(e)
    BY <1>0, <1>2, <1>e DEF FrameInv, Frames, InHand
  <2>3. e = [page |-> e.page, seq |-> e.seq] /\ e.page \in Pages
    BY <2>1 DEF Events
  <2>4. e \in Made(e.page)
    BY <2>2, <2>3 DEF IsMade, Made
  <2>5. {Made(q)' : q \in Pages} = {Made(q) : q \in Pages}
    BY <1>3
  <2>6. {Made(q)' \ Waiting(q)' : q \in Pages} = {Made(q) \ Waiting(q) : q \in Pages}
    BY <1>3
  <2>7. e \in UNION {Made(q) : q \in Pages}
    BY <2>3, <2>4
  <2>8. Stream!Keep(e)
    BY <1>5, <2>1, <2>5, <2>6, <2>7, Zenon DEF Stream!Keep
  <2>9. QED
    BY <2>5, <2>7, <2>8 DEF Stream!Step
<1>6. QED
  BY <1>1, <1>4, <1>5

\* A page that is loaded starts with nothing made and nothing waiting.
LEMMA LoadPromisesNothing ==
  ASSUME ChannelInv, NEW p \in Pages, Load(p) PROVE UNCHANGED Stream!stream
<1>0. TypeOK /\ PageInv /\ LogInv /\ log' = log
  BY DEF ChannelInv, Load
<1>1. tabs[p] = Unborn /\ Made(p) = {} /\ Waiting(p) = {}
  <2>1. tabs[p] = Unborn
    BY <1>0 DEF PageInv, Load
  <2>2. QED
    BY <2>1 DEF Unborn, Made, Waiting
<1>2. PICK failed \in BOOLEAN, closed \in SUBSET {q \in Pages : Live(q)} :
        tabs' = [q \in Pages |->
                   CASE q = p -> [Unborn EXCEPT
                          !.at = "live", !.first = IF failed THEN 0 ELSE Latest + 1,
                          !.next = IF failed THEN 0 ELSE Latest + 1]
                     [] q \in closed -> Gone(tabs[q])
                     [] OTHER -> tabs[q]]
  BY DEF Load
<1>3. p \notin closed
  BY <1>1 DEF Live, Unborn
<1>4. Made(p)' = {} /\ Waiting(p)' = {}
  <2>1. PICK start : start = IF failed THEN 0 ELSE Latest + 1
    OBVIOUS
  <2>2. start \in Nat
    <3>1. Latest = Len(log) - 1 /\ Len(log) \in Nat
      BY <1>0, LatestIsLength DEF TypeOK
    <3>2. QED
      BY <2>1, <3>1
  <2>3. tabs'[p].first = start /\ tabs'[p].next = start /\ tabs'[p].outbox = <<>>
    BY <1>2, <1>3, <2>1 DEF Unborn
  <2>4. QED
    BY <2>2, <2>3 DEF Made, Waiting
<1>5. ASSUME NEW q \in Pages, q # p PROVE Made(q)' = Made(q) /\ Waiting(q)' = Waiting(q)
  <2>1. tabs'[q] \in {Gone(tabs[q]), tabs[q]}
    BY <1>2, <1>5
  <2>2. tabs[q] \in Tabs
    BY <1>0 DEF TypeOK
  <2>3. /\ Gone(tabs[q]).first = tabs[q].first /\ Gone(tabs[q]).next = tabs[q].next
        /\ Gone(tabs[q]).outbox = tabs[q].outbox
    BY <2>2 DEF Gone, Tabs
  <2>4. QED
    BY <2>1, <2>3, SameNumbers
<1>6. QED
  BY <1>0, <1>1, <1>4, <1>5, NothingPromised

\* Every other step of a page leaves what it numbered and what waits alone.
LEMMA PagePromisesNothing ==
  ASSUME ChannelInv, NEW p \in Pages,
         \/ RequestTicket(p) \/ Redeem(p) \/ Refused(p) \/ NoticeClose(p) \/ Drop(p)
         \/ AskToEnd(p) \/ GiveUpEnding(p) \/ End(p)
  PROVE  UNCHANGED Stream!stream
<1>0. tabs \in [Pages -> Tabs] /\ tabs[p] \in Tabs
  BY DEF ChannelInv, TypeOK
<1>1. log' = log
  BY DEF RequestTicket, Redeem, Refused, NoticeClose, Drop, AskToEnd, GiveUpEnding, End
<1>2. /\ tabs'[p].first = tabs[p].first /\ tabs'[p].next = tabs[p].next
      /\ tabs'[p].outbox = tabs[p].outbox
      /\ \A q \in Pages \ {p} : tabs'[q] = tabs[q]
  <2>1. CASE RequestTicket(p) \/ Redeem(p) \/ Refused(p)
    BY <1>0, <2>1 DEF RequestTicket, Redeem, Refused, Tabs
  <2>2. CASE NoticeClose(p) \/ Drop(p)
    BY <1>0, <2>2 DEF NoticeClose, Drop, Tabs
  <2>3. CASE AskToEnd(p) \/ GiveUpEnding(p)
    BY <1>0, <2>3 DEF AskToEnd, GiveUpEnding, Tabs
  <2>4. CASE End(p)
    <3>1. \/ tabs' = [tabs EXCEPT ![p] = [tabs[p] EXCEPT !.end = "no", !.final = -1]]
          \/ tabs' = [tabs EXCEPT ![p] = Gone(tabs[p])]
      BY <1>0, <2>4 DEF End
    <3>2. /\ Gone(tabs[p]).first = tabs[p].first /\ Gone(tabs[p]).next = tabs[p].next
          /\ Gone(tabs[p]).outbox = tabs[p].outbox
      BY <1>0 DEF Gone, Tabs
    <3>3. QED
      BY <1>0, <3>1, <3>2 DEF Tabs
  <2>5. QED
    BY <2>1, <2>2, <2>3, <2>4
<1>3. \A q \in Pages : /\ tabs'[q].first = tabs[q].first /\ tabs'[q].next = tabs[q].next
                       /\ tabs'[q].outbox = tabs[q].outbox
  BY <1>2
<1>4. QED
  BY <1>1, <1>3, SameNumbers, NothingPromised

\* Every step of the channel is a step of the promise, or none.
LEMMA StepIsPromised ==
  ChannelInv /\ [Next]_vars => [Stream!Step]_(Stream!stream)
<1> SUFFICES ASSUME ChannelInv, [Next]_vars PROVE Stream!Step \/ UNCHANGED Stream!stream
  OBVIOUS
<1>1. ASSUME UNCHANGED <<tabs, log>> PROVE UNCHANGED Stream!stream
  <2>1. \A p \in Pages : Made(p)' = Made(p) /\ Waiting(p)' = Waiting(p)
    BY <1>1 DEF Made, Waiting
  <2>2. QED
    BY <1>1, <2>1, NothingPromised
<1>2. CASE UNCHANGED vars
  BY <1>1, <1>2 DEF vars
<1>3. ASSUME NEW p \in Pages, \/ Load(p) \/ Produce(p) \/ Browse(p) \/ Drop(p)
                              \/ AskToEnd(p) \/ GiveUpEnding(p) \/ End(p)
      PROVE  Stream!Step \/ UNCHANGED Stream!stream
  BY <1>3, LoadPromisesNothing, ProduceMakes, ReceiveTells, PagePromisesNothing DEF Browse
<1>4. ASSUME NEW c \in Connections, Serve(c) \/ Expire(c) \/ Fail(c)
      PROVE  Stream!Step \/ UNCHANGED Stream!stream
  <2>1. CASE Appended(c)
    BY <2>1, AppendedKeeps
  <2>2. CASE Arrive(c) \/ TakeFrame(c) \/ LatestRead(c) \/ Conflicted(c) \/ Closed(c)
             \/ Expire(c) \/ Fail(c)
    <3>1. UNCHANGED <<tabs, log>>
      BY <2>2 DEF Arrive, TakeFrame, LatestRead, Conflicted, Closed, Expire, Fail
    <3>2. QED
      BY <3>1, <1>1
  <2>3. QED
    BY <1>4, <2>1, <2>2 DEF Serve
<1>5. CASE Restart
  <2>0. tabs \in [Pages -> Tabs]
    BY DEF ChannelInv, TypeOK
  <2>1. log' = log /\ \A q \in Pages : tabs'[q] = [tabs[q] EXCEPT !.sock = None]
    BY <1>5 DEF Restart
  <2>2. ASSUME NEW q \in Pages
        PROVE  /\ tabs'[q].first = tabs[q].first /\ tabs'[q].next = tabs[q].next
               /\ tabs'[q].outbox = tabs[q].outbox
    <3>1. tabs[q] \in Tabs
      BY <2>0
    <3>2. QED
      BY <2>1, <3>1 DEF Tabs
  <2>3. QED
    BY <2>1, <2>2, SameNumbers, NothingPromised
<1>6. CASE TimeIsUp
  BY <1>1, <1>6 DEF TimeIsUp
<1>7. QED
  BY <1>2, <1>3, <1>4, <1>5, <1>6 DEF Next

\* The channel implements InputStream: the record holds the candidate's inputs
\* numbered from 0 on without a gap, none twice, whatever connections drop,
\* processes restart, pages reload and operations fail; and no page believes an
\* input delivered that is not on record.
THEOREM ChannelKeepsItsPromise == Spec => KeepsItsPromise
<1>1. Init => Stream!Start
  <2> SUFFICES ASSUME Init PROVE Stream!Start
    OBVIOUS
  <2>1. \A p \in Pages : tabs[p].first = 0 /\ tabs[p].next = 0
    BY DEF Init, Unborn
  <2>2. \A p \in Pages : Made(p) = {}
    BY <2>1 DEF Made
  <2>3. (UNION {Made(p) : p \in Pages}) = {}
    BY <2>2
  <2>4. (UNION {Made(p) \ Waiting(p) : p \in Pages}) = {}
    BY <2>2
  <2>5. QED
    BY <2>3, <2>4 DEF Stream!Start, Init
<1>2. QED
  BY <1>1, StepIsPromised, ChannelHolds, PTL DEF Spec, KeepsItsPromise, Stream!Promise

=============================================================================
