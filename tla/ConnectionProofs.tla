-------------------------- MODULE ConnectionProofs --------------------------
(***************************************************************************)
(* Proofs about Connection, for any number of upstreams, channels, frames, *)
(* lost upstreams and any sizes of contents: what reaches an upstream is   *)
(* what the client published, whole, once and in order; it is the upstream *)
(* that the meaning of its key names, unless the key is one word that a    *)
(* pattern of several means; and Ok is written for a method that waits for *)
(* its upstreams only when every one of them has carried it out.           *)
(***************************************************************************)
EXTENDS Connection, SequenceTheorems, WellFoundedInduction, TLAPS

Kinds == {"amqp", "startOk", "tuneOk", "open", "close", "closeOk", "heartbeat", "bind", "purge",
          "unsupported", "publish", "header", "body", "none"}
Frames == [ch : Channel \union {0}, kind : Kinds, id : Nat, n : Nat, key : Key \union {<<>>}]

\* The publishes of the client, by their method frames.
Publishes == {methods[i] : i \in {j \in DOMAIN methods : methods[j].kind = "publish"}}

\* The frames of a publish, numbered from its method on: the header is the first of its content.
Piece(m, k) ==
  IF k = 0 THEN m
  ELSE IF k = 1 THEN Frame(m.ch, "header", m.id, m.n, <<>>)
  ELSE Frame(m.ch, "body", m.id, k - 1, <<>>)

\* What the client has still to send of a publish of which the k-th frame was its last.
Remains(m, k) ==
  /\ Len(todo[m.ch]) = m.n + 1 - k
  /\ \A j \in 1 .. m.n + 1 - k : todo[m.ch][j] = Piece(m, k + j)

\* After the i-th frame on the way the next one of its channel is the (k+1)-th of the publish m;
\* if there is none, the client has still to send it or has hung up.
After(m, k, i) ==
  \/ \E j \in DOMAIN in : /\ j > i /\ in[j] = Piece(m, k + 1)
                          /\ \A l \in DOMAIN in : i < l /\ l < j => in[l].ch # m.ch
  \/ /\ \A l \in DOMAIN in : l > i => in[l].ch # m.ch
     /\ open => Remains(m, k)

WireTypes ==
  /\ methods \in Seq(Frames) /\ in \in Seq(Frames) /\ cur \in Frames
  /\ todo \in [Channel -> Seq(Frames)]
  /\ open \in BOOLEAN
  /\ \A i \in DOMAIN methods : methods[i].id = i
  /\ \A i \in DOMAIN methods : methods[i].kind = "publish" => methods[i].ch \in Channel

\* Every frame of a channel that is on its way is a method of the client or a piece of a publish.
GenuineInv ==
  \A i \in DOMAIN in :
    /\ in[i].ch = 0 => in[i].kind # "publish"
    /\ in[i].ch # 0 => /\ in[i].id \in DOMAIN methods
                       /\ \/ in[i] = methods[in[i].id]
                          \/ \E m \in Publishes : \E k \in 1 .. m.n + 1 : in[i] = Piece(m, k)

\* What the client has to send on a channel is the rest of a publish.
TodoInv ==
  \A c \in Channel : todo[c] # <<>> =>
    \E m \in Publishes : m.ch = c /\ \E k \in 0 .. m.n : Remains(m, k)

\* A piece is followed on its channel by the next one of the same publish.
ContentInv ==
  \A m \in Publishes : \A k \in 0 .. m.n : \A i \in DOMAIN in : in[i] = Piece(m, k) => After(m, k, i)

\* recv has the first pieces of its content, and the next one comes next.
Reads(m) ==
  \E k \in 0 .. m.n : /\ cur = m /\ got \in Seq(Frames) /\ Len(got) = k
                      /\ \A j \in 1 .. k : got[j] = Piece(m, j)
                      /\ After(m, k, 0)
RecvInv == pc = "content" => \E m \in Publishes : Reads(m)

\* Publishes come to the upstreams in the order in which the client sent them.
OrderInv ==
  /\ \A i, j \in DOMAIN in :
       i < j /\ in[i].kind = "publish" /\ in[j].kind = "publish" => in[i].id < in[j].id
  /\ \A i, j \in DOMAIN published : i < j => published[i].id < published[j].id

\* What came to an upstream was sent before what recv reads, and that before what is on its way.
BehindInv ==
  /\ \A i \in DOMAIN published, j \in DOMAIN in :
       in[j].kind = "publish" => published[i].id < in[j].id
  /\ pc = "content" => \A j \in DOMAIN in : in[j].kind = "publish" => cur.id < in[j].id
  /\ pc = "content" => \A i \in DOMAIN published : published[i].id < cur.id

\* What came to an upstream is a publish with its own content.
WholeInv ==
  \A i \in DOMAIN published :
    /\ published[i].id \in DOMAIN methods
    /\ published[i].content = Content(methods[published[i].id])

Messages == [id : Nat, up : Upstream, content : Seq(Frames)]

WireInv ==
  /\ WireTypes /\ published \in Seq(Messages)
  /\ GenuineInv /\ TodoInv /\ ContentInv /\ RecvInv
  /\ OrderInv /\ BehindInv /\ WholeInv

-----------------------------------------------------------------------------
(* The pieces of a publish.                                                *)

LEMMA FrameType ==
  ASSUME NEW c \in Channel \union {0}, NEW kind \in Kinds, NEW id \in Nat, NEW n \in Nat,
         NEW key \in Key \union {<<>>}
  PROVE  /\ Frame(c, kind, id, n, key) \in Frames
         /\ Frame(c, kind, id, n, key).ch = c /\ Frame(c, kind, id, n, key).kind = kind
         /\ Frame(c, kind, id, n, key).id = id /\ Frame(c, kind, id, n, key).n = n
         /\ Frame(c, kind, id, n, key).key = key
BY DEF Frame, Frames

\* A piece tells its publish and its place.
LEMMA PieceTells ==
  ASSUME NEW m \in Frames, NEW k \in 0 .. m.n + 1
  PROVE  /\ Piece(m, k) \in Frames /\ Piece(m, k).ch = m.ch /\ Piece(m, k).id = m.id
         /\ k = 0 => Piece(m, k) = m
         /\ k # 0 => Piece(m, k).kind = IF k = 1 THEN "header" ELSE "body"
         /\ k # 0 => Piece(m, k).n = IF k = 1 THEN m.n ELSE k - 1
<1>1. m.ch \in Channel \union {0} /\ m.id \in Nat /\ m.n \in Nat /\ k \in Nat
  BY DEF Frames
<1>2. CASE k = 0
  BY <1>1, <1>2 DEF Piece
<1>3. CASE k = 1
  <2>1. "header" \in Kinds /\ <<>> \in Key \union {<<>>} /\ k # 0
    BY <1>3 DEF Kinds
  <2>2. Piece(m, k) = Frame(m.ch, "header", m.id, m.n, <<>>)
    BY <1>3, <2>1 DEF Piece
  <2>3. /\ Piece(m, k) \in Frames /\ Piece(m, k).ch = m.ch /\ Piece(m, k).id = m.id
        /\ Piece(m, k).kind = "header" /\ Piece(m, k).n = m.n
    BY <1>1, <2>1, <2>2 DEF Frame, Frames
  <2>4. QED
    BY <1>3, <2>1, <2>3
<1>4. CASE k > 1
  <2>1. k - 1 \in Nat /\ "body" \in Kinds /\ <<>> \in Key \union {<<>>} /\ k # 0 /\ k # 1
    BY <1>1, <1>4 DEF Kinds
  <2>2. Piece(m, k) = Frame(m.ch, "body", m.id, k - 1, <<>>)
    BY <2>1 DEF Piece
  <2>3. /\ Piece(m, k) \in Frames /\ Piece(m, k).ch = m.ch /\ Piece(m, k).id = m.id
        /\ Piece(m, k).kind = "body" /\ Piece(m, k).n = k - 1
    BY <1>1, <2>1, <2>2 DEF Frame, Frames
  <2>4. QED
    BY <2>1, <2>3
<1>5. QED
  BY <1>1, <1>2, <1>3, <1>4

\* No two pieces of a publish are the same.
LEMMA PieceOnce ==
  ASSUME NEW m \in Frames, m.kind = "publish", NEW j \in 0 .. m.n + 1, NEW k \in 0 .. m.n + 1,
         Piece(m, j) = Piece(m, k)
  PROVE  j = k
<1>1. m.n \in Nat
  BY DEF Frames
<1>2. /\ j = 0 => Piece(m, j).kind = "publish"
      /\ j # 0 => Piece(m, j).kind = IF j = 1 THEN "header" ELSE "body"
      /\ j # 0 => Piece(m, j).n = IF j = 1 THEN m.n ELSE j - 1
  BY PieceTells
<1>3. /\ k = 0 => Piece(m, k).kind = "publish"
      /\ k # 0 => Piece(m, k).kind = IF k = 1 THEN "header" ELSE "body"
      /\ k # 0 => Piece(m, k).n = IF k = 1 THEN m.n ELSE k - 1
  BY PieceTells
<1>4. QED
  BY <1>1, <1>2, <1>3

\* The content of a publish is its pieces.
LEMMA ContentPieces ==
  ASSUME NEW m \in Frames
  PROVE  /\ Content(m) \in Seq(Frames) /\ Len(Content(m)) = m.n + 1
         /\ \A j \in 1 .. m.n + 1 : Content(m)[j] = Piece(m, j)
<1> DEFINE h == <<Frame(m.ch, "header", m.id, m.n, <<>>)>>
           b == [i \in 1 .. m.n |-> Frame(m.ch, "body", m.id, i, <<>>)]
<1>1. /\ m.n \in Nat /\ m.ch \in Channel \union {0} /\ m.id \in Nat
      /\ "header" \in Kinds /\ "body" \in Kinds /\ <<>> \in Key \union {<<>>}
  BY DEF Frames, Kinds
<1>2. /\ Frame(m.ch, "header", m.id, m.n, <<>>) \in Frames
      /\ \A i \in 1 .. m.n : Frame(m.ch, "body", m.id, i, <<>>) \in Frames
  <2>1. \A i \in 1 .. m.n : i \in Nat
    BY <1>1
  <2>2. QED
    BY <1>1, <2>1, FrameType
<1>3. /\ h \in Seq(Frames) /\ Len(h) = 1 /\ h[1] = Frame(m.ch, "header", m.id, m.n, <<>>)
  BY <1>2
<1>4. /\ b \in Seq(Frames) /\ Len(b) = m.n
      /\ \A i \in 1 .. m.n : b[i] = Frame(m.ch, "body", m.id, i, <<>>)
  BY <1>1, <1>2
<1>5. Content(m) = h \o b
  BY DEF Content
<1> HIDE DEF h, b
<1>6. /\ h \o b \in Seq(Frames) /\ Len(h \o b) = m.n + 1
      /\ \A j \in 1 .. m.n + 1 : (h \o b)[j] = IF j <= 1 THEN h[j] ELSE b[j - 1]
  <2>1. /\ h \o b \in Seq(Frames) /\ Len(h \o b) = Len(h) + Len(b)
        /\ \A j \in 1 .. Len(h) + Len(b) :
             (h \o b)[j] = IF j <= Len(h) THEN h[j] ELSE b[j - Len(h)]
    BY <1>3, <1>4, ConcatProperties, Zenon
  <2>2. Len(h) + Len(b) = m.n + 1
    BY <1>1, <1>3, <1>4
  <2>3. QED
    BY <1>3, <2>1, <2>2
<1>7. ASSUME NEW j \in 1 .. m.n + 1 PROVE (h \o b)[j] = Piece(m, j)
  <2>1. CASE j = 1
    BY <1>1, <1>3, <1>6, <2>1 DEF Piece
  <2>2. CASE j # 1
    <3>1. j - 1 \in 1 .. m.n /\ j # 0 /\ ~(j <= 1)
      BY <1>1, <2>2
    <3>2. QED
      BY <1>4, <1>6, <2>2, <3>1 DEF Piece
  <2>3. QED
    BY <2>1, <2>2
<1>8. QED
  BY <1>5, <1>6, <1>7

\* A publish is known by its number.
LEMMA PublishesAre ==
  ASSUME WireTypes
  PROVE  /\ \A m \in Publishes : /\ m \in Frames /\ m.kind = "publish" /\ m.ch \in Channel
                                 /\ m.id \in DOMAIN methods /\ m = methods[m.id]
                                 /\ m.n \in Nat /\ m.id \in Nat /\ m.ch # 0
         /\ \A i \in DOMAIN methods : methods[i].kind = "publish" => methods[i] \in Publishes
<1>1. \A i \in DOMAIN methods : methods[i] \in Frames /\ methods[i].id = i
  BY DEF WireTypes
<1>2. ASSUME NEW m \in Publishes
      PROVE  /\ m \in Frames /\ m.kind = "publish" /\ m.ch \in Channel
             /\ m.id \in DOMAIN methods /\ m = methods[m.id]
  BY <1>1 DEF Publishes, WireTypes
<1>3. \A m \in Frames : m.n \in Nat /\ m.id \in Nat
  BY DEF Frames
<1>4. QED
  BY <1>2, <1>3, ConnectionAssumption DEF Publishes

-----------------------------------------------------------------------------
(* What comes next on a channel.                                           *)

\* A frame more on the way is of another channel, or the one that has to come.
LEMMA AfterAppend ==
  ASSUME WireTypes, NEW f \in Frames, in' = Append(in, f),
         NEW m \in Frames, m.ch \in Channel, NEW k \in 0 .. m.n, NEW i \in 0 .. Len(in),
         After(m, k, i),
         \/ f.ch # m.ch /\ (open' => open /\ todo'[m.ch] = todo[m.ch])
         \/ open /\ (Remains(m, k) => f = Piece(m, k + 1))
  PROVE  After(m, k, i)'
<1> DEFINE n == Len(in)
<1>1. /\ n \in Nat /\ DOMAIN in = 1 .. n /\ DOMAIN in' = 1 .. n + 1 /\ in'[n + 1] = f
      /\ \A l \in 1 .. n : in'[l] = in[l]
  BY DEF WireTypes
<1> HIDE DEF n
<1>2. ASSUME NEW j \in DOMAIN in, j > i, in[j] = Piece(m, k + 1),
             \A l \in DOMAIN in : i < l /\ l < j => in[l].ch # m.ch
      PROVE  After(m, k, i)'
  <2>1. j \in DOMAIN in' /\ in'[j] = Piece(m, k + 1)
    BY <1>1, <1>2
  <2>2. \A l \in DOMAIN in' : i < l /\ l < j => in'[l].ch # m.ch
    BY <1>1, <1>2
  <2>3. QED
    BY <1>2, <2>1, <2>2 DEF After
<1>3. CASE (\A l \in DOMAIN in : l > i => in[l].ch # m.ch) /\ (open => Remains(m, k))
  <2>1. CASE f.ch # m.ch /\ (open' => open /\ todo'[m.ch] = todo[m.ch])
    <3>1. \A l \in DOMAIN in' : l > i => in'[l].ch # m.ch
      BY <1>1, <1>3, <2>1
    <3>2. open' => Remains(m, k)'
      BY <1>3, <2>1 DEF Remains
    <3>3. QED
      BY <3>1, <3>2 DEF After
  <2>2. CASE open /\ (Remains(m, k) => f = Piece(m, k + 1))
    <3>1. n + 1 \in DOMAIN in' /\ in'[n + 1] = Piece(m, k + 1) /\ n + 1 > i
      BY <1>1, <1>3, <2>2 DEF n
    <3>2. \A l \in DOMAIN in' : i < l /\ l < n + 1 => in'[l].ch # m.ch
      BY <1>1, <1>3
    <3>3. QED
      BY <3>1, <3>2 DEF After
  <2>3. QED
    BY <2>1, <2>2
<1>4. QED
  BY <1>2, <1>3 DEF After

\* A frame less on the way: everything is one nearer.
LEMMA AfterTail ==
  ASSUME WireTypes, in # <<>>, in' = Tail(in), UNCHANGED <<todo, open>>,
         NEW m \in Frames, NEW k \in Nat, NEW i \in Nat \ {0}, After(m, k, i)
  PROVE  After(m, k, i - 1)'
<1> DEFINE n == Len(in)
<1>1. /\ n \in Nat \ {0} /\ DOMAIN in = 1 .. n /\ DOMAIN in' = 1 .. n - 1
      /\ \A l \in 1 .. n - 1 : in'[l] = in[l + 1]
  BY DEF WireTypes
<1> HIDE DEF n
<1>2. ASSUME NEW j \in DOMAIN in, j > i, in[j] = Piece(m, k + 1),
             \A l \in DOMAIN in : i < l /\ l < j => in[l].ch # m.ch
      PROVE  After(m, k, i - 1)'
  <2>1. j - 1 \in 1 .. n - 1 /\ (j - 1) + 1 = j /\ j - 1 > i - 1
    BY <1>1, <1>2
  <2>2. in'[j - 1] = Piece(m, k + 1)
    BY <1>1, <1>2, <2>1
  <2>3. ASSUME NEW l \in DOMAIN in', i - 1 < l, l < j - 1 PROVE in'[l].ch # m.ch
    <3>1. l + 1 \in DOMAIN in /\ i < l + 1 /\ l + 1 < j /\ in'[l] = in[l + 1]
      BY <1>1, <1>2, <2>3
    <3>2. QED
      BY <1>2, <3>1
  <2>4. QED
    BY <1>1, <2>1, <2>2, <2>3 DEF After
<1>3. CASE (\A l \in DOMAIN in : l > i => in[l].ch # m.ch) /\ (open => Remains(m, k))
  <2>1. ASSUME NEW l \in DOMAIN in', l > i - 1 PROVE in'[l].ch # m.ch
    <3>1. l + 1 \in DOMAIN in /\ l + 1 > i /\ in'[l] = in[l + 1]
      BY <1>1, <2>1
    <3>2. QED
      BY <1>3, <3>1
  <2>2. open' => Remains(m, k)'
    BY <1>3 DEF Remains
  <2>3. QED
    BY <2>1, <2>2 DEF After
<1>4. QED
  BY <1>2, <1>3 DEF After

\* The first frame, if it is of the channel, is the one that has to come.
LEMMA AfterHead ==
  ASSUME WireTypes, in # <<>>, NEW m \in Frames, NEW k \in Nat, After(m, k, 0), in[1].ch = m.ch
  PROVE  in[1] = Piece(m, k + 1)
<1>1. 1 \in DOMAIN in /\ DOMAIN in = 1 .. Len(in) /\ Len(in) \in Nat
  BY DEF WireTypes
<1>2. PICK j \in DOMAIN in : /\ in[j] = Piece(m, k + 1)
                             /\ \A l \in DOMAIN in : 0 < l /\ l < j => in[l].ch # m.ch
  BY <1>1 DEF After
<1>3. j = 1
  BY <1>1, <1>2
<1>4. QED
  BY <1>2, <1>3

\* Nothing else changes it but that the client hangs up.
LEMMA AfterStays ==
  ASSUME in' = in, NEW m \in Frames, NEW k \in Nat, NEW i \in Nat, After(m, k, i),
         open' => open /\ todo'[m.ch] = todo[m.ch]
  PROVE  After(m, k, i)'
BY DEF After, Remains

-----------------------------------------------------------------------------
(* The steps that leave the frames on their way alone.                     *)

LEMMA StaysStep ==
  ASSUME WireInv, UNCHANGED <<in, methods, published>>, cur' \in Frames, open' \in BOOLEAN,
         open' => open,
         todo' = todo \/ (open' = FALSE /\ todo' = [c \in Channel |-> <<>>]),
         pc' = "content" => pc = "content" /\ UNCHANGED <<cur, got>>
  PROVE  WireInv'
<1>1. /\ WireTypes /\ GenuineInv /\ TodoInv /\ ContentInv /\ RecvInv /\ OrderInv /\ BehindInv
      /\ WholeInv /\ published \in Seq(Messages)
  BY DEF WireInv
<1>2. Publishes' = Publishes
  BY DEF Publishes
<1>3. todo' \in [Channel -> Seq(Frames)]
  <2>1. <<>> \in Seq(Frames) /\ todo \in [Channel -> Seq(Frames)]
    BY <1>1 DEF WireTypes
  <2>2. [c \in Channel |-> <<>>] \in [Channel -> Seq(Frames)]
    BY <2>1
  <2>3. QED
    BY <2>1, <2>2
<1>4. WireTypes'
  BY <1>1, <1>3 DEF WireTypes
<1>5. ASSUME NEW m \in Publishes, NEW k \in 0 .. m.n, NEW i \in Nat, After(m, k, i)
      PROVE  After(m, k, i)'
  <2>1. m \in Frames /\ m.ch \in Channel /\ k \in Nat
    BY <1>1, PublishesAre
  <2>2. open' => open /\ todo'[m.ch] = todo[m.ch]
    OBVIOUS
  <2>3. QED
    BY <1>5, <2>1, <2>2, AfterStays
<1>6. GenuineInv'
  BY <1>1, <1>2 DEF GenuineInv
<1>7. TodoInv'
  <2>1. CASE todo' = todo
    BY <1>1, <1>2, <2>1 DEF TodoInv, Remains
  <2>2. CASE todo' = [c \in Channel |-> <<>>]
    BY <2>2 DEF TodoInv
  <2>3. QED
    BY <2>1, <2>2
<1>8. ContentInv'
  <2>1. SUFFICES ASSUME NEW m \in Publishes, NEW k \in 0 .. m.n, NEW i \in DOMAIN in,
                        in[i] = Piece(m, k)
                 PROVE  After(m, k, i)'
    BY <1>2 DEF ContentInv
  <2>2. i \in Nat /\ After(m, k, i)
    BY <1>1, <2>1 DEF ContentInv, WireTypes
  <2>3. QED
    BY <1>5, <2>2
<1>9. RecvInv'
  <2>1. SUFFICES ASSUME pc' = "content" PROVE RecvInv'
    BY DEF RecvInv
  <2>2. PICK m \in Publishes : Reads(m)
    BY <1>1, <2>1 DEF RecvInv
  <2>3. PICK k \in 0 .. m.n :
          /\ cur = m /\ got \in Seq(Frames) /\ Len(got) = k
          /\ \A j \in 1 .. k : got[j] = Piece(m, j)
          /\ After(m, k, 0)
    BY <2>2 DEF Reads
  <2>4. After(m, k, 0)'
    BY <1>5, <2>3
  <2>5. m \in Publishes' /\ cur' = m /\ got' = got
    BY <1>2, <2>1, <2>3
  <2>6. QED
    BY <2>3, <2>4, <2>5 DEF RecvInv, Reads
<1>10. OrderInv' /\ WholeInv'
  BY <1>1 DEF OrderInv, WholeInv
<1>11. BehindInv'
  BY <1>1 DEF BehindInv
<1>12. QED
  BY <1>1, <1>4, <1>6, <1>7, <1>8, <1>9, <1>10, <1>11 DEF WireInv

-----------------------------------------------------------------------------
(* The steps that take the first frame.                                    *)

LEMMA TailKeeps ==
  ASSUME WireInv, in # <<>>, in' = Tail(in), UNCHANGED <<methods, todo, open>>, cur' \in Frames
  PROVE  /\ WireTypes' /\ GenuineInv' /\ TodoInv' /\ ContentInv'
         /\ \A j \in DOMAIN in' : j \in Nat /\ j + 1 \in DOMAIN in /\ in'[j] = in[j + 1]
         /\ 1 \in DOMAIN in /\ in[1] = Head(in) /\ in[1] \in Frames
<1>1. WireTypes /\ GenuineInv /\ TodoInv /\ ContentInv
  BY DEF WireInv
<1>2. Publishes' = Publishes
  BY DEF Publishes
<1>3. /\ \A j \in DOMAIN in' : j \in Nat /\ j + 1 \in DOMAIN in /\ in'[j] = in[j + 1]
      /\ 1 \in DOMAIN in /\ in[1] = Head(in) /\ in[1] \in Frames /\ in' \in Seq(Frames)
  BY <1>1 DEF WireTypes
<1>4. WireTypes'
  BY <1>1, <1>3 DEF WireTypes
<1>5. GenuineInv'
  <2>1. SUFFICES ASSUME NEW j \in DOMAIN in'
                 PROVE  /\ in'[j].ch = 0 => in'[j].kind # "publish"
                        /\ in'[j].ch # 0 =>
                             /\ in'[j].id \in DOMAIN methods
                             /\ \/ in'[j] = methods[in'[j].id]
                                \/ \E m \in Publishes : \E k \in 1 .. m.n + 1 : in'[j] = Piece(m, k)
    BY <1>2 DEF GenuineInv
  <2>2. j + 1 \in DOMAIN in /\ in'[j] = in[j + 1]
    BY <1>3
  <2>3. QED
    BY <1>1, <2>2 DEF GenuineInv
<1>6. TodoInv'
  BY <1>1, <1>2 DEF TodoInv, Remains
<1>7. ContentInv'
  <2>1. SUFFICES ASSUME NEW m \in Publishes, NEW k \in 0 .. m.n, NEW i \in DOMAIN in',
                        in'[i] = Piece(m, k)
                 PROVE  After(m, k, i)'
    BY <1>2 DEF ContentInv
  <2>2. i \in Nat /\ i + 1 \in DOMAIN in /\ in[i + 1] = Piece(m, k)
    BY <1>3, <2>1
  <2>3. After(m, k, i + 1)
    BY <1>1, <2>2 DEF ContentInv
  <2>4. m \in Frames /\ k \in Nat /\ i + 1 \in Nat \ {0}
    BY <1>1, <2>2, PublishesAre
  <2>5. After(m, k, (i + 1) - 1)'
    BY <1>1, <2>3, <2>4, AfterTail
  <2>6. (i + 1) - 1 = i
    BY <2>2
  <2>7. QED
    BY <2>5, <2>6
<1>8. QED
  BY <1>3, <1>4, <1>5, <1>6, <1>7

\* The order of what is left, and of what recv reads if that does not change.
LEMMA TailOrder ==
  ASSUME WireInv, in # <<>>, in' = Tail(in), UNCHANGED <<methods, todo, open, published>>,
         cur' \in Frames, pc' = "content" => pc = "content" /\ cur' = cur
  PROVE  OrderInv' /\ BehindInv' /\ WholeInv'
<1>1. OrderInv /\ BehindInv /\ WholeInv
  BY DEF WireInv
<1>2. \A j \in DOMAIN in' : j \in Nat /\ j + 1 \in DOMAIN in /\ in'[j] = in[j + 1]
  BY TailKeeps
<1>3. \A i, j \in DOMAIN in' : i < j => i + 1 < j + 1
  BY <1>2
<1>4. OrderInv'
  BY <1>1, <1>2, <1>3 DEF OrderInv
<1>5. BehindInv'
  BY <1>1, <1>2 DEF BehindInv
<1>6. QED
  BY <1>1, <1>4, <1>5 DEF WholeInv

\* A frame that is dealt with or dropped.
LEMMA TailStep ==
  ASSUME WireInv, in # <<>>, in' = Tail(in), UNCHANGED <<methods, todo, open, published>>,
         cur' \in Frames, pc' # "content"
  PROVE  WireInv'
<1>1. WireTypes' /\ GenuineInv' /\ TodoInv' /\ ContentInv'
  BY TailKeeps
<1>2. OrderInv' /\ BehindInv' /\ WholeInv'
  BY TailOrder
<1>3. RecvInv' /\ published' \in Seq(Messages)
  BY DEF RecvInv, WireInv
<1>4. QED
  BY <1>1, <1>2, <1>3 DEF WireInv

\* A publish: its content is next on its channel.
LEMMA PublishStep ==
  ASSUME WireInv, in # <<>>, in' = Tail(in), UNCHANGED <<methods, todo, open, published>>,
         Head(in).ch # 0, Head(in).kind = "publish",
         pc' = "content", cur' = Head(in), got' = <<>>
  PROVE  WireInv'
<1>1. /\ WireTypes /\ GenuineInv /\ ContentInv /\ OrderInv /\ BehindInv /\ WholeInv
      /\ published \in Seq(Messages)
  BY DEF WireInv
<1>2. 1 \in DOMAIN in /\ in[1] = Head(in) /\ in[1] \in Frames
  BY <1>1 DEF WireTypes
<1>3. cur' \in Frames
  BY <1>2
<1>4. /\ WireTypes' /\ GenuineInv' /\ TodoInv' /\ ContentInv'
      /\ \A j \in DOMAIN in' : j \in Nat /\ j + 1 \in DOMAIN in /\ in'[j] = in[j + 1]
  BY <1>3, TailKeeps
<1>5. in[1] \in Publishes
  <2>1. in[1].id \in DOMAIN methods /\ in[1].kind = "publish"
    BY <1>1, <1>2 DEF GenuineInv
  <2>2. ASSUME NEW m \in Publishes, NEW k \in 1 .. m.n + 1, in[1] = Piece(m, k) PROVE FALSE
    <3>1. m \in Frames /\ k \in 0 .. m.n + 1 /\ k # 0
      BY <1>1, PublishesAre
    <3>2. Piece(m, k).kind = "header" \/ Piece(m, k).kind = "body"
      BY <3>1, PieceTells
    <3>3. QED
      BY <2>1, <2>2, <3>2
  <2>3. in[1] = methods[in[1].id]
    BY <1>1, <1>2, <2>2 DEF GenuineInv
  <2>4. QED
    BY <1>1, <2>1, <2>3, PublishesAre
<1>6. \A m \in Publishes : m = in[1] => After(m, 0, 0)'
  <2>1. SUFFICES ASSUME NEW m \in Publishes, m = in[1] PROVE After(m, 0, 0)'
    OBVIOUS
  <2>2. m \in Frames /\ m.n \in Nat /\ 0 \in 0 .. m.n
    BY <1>1, PublishesAre
  <2>3. Piece(m, 0) = m
    BY DEF Piece
  <2>4. After(m, 0, 1)
    BY <1>1, <1>2, <2>1, <2>2, <2>3 DEF ContentInv
  <2>5. 1 \in Nat \ {0} /\ 1 - 1 = 0 /\ 0 \in Nat
    OBVIOUS
  <2>6. After(m, 0, 1 - 1)'
    BY <1>1, <2>2, <2>4, <2>5, AfterTail
  <2>7. QED
    BY <2>5, <2>6
<1>7. RecvInv'
  <2>1. PICK m \in Publishes : m = in[1]
    BY <1>5
  <2>2. Publishes' = Publishes
    BY DEF Publishes
  <2>3. m.n \in Nat
    BY <1>1, PublishesAre
  <2>4. /\ 0 \in 0 .. m.n /\ cur' = m /\ got' \in Seq(Frames) /\ Len(got') = 0
        /\ \A j \in 1 .. 0 : got'[j] = Piece(m, j)
    BY <1>2, <2>1, <2>3
  <2>5. After(m, 0, 0)'
    BY <1>6, <2>1
  <2>6. Reads(m)'
    BY <2>4, <2>5 DEF Reads
  <2>7. QED
    BY <2>2, <2>6 DEF RecvInv
<1>8. \A i, j \in DOMAIN in' : i < j => i + 1 < j + 1
  BY <1>4
<1>9. OrderInv'
  BY <1>1, <1>4, <1>8 DEF OrderInv
<1>10. BehindInv'
  <2>1. \A i \in DOMAIN published, j \in DOMAIN in' :
          in'[j].kind = "publish" => published[i].id < in'[j].id
    BY <1>1, <1>4 DEF BehindInv
  <2>2. ASSUME NEW j \in DOMAIN in', in'[j].kind = "publish" PROVE cur'.id < in'[j].id
    <3>1. j + 1 \in DOMAIN in /\ in'[j] = in[j + 1] /\ 1 < j + 1
      BY <1>4, <1>1 DEF WireTypes
    <3>2. QED
      BY <1>1, <1>2, <2>2, <3>1 DEF OrderInv
  <2>3. \A i \in DOMAIN published : published[i].id < cur'.id
    BY <1>1, <1>2 DEF BehindInv
  <2>4. QED
    BY <2>1, <2>2, <2>3 DEF BehindInv
<1>11. WholeInv'
  BY <1>1 DEF WholeInv
<1>12. QED
  BY <1>1, <1>4, <1>7, <1>9, <1>10, <1>11 DEF WireInv

\* What recv knows of the next frame of its channel.
LEMMA ReadsNext ==
  ASSUME WireInv, pc = "content", in # <<>>, Head(in).ch = cur.ch
  PROVE  /\ cur \in Publishes /\ got \in Seq(Frames) /\ Len(got) \in 0 .. cur.n
         /\ Append(got, Head(in)) \in Seq(Frames)
         /\ Len(Append(got, Head(in))) = Len(got) + 1
         /\ \A j \in 1 .. Len(got) + 1 : Append(got, Head(in))[j] = Piece(cur, j)
         /\ Whole(Append(got, Head(in))) <=> Len(got) = cur.n
         /\ 1 \in DOMAIN in /\ in[1] = Piece(cur, Len(got) + 1)
<1>1. WireTypes /\ RecvInv
  BY DEF WireInv
<1>2. PICK m \in Publishes : Reads(m)
  BY <1>1 DEF RecvInv
<1>3. PICK k \in 0 .. m.n :
        /\ cur = m /\ got \in Seq(Frames) /\ Len(got) = k
        /\ \A j \in 1 .. k : got[j] = Piece(m, j)
        /\ After(m, k, 0)
  BY <1>2 DEF Reads
<1>4. m \in Frames /\ m.n \in Nat /\ k \in Nat
  BY <1>1, PublishesAre
<1>5. 1 \in DOMAIN in /\ in[1] = Head(in) /\ in[1] \in Frames
  BY <1>1 DEF WireTypes
<1>6. in[1] = Piece(m, k + 1)
  BY <1>1, <1>3, <1>4, <1>5, AfterHead
<1> DEFINE fs == Append(got, Head(in))
<1>7. /\ fs \in Seq(Frames) /\ Len(fs) = k + 1 /\ fs[k + 1] = Piece(m, k + 1)
      /\ \A j \in 1 .. k : fs[j] = got[j]
  BY <1>3, <1>4, <1>5, <1>6
<1> HIDE DEF fs
<1>8. \A j \in 1 .. k + 1 : fs[j] = Piece(m, j)
  BY <1>3, <1>4, <1>7
<1>9. fs[1].n = m.n
  <2>1. 1 \in 0 .. m.n + 1 /\ 1 \in 1 .. k + 1
    BY <1>4
  <2>2. Piece(m, 1).n = m.n
    BY <1>4, <2>1, PieceTells
  <2>3. QED
    BY <1>8, <2>1, <2>2
<1>10. Whole(fs) <=> k = m.n
  <2>1. fs # <<>>
    BY <1>4, <1>7
  <2>2. Whole(fs) <=> Len(fs) > m.n
    BY <1>9, <2>1 DEF Whole
  <2>3. QED
    BY <1>4, <1>7, <2>2
<1>11. QED
  BY <1>3, <1>5, <1>6, <1>7, <1>8, <1>10 DEF fs

\* A frame of a content that is not its last.
LEMMA RecvStep ==
  ASSUME WireInv, pc = "content", in # <<>>, in' = Tail(in), Head(in).ch = cur.ch,
         ~Whole(Append(got, Head(in))), got' = Append(got, Head(in)),
         UNCHANGED <<pc, cur, methods, todo, open, published>>
  PROVE  WireInv'
<1>1. WireTypes /\ ContentInv /\ published \in Seq(Messages)
  BY DEF WireInv
<1>2. cur \in Frames
  BY <1>1 DEF WireTypes
<1>3. WireTypes' /\ GenuineInv' /\ TodoInv' /\ ContentInv'
  BY <1>2, TailKeeps
<1>4. OrderInv' /\ BehindInv' /\ WholeInv'
  BY <1>2, TailOrder
<1>5. PICK m \in Publishes : m = cur
  BY ReadsNext
<1>6. PICK k \in 0 .. m.n : k = Len(got)
  BY <1>5, ReadsNext
<1>7. m \in Frames /\ m.n \in Nat /\ k \in Nat
  BY <1>1, PublishesAre
<1>8. /\ got' \in Seq(Frames) /\ Len(got') = k + 1
      /\ \A j \in 1 .. k + 1 : got'[j] = Piece(m, j)
      /\ 1 \in DOMAIN in /\ in[1] = Piece(m, k + 1) /\ k # m.n
  BY <1>5, <1>6, ReadsNext
<1>9. k + 1 \in 0 .. m.n /\ k + 1 \in Nat
  BY <1>7, <1>8
<1>10. After(m, k + 1, 1)
  BY <1>1, <1>8, <1>9 DEF ContentInv
<1>11. After(m, k + 1, 0)'
  <2>1. 1 \in Nat \ {0} /\ 1 - 1 = 0
    OBVIOUS
  <2>2. After(m, k + 1, 1 - 1)'
    BY <1>1, <1>7, <1>9, <1>10, <2>1, AfterTail
  <2>3. QED
    BY <2>1, <2>2
<1>12. Reads(m)'
  BY <1>5, <1>8, <1>9, <1>11 DEF Reads
<1>13. Publishes' = Publishes
  BY DEF Publishes
<1>14. RecvInv'
  BY <1>12, <1>13 DEF RecvInv
<1>15. QED
  BY <1>1, <1>3, <1>4, <1>14 DEF WireInv

\* The last frame of a content: the message is handed to an upstream.
LEMMA HandStep ==
  ASSUME WireInv, pc = "content", in # <<>>, in' = Tail(in), Head(in).ch = cur.ch,
         Whole(Append(got, Head(in))), NEW u \in Upstream,
         published' = Append(published, [id |-> cur.id, up |-> u,
                                         content |-> Append(got, Head(in))]),
         pc' # "content", cur' \in Frames, UNCHANGED <<methods, todo, open>>
  PROVE  WireInv'
<1>1. /\ WireTypes /\ OrderInv /\ BehindInv /\ WholeInv /\ published \in Seq(Messages)
  BY DEF WireInv
<1>2. /\ WireTypes' /\ GenuineInv' /\ TodoInv' /\ ContentInv'
      /\ \A j \in DOMAIN in' : j \in Nat /\ j + 1 \in DOMAIN in /\ in'[j] = in[j + 1]
  BY TailKeeps
<1>3. RecvInv'
  BY DEF RecvInv
<1> DEFINE fs == Append(got, Head(in))
           p == [id |-> cur.id, up |-> u, content |-> fs]
           q == Len(published)
<1>4. /\ cur \in Publishes /\ fs \in Seq(Frames) /\ Len(fs) = cur.n + 1
      /\ \A j \in 1 .. cur.n + 1 : fs[j] = Piece(cur, j)
  BY ReadsNext
<1> HIDE DEF fs
<1>5. /\ cur \in Frames /\ cur.id \in Nat /\ cur.n \in Nat
      /\ cur.id \in DOMAIN methods /\ cur = methods[cur.id]
  BY <1>1, <1>4, PublishesAre
<1>6. fs = Content(cur)
  <2>1. /\ Content(cur) \in Seq(Frames) /\ Len(Content(cur)) = cur.n + 1
        /\ \A j \in 1 .. cur.n + 1 : Content(cur)[j] = Piece(cur, j)
    BY <1>5, ContentPieces
  <2>2. \A j \in 1 .. Len(fs) : fs[j] = Content(cur)[j]
    BY <1>4, <2>1
  <2>3. QED
    BY <1>4, <2>1, <2>2, SeqEqual
<1>7. p \in Messages /\ p.id = cur.id /\ p.content = fs
  BY <1>4, <1>5 DEF Messages
<1>8. published' = Append(published, p)
  BY DEF fs
<1> HIDE DEF p
<1>9. /\ q \in Nat /\ DOMAIN published = 1 .. q /\ DOMAIN published' = 1 .. q + 1
      /\ published' \in Seq(Messages) /\ published'[q + 1] = p
      /\ \A i \in 1 .. q : published'[i] = published[i]
  BY <1>1, <1>7, <1>8
<1> HIDE DEF q
<1>10. \A i \in DOMAIN published : published[i].id < p.id
  BY <1>1, <1>7 DEF BehindInv
<1>11. OrderInv'
  <2>1. \A i, j \in DOMAIN in' : i < j => i + 1 < j + 1
    BY <1>2
  <2>2. \A i, j \in DOMAIN in' :
          i < j /\ in'[i].kind = "publish" /\ in'[j].kind = "publish" => in'[i].id < in'[j].id
    BY <1>1, <1>2, <2>1 DEF OrderInv
  <2>3. ASSUME NEW i \in DOMAIN published', NEW j \in DOMAIN published', i < j
        PROVE  published'[i].id < published'[j].id
    <3>1. CASE j \in 1 .. q
      <4>1. i \in 1 .. q
        BY <1>9, <2>3, <3>1
      <4>2. QED
        BY <1>1, <1>9, <2>3, <3>1, <4>1 DEF OrderInv
    <3>2. CASE j = q + 1
      <4>1. i \in 1 .. q
        BY <1>9, <2>3, <3>2
      <4>2. QED
        BY <1>9, <1>10, <3>2, <4>1
    <3>3. QED
      BY <1>9, <3>1, <3>2
  <2>4. QED
    BY <2>2, <2>3 DEF OrderInv
<1>12. BehindInv'
  <2>1. ASSUME NEW i \in DOMAIN published', NEW j \in DOMAIN in', in'[j].kind = "publish"
        PROVE  published'[i].id < in'[j].id
    <3>1. j + 1 \in DOMAIN in /\ in'[j] = in[j + 1]
      BY <1>2
    <3>2. CASE i \in 1 .. q
      BY <1>1, <1>9, <2>1, <3>1, <3>2 DEF BehindInv
    <3>3. CASE i = q + 1
      BY <1>1, <1>7, <1>9, <2>1, <3>1, <3>3 DEF BehindInv
    <3>4. QED
      BY <1>9, <3>2, <3>3
  <2>2. QED
    BY <2>1 DEF BehindInv
<1>13. WholeInv'
  <2>1. ASSUME NEW i \in DOMAIN published'
        PROVE  /\ published'[i].id \in DOMAIN methods
               /\ published'[i].content = Content(methods[published'[i].id])
    <3>1. CASE i \in 1 .. q
      BY <1>1, <1>9, <3>1 DEF WholeInv
    <3>2. CASE i = q + 1
      BY <1>5, <1>6, <1>7, <1>9, <3>2
    <3>3. QED
      BY <1>9, <3>1, <3>2
  <2>2. QED
    BY <2>1 DEF WholeInv
<1>14. QED
  BY <1>2, <1>3, <1>9, <1>11, <1>12, <1>13 DEF WireInv

-----------------------------------------------------------------------------
(* The steps of the client that send a frame.                              *)

\* What a frame more leaves true, if it is genuine, behind every earlier publish, and what has to
\* come next.
LEMMA AppendKeeps ==
  ASSUME WireInv, NEW f \in Frames, in' = Append(in, f), UNCHANGED <<pc, cur, got, published>>,
         DOMAIN methods \subseteq DOMAIN methods',
         \A i \in DOMAIN methods : methods'[i] = methods[i],
         f.ch = 0 => f.kind # "publish",
         f.ch # 0 => f.id \in DOMAIN methods',
         f.ch # 0 => \/ f = methods'[f.id]
                     \/ \E m \in Publishes' : \E k \in 1 .. m.n + 1 : f = Piece(m, k),
         f.kind = "publish" => \A i \in DOMAIN methods : i < f.id,
         \A m \in Publishes : \A k \in 0 .. m.n : \A i \in 0 .. Len(in) :
           After(m, k, i) => After(m, k, i)'
  PROVE  /\ in' \in Seq(Frames) /\ Publishes \subseteq Publishes'
         /\ GenuineInv' /\ RecvInv' /\ OrderInv' /\ BehindInv' /\ WholeInv'
         /\ published' \in Seq(Messages)
         /\ \A m \in Publishes : \A k \in 0 .. m.n : \A i \in 1 .. Len(in) :
              in'[i] = Piece(m, k) => After(m, k, i)'
         /\ Len(in) \in Nat /\ DOMAIN in' = 1 .. Len(in) + 1 /\ in'[Len(in) + 1] = f
<1>1. /\ WireTypes /\ GenuineInv /\ ContentInv /\ RecvInv /\ OrderInv /\ BehindInv /\ WholeInv
      /\ published \in Seq(Messages)
  BY DEF WireInv
<1> DEFINE n == Len(in)
<1>2. /\ n \in Nat /\ DOMAIN in = 1 .. n /\ DOMAIN in' = 1 .. n + 1 /\ in'[n + 1] = f
      /\ \A l \in 1 .. n : in'[l] = in[l]
      /\ in' \in Seq(Frames)
  BY <1>1 DEF WireTypes
<1>3. \A m \in Publishes : \A k \in 0 .. m.n : \A i \in 0 .. n : After(m, k, i) => After(m, k, i)'
  OBVIOUS
<1> HIDE DEF n
<1>4. Publishes \subseteq Publishes'
  BY DEF Publishes
<1>5. GenuineInv'
  <2>1. ASSUME NEW j \in DOMAIN in'
        PROVE  /\ in'[j].ch = 0 => in'[j].kind # "publish"
               /\ in'[j].ch # 0 => in'[j].id \in DOMAIN methods'
               /\ in'[j].ch # 0 =>
                    \/ in'[j] = methods'[in'[j].id]
                    \/ \E m \in Publishes' : \E k \in 1 .. m.n + 1 : in'[j] = Piece(m, k)
    <3>1. CASE j \in 1 .. n
      BY <1>1, <1>2, <1>4, <3>1 DEF GenuineInv
    <3>2. CASE j = n + 1
      BY <1>2, <3>2
    <3>3. QED
      BY <1>2, <3>1, <3>2
  <2>2. QED
    BY <2>1 DEF GenuineInv
<1>6. RecvInv'
  <2>1. SUFFICES ASSUME pc' = "content" PROVE RecvInv'
    BY DEF RecvInv
  <2>2. PICK m \in Publishes : Reads(m)
    BY <1>1, <2>1 DEF RecvInv
  <2>3. PICK k \in 0 .. m.n :
          /\ cur = m /\ got \in Seq(Frames) /\ Len(got) = k
          /\ \A j \in 1 .. k : got[j] = Piece(m, j)
          /\ After(m, k, 0)
    BY <2>2 DEF Reads
  <2>4. 0 \in 0 .. n
    BY <1>2
  <2>5. After(m, k, 0)'
    BY <1>3, <2>3, <2>4
  <2>6. Reads(m)'
    BY <2>3, <2>5 DEF Reads
  <2>7. QED
    BY <1>4, <2>6 DEF RecvInv
<1>7. \A j \in DOMAIN in : in[j].kind = "publish" => in[j].id \in DOMAIN methods
  BY <1>1 DEF GenuineInv
<1>8. OrderInv'
  <2>1. ASSUME NEW i \in DOMAIN in', NEW j \in DOMAIN in', i < j,
               in'[i].kind = "publish", in'[j].kind = "publish"
        PROVE  in'[i].id < in'[j].id
    <3>1. i \in 1 .. n
      BY <1>2, <2>1
    <3>2. CASE j \in 1 .. n
      BY <1>1, <1>2, <2>1, <3>1, <3>2 DEF OrderInv
    <3>3. CASE j = n + 1
      BY <1>2, <1>7, <2>1, <3>1, <3>3
    <3>4. QED
      BY <1>2, <3>2, <3>3
  <2>2. QED
    BY <1>1, <2>1 DEF OrderInv
<1>9. BehindInv'
  <2>1. ASSUME NEW i \in DOMAIN published, NEW j \in DOMAIN in', in'[j].kind = "publish"
        PROVE  published[i].id < in'[j].id
    <3>1. CASE j \in 1 .. n
      BY <1>1, <1>2, <2>1, <3>1 DEF BehindInv
    <3>2. CASE j = n + 1
      BY <1>1, <1>2, <2>1, <3>2 DEF WholeInv
    <3>3. QED
      BY <1>2, <3>1, <3>2
  <2>2. ASSUME pc = "content", NEW j \in DOMAIN in', in'[j].kind = "publish"
        PROVE  cur.id < in'[j].id
    <3>1. CASE j \in 1 .. n
      BY <1>1, <1>2, <2>2, <3>1 DEF BehindInv
    <3>2. CASE j = n + 1
      <4>1. cur.id \in DOMAIN methods
        BY <1>1, <2>2, PublishesAre DEF RecvInv, Reads
      <4>2. QED
        BY <1>2, <2>2, <3>2, <4>1
    <3>3. QED
      BY <1>2, <3>1, <3>2
  <2>3. QED
    BY <1>1, <2>1, <2>2 DEF BehindInv
<1>10. WholeInv'
  BY <1>1 DEF WholeInv
<1>11. ASSUME NEW m \in Publishes, NEW k \in 0 .. m.n, NEW i \in 1 .. n, in'[i] = Piece(m, k)
       PROVE  After(m, k, i)'
  <2>1. i \in DOMAIN in /\ in[i] = Piece(m, k) /\ i \in 0 .. n
    BY <1>2, <1>11
  <2>2. After(m, k, i)
    BY <1>1, <2>1 DEF ContentInv
  <2>3. QED
    BY <1>3, <2>1, <2>2
<1>12. QED
  BY <1>1, <1>2, <1>4, <1>5, <1>6, <1>8, <1>9, <1>10, <1>11 DEF n

\* A frame of channel 0 that is not one of the client's methods.
LEMMA ControlStep ==
  ASSUME WireInv, NEW f \in Frames, f.ch = 0, f.kind # "publish", in' = Append(in, f),
         open' \in BOOLEAN, open' => open, UNCHANGED <<pc, cur, got, todo, methods, published>>
  PROVE  WireInv'
<1>1. WireTypes /\ TodoInv
  BY DEF WireInv
<1>2. ASSUME NEW m \in Publishes, NEW k \in 0 .. m.n, NEW i \in 0 .. Len(in), After(m, k, i)
      PROVE  After(m, k, i)'
  <2>1. m \in Frames /\ m.ch \in Channel /\ m.ch # 0
    BY <1>1, PublishesAre
  <2>2. f.ch # m.ch /\ (open' => open /\ todo'[m.ch] = todo[m.ch])
    BY <2>1
  <2>3. QED
    BY <1>1, <1>2, <2>1, <2>2, AfterAppend
<1>3. Publishes' = Publishes
  BY DEF Publishes
<1>4. /\ in' \in Seq(Frames)
      /\ GenuineInv' /\ RecvInv' /\ OrderInv' /\ BehindInv' /\ WholeInv'
      /\ published' \in Seq(Messages)
      /\ \A m \in Publishes : \A k \in 0 .. m.n : \A i \in 1 .. Len(in) :
           in'[i] = Piece(m, k) => After(m, k, i)'
      /\ Len(in) \in Nat /\ DOMAIN in' = 1 .. Len(in) + 1 /\ in'[Len(in) + 1] = f
  BY <1>2, AppendKeeps
<1>5. WireTypes'
  BY <1>1, <1>4 DEF WireTypes
<1>6. TodoInv'
  <2>1. ASSUME NEW m \in Publishes, NEW k \in 0 .. m.n PROVE Remains(m, k)' <=> Remains(m, k)
    BY DEF Remains
  <2>2. QED
    BY <1>1, <1>3, <2>1 DEF TodoInv
<1>7. ContentInv'
  <2>1. SUFFICES ASSUME NEW m \in Publishes, NEW k \in 0 .. m.n, NEW i \in DOMAIN in',
                        in'[i] = Piece(m, k)
                 PROVE  After(m, k, i)'
    BY <1>3 DEF ContentInv
  <2>2. i \in 1 .. Len(in)
    <3>1. m \in Frames /\ m.n \in Nat /\ m.ch # 0
      BY <1>1, PublishesAre
    <3>2. k \in 0 .. m.n + 1
      BY <3>1
    <3>3. Piece(m, k).ch # 0
      BY <3>1, <3>2, PieceTells
    <3>4. QED
      BY <1>4, <2>1, <3>3
  <2>3. QED
    BY <1>4, <2>1, <2>2
<1>8. QED
  BY <1>4, <1>5, <1>6, <1>7 DEF WireInv

\* A method, on a channel on which no content is due.
LEMMA MethodStep ==
  ASSUME WireInv, open, NEW f \in Frames, f.id = Len(methods) + 1,
         in' = Append(in, f), methods' = Append(methods, f),
         f.kind = "publish" => f.ch \in Channel,
         f.ch \in Channel => todo[f.ch] = <<>>,
         todo' = IF f.kind = "publish" THEN [todo EXCEPT ![f.ch] = Content(f)] ELSE todo,
         UNCHANGED <<pc, cur, got, open, published>>
  PROVE  WireInv'
<1>1. WireTypes /\ TodoInv /\ GenuineInv
  BY DEF WireInv
<1>2. f.ch = 0 => f.kind # "publish"
  BY ConnectionAssumption
<1>3. /\ methods' \in Seq(Frames) /\ Len(methods) \in Nat /\ DOMAIN methods = 1 .. Len(methods)
      /\ DOMAIN methods' = 1 .. Len(methods) + 1 /\ methods'[f.id] = f /\ f.id \in DOMAIN methods'
      /\ \A i \in DOMAIN methods : methods'[i] = methods[i]
  BY <1>1 DEF WireTypes
<1>4. /\ DOMAIN methods \subseteq DOMAIN methods' /\ f.id \notin DOMAIN methods
      /\ \A i \in DOMAIN methods' : i \in DOMAIN methods \/ i = f.id
      /\ \A i \in DOMAIN methods : i < f.id
  BY <1>3
<1>5. \A m \in Publishes' : m \in Publishes \/ (m = f /\ f.kind = "publish")
  BY <1>3, <1>4 DEF Publishes
<1>6. \A m \in Publishes : /\ m \in Frames /\ m.ch \in Channel /\ m.n \in Nat
                           /\ m.id \in DOMAIN methods
  BY <1>1, PublishesAre
<1>7. \A c \in Channel : c # f.ch \/ f.kind # "publish" => todo'[c] = todo[c]
  BY <1>1 DEF WireTypes
<1>8. ASSUME NEW m \in Publishes, NEW k \in 0 .. m.n, NEW i \in 0 .. Len(in), After(m, k, i)
      PROVE  After(m, k, i)'
  <2>1. CASE f.ch # m.ch
    <3>1. open' => open /\ todo'[m.ch] = todo[m.ch]
      BY <1>6, <1>7, <2>1
    <3>2. QED
      BY <1>1, <1>6, <1>8, <2>1, <3>1, AfterAppend
  <2>2. CASE f.ch = m.ch
    <3>1. Len(todo[m.ch]) = 0 /\ m.n + 1 - k # 0
      BY <1>6, <2>2
    <3>2. ~Remains(m, k)
      BY <3>1 DEF Remains
    <3>3. QED
      BY <1>1, <1>6, <1>8, <3>2, AfterAppend
  <2>3. QED
    BY <2>1, <2>2
<1>9. /\ in' \in Seq(Frames) /\ Publishes \subseteq Publishes'
      /\ GenuineInv' /\ RecvInv' /\ OrderInv' /\ BehindInv' /\ WholeInv'
      /\ published' \in Seq(Messages)
      /\ \A m \in Publishes : \A k \in 0 .. m.n : \A i \in 1 .. Len(in) :
           in'[i] = Piece(m, k) => After(m, k, i)'
      /\ Len(in) \in Nat /\ DOMAIN in' = 1 .. Len(in) + 1 /\ in'[Len(in) + 1] = f
  BY <1>2, <1>3, <1>4, <1>8, AppendKeeps
<1>10. /\ f.n \in Nat /\ Content(f) \in Seq(Frames) /\ Len(Content(f)) = f.n + 1
       /\ \A j \in 1 .. f.n + 1 : Content(f)[j] = Piece(f, j)
  BY ContentPieces DEF Frames
<1>11. WireTypes'
  <2>1. todo' \in [Channel -> Seq(Frames)]
    BY <1>1, <1>10 DEF WireTypes
  <2>2. ASSUME NEW i \in DOMAIN methods'
        PROVE  /\ methods'[i].id = i
               /\ methods'[i].kind = "publish" => methods'[i].ch \in Channel
    BY <1>1, <1>3, <1>4 DEF WireTypes
  <2>3. QED
    BY <1>1, <1>3, <1>9, <2>1, <2>2 DEF WireTypes
<1>12. f.kind = "publish" => Remains(f, 0)' /\ f \in Publishes'
  <2>1. SUFFICES ASSUME f.kind = "publish" PROVE Remains(f, 0)' /\ f \in Publishes'
    OBVIOUS
  <2>2. todo'[f.ch] = Content(f)
    BY <1>1, <2>1 DEF WireTypes
  <2>3. f.n + 1 - 0 = f.n + 1 /\ \A j \in 1 .. f.n + 1 : 0 + j = j
    BY <1>10
  <2>4. Remains(f, 0)'
    BY <1>10, <2>2, <2>3 DEF Remains
  <2>5. f \in Publishes'
    BY <1>3, <2>1 DEF Publishes
  <2>6. QED
    BY <2>4, <2>5
<1>13. TodoInv'
  <2>1. SUFFICES ASSUME NEW c \in Channel, todo'[c] # <<>>
                 PROVE  \E m \in Publishes' : m.ch = c /\ \E k \in 0 .. m.n : Remains(m, k)'
    BY DEF TodoInv
  <2>2. CASE c = f.ch /\ f.kind = "publish"
    <3>1. 0 \in 0 .. f.n
      BY <1>10
    <3>2. QED
      BY <1>12, <2>2, <3>1
  <2>3. CASE c # f.ch \/ f.kind # "publish"
    <3>1. todo'[c] = todo[c]
      BY <1>7, <2>3
    <3>2. PICK m \in Publishes : m.ch = c /\ \E k \in 0 .. m.n : Remains(m, k)
      BY <1>1, <2>1, <3>1 DEF TodoInv
    <3>3. PICK k \in 0 .. m.n : Remains(m, k)
      BY <3>2
    <3>4. Remains(m, k)'
      BY <3>1, <3>2, <3>3 DEF Remains
    <3>5. QED
      BY <1>9, <3>2, <3>4
  <2>4. QED
    BY <2>2, <2>3
<1>14. ContentInv'
  <2>1. SUFFICES ASSUME NEW m \in Publishes', NEW k \in 0 .. m.n, NEW i \in DOMAIN in',
                        in'[i] = Piece(m, k)
                 PROVE  After(m, k, i)'
    BY DEF ContentInv
  <2>2. CASE m \in Publishes
    <3>1. k \in 0 .. m.n + 1 /\ m \in Frames
      BY <1>6, <2>2
    <3>2. Piece(m, k).id # f.id
      BY <1>4, <1>6, <2>2, <3>1, PieceTells
    <3>3. i \in 1 .. Len(in)
      BY <1>9, <2>1, <3>2
    <3>4. QED
      BY <1>9, <2>1, <2>2, <3>3
  <2>3. CASE m = f /\ f.kind = "publish"
    <3>1. k \in 0 .. f.n + 1 /\ 0 \in 0 .. f.n + 1 /\ Piece(f, 0) = f
      BY <1>10, <2>3 DEF Piece
    <3>2. Piece(f, k).ch = f.ch /\ Piece(f, k).id = f.id
      BY <3>1, PieceTells
    <3>3. i = Len(in) + 1
      <4>1. ASSUME i \in 1 .. Len(in) PROVE FALSE
        <5>1. i \in DOMAIN in /\ in[i] = in'[i]
          BY <1>1, <4>1 DEF WireTypes
        <5>2. in[i].ch # 0 /\ in[i].id \notin DOMAIN methods
          BY <1>2, <1>4, <2>1, <2>3, <3>2, <5>1
        <5>3. QED
          BY <1>1, <5>1, <5>2 DEF GenuineInv
      <4>2. QED
        BY <1>9, <4>1
    <3>4. k = 0
      <4>1. Piece(f, 0) = Piece(f, k)
        BY <1>9, <2>1, <2>3, <3>1, <3>3
      <4>2. QED
        BY <2>3, <3>1, <4>1, PieceOnce
    <3>5. \A l \in DOMAIN in' : ~(l > i)
      BY <1>9, <3>3
    <3>6. Remains(m, k)'
      BY <1>12, <2>3, <3>4
    <3>7. QED
      BY <3>5, <3>6 DEF After
  <2>4. QED
    BY <1>5, <2>2, <2>3
<1>15. QED
  BY <1>9, <1>11, <1>13, <1>14 DEF WireInv

\* The next frame of a content.
LEMMA ContentStep ==
  ASSUME WireInv, open, NEW c \in Channel, todo[c] # <<>>,
         in' = Append(in, Head(todo[c])), todo' = [todo EXCEPT ![c] = Tail(@)],
         UNCHANGED <<pc, cur, got, open, methods, published>>
  PROVE  WireInv'
<1>1. WireTypes /\ TodoInv
  BY DEF WireInv
<1>2. PICK m0 \in Publishes : m0.ch = c /\ \E k \in 0 .. m0.n : Remains(m0, k)
  BY <1>1 DEF TodoInv
<1>3. PICK k0 \in 0 .. m0.n : Remains(m0, k0)
  BY <1>2
<1>4. \A m \in Publishes : /\ m \in Frames /\ m.ch \in Channel /\ m.n \in Nat /\ m.ch # 0
                           /\ m.kind = "publish"
                           /\ m.id \in DOMAIN methods /\ m = methods[m.id]
  BY <1>1, PublishesAre
<1>5. /\ k0 \in Nat /\ k0 + 1 \in 1 .. m0.n + 1 /\ k0 + 1 \in 0 .. m0.n + 1
      /\ 1 \in 1 .. m0.n + 1 - k0
  BY <1>4
<1>6. PICK f \in Frames : f = Piece(m0, k0 + 1)
  BY <1>4, <1>5, PieceTells
<1>7. f.ch = c /\ f.id = m0.id /\ f.kind # "publish"
  BY <1>2, <1>4, <1>5, <1>6, PieceTells
<1> DEFINE t == todo[c]
<1>8. /\ t \in Seq(Frames) /\ Len(t) = m0.n + 1 - k0
      /\ \A j \in 1 .. m0.n + 1 - k0 : t[j] = Piece(m0, k0 + j)
  BY <1>1, <1>2, <1>3 DEF Remains, WireTypes
<1>9. /\ todo'[c] = Tail(t) /\ \A d \in Channel : d # c => todo'[d] = todo[d]
      /\ todo' \in [Channel -> Seq(Frames)]
  BY <1>1, <1>8 DEF WireTypes
<1>10. t # <<>> /\ in' = Append(in, Head(t))
  OBVIOUS
<1> HIDE DEF t
<1>11. Head(t) = f
  BY <1>5, <1>6, <1>8, <1>10
<1>12. in' = Append(in, f)
  BY <1>10, <1>11
<1>13. Publishes' = Publishes
  BY DEF Publishes
<1>14. ASSUME NEW m \in Publishes, NEW k \in 0 .. m.n, NEW i \in 0 .. Len(in), After(m, k, i)
       PROVE  After(m, k, i)'
  <2>1. CASE f.ch # m.ch
    <3>1. open' => open /\ todo'[m.ch] = todo[m.ch]
      BY <1>4, <1>7, <1>9, <2>1
    <3>2. QED
      BY <1>1, <1>4, <1>12, <1>14, <2>1, <3>1, AfterAppend
  <2>2. CASE f.ch = m.ch
    <3>1. ASSUME Remains(m, k) PROVE f = Piece(m, k + 1)
      <4>1. todo[m.ch] = t /\ 1 \in 1 .. m.n + 1 - k
        BY <1>4, <1>7, <2>2 DEF t
      <4>2. t[1] = Piece(m, k + 1)
        BY <3>1, <4>1 DEF Remains
      <4>3. QED
        BY <1>8, <1>10, <1>11, <4>2
    <3>2. QED
      BY <1>1, <1>4, <1>12, <1>14, <3>1, AfterAppend
  <2>3. QED
    BY <2>1, <2>2
<1>15. /\ f.ch = 0 => f.kind # "publish"
       /\ f.ch # 0 => f.id \in DOMAIN methods'
       /\ f.ch # 0 => \E m \in Publishes' : \E k \in 1 .. m.n + 1 : f = Piece(m, k)
  BY <1>4, <1>5, <1>6, <1>7, <1>13
<1>16. /\ in' \in Seq(Frames)
       /\ GenuineInv' /\ RecvInv' /\ OrderInv' /\ BehindInv' /\ WholeInv'
       /\ published' \in Seq(Messages)
       /\ \A m \in Publishes : \A k \in 0 .. m.n : \A i \in 1 .. Len(in) :
            in'[i] = Piece(m, k) => After(m, k, i)'
       /\ Len(in) \in Nat /\ DOMAIN in' = 1 .. Len(in) + 1 /\ in'[Len(in) + 1] = f
  BY <1>7, <1>12, <1>14, <1>15, AppendKeeps
<1>17. WireTypes'
  BY <1>1, <1>9, <1>16 DEF WireTypes
<1>18. Remains(m0, k0 + 1)'
  <2>1. Len(Tail(t)) = m0.n + 1 - (k0 + 1)
    BY <1>4, <1>5, <1>8, <1>10
  <2>2. ASSUME NEW j \in 1 .. m0.n + 1 - (k0 + 1) PROVE Tail(t)[j] = Piece(m0, (k0 + 1) + j)
    <3>1. j + 1 \in 1 .. m0.n + 1 - k0 /\ k0 + (j + 1) = (k0 + 1) + j
      BY <1>4, <1>5
    <3>2. Tail(t)[j] = t[j + 1]
      BY <1>8, <1>10, <2>1
    <3>3. QED
      BY <1>8, <3>1, <3>2
  <2>3. todo'[m0.ch] = Tail(t)
    BY <1>2, <1>9
  <2>4. QED
    BY <2>1, <2>2, <2>3 DEF Remains
<1>19. TodoInv'
  <2>1. SUFFICES ASSUME NEW d \in Channel, todo'[d] # <<>>
                 PROVE  \E m \in Publishes : m.ch = d /\ \E k \in 0 .. m.n : Remains(m, k)'
    BY <1>13 DEF TodoInv
  <2>2. CASE d = c
    <3>1. Len(Tail(t)) # 0 /\ Len(Tail(t)) = m0.n + 1 - (k0 + 1)
      <4>1. Tail(t) \in Seq(Frames) /\ Tail(t) # <<>>
        BY <1>8, <1>9, <1>10, <2>1, <2>2
      <4>2. QED
        BY <1>4, <1>5, <1>8, <1>10, <4>1
    <3>2. k0 + 1 \in 0 .. m0.n
      <4>1. m0.n \in Nat /\ k0 \in 0 .. m0.n /\ m0.n + 1 - (k0 + 1) # 0
        BY <1>4, <3>1
      <4>2. QED
        BY <4>1
    <3>3. QED
      BY <1>2, <1>18, <2>2, <3>2
  <2>3. CASE d # c
    <3>1. todo'[d] = todo[d]
      BY <1>9, <2>3
    <3>2. PICK m \in Publishes : m.ch = d /\ \E k \in 0 .. m.n : Remains(m, k)
      BY <1>1, <2>1, <3>1 DEF TodoInv
    <3>3. PICK k \in 0 .. m.n : Remains(m, k)
      BY <3>2
    <3>4. Remains(m, k)'
      BY <3>1, <3>2, <3>3 DEF Remains
    <3>5. QED
      BY <3>2, <3>4
  <2>4. QED
    BY <2>2, <2>3
<1>20. ContentInv'
  <2>1. SUFFICES ASSUME NEW m \in Publishes, NEW k \in 0 .. m.n, NEW i \in DOMAIN in',
                        in'[i] = Piece(m, k)
                 PROVE  After(m, k, i)'
    BY <1>13 DEF ContentInv
  <2>2. CASE i \in 1 .. Len(in)
    BY <1>16, <2>1, <2>2
  <2>3. CASE i = Len(in) + 1
    <3>1. k \in 0 .. m.n + 1 /\ m \in Frames /\ Piece(m, k) = Piece(m0, k0 + 1)
      BY <1>4, <1>6, <1>16, <2>1, <2>3
    <3>2. m.id = m0.id
      BY <1>6, <1>7, <3>1, PieceTells
    <3>3. m = m0
      BY <1>4, <3>2
    <3>4. k = k0 + 1
      BY <1>4, <1>5, <3>1, <3>3, PieceOnce
    <3>5. \A l \in DOMAIN in' : ~(l > i)
      BY <1>16, <2>3
    <3>6. Remains(m, k)'
      BY <1>18, <3>3, <3>4
    <3>7. QED
      BY <3>5, <3>6 DEF After
  <2>4. QED
    BY <1>16, <2>2, <2>3
<1>21. QED
  BY <1>16, <1>17, <1>19, <1>20 DEF WireInv

-----------------------------------------------------------------------------
(* Every step of the connection.                                           *)

PeerTypes == said \in Nat /\ alive \subseteq Upstream

LEMMA ControlType ==
  ASSUME NEW kind \in Kinds
  PROVE  Control(kind) \in Frames /\ Control(kind).ch = 0 /\ Control(kind).kind = kind
BY DEF Control, Frame, Frames

LEMMA NothingType == Nothing \in Frames
BY ControlType DEF Nothing, Kinds

LEMMA SendDoes ==
  ASSUME NEW ch, NEW kind, NEW id, NEW p, Send(ch, kind, id, p)
  PROVE  /\ pc' = p \/ pc' = "end"
         /\ cur' = Nothing /\ got' = <<>>
BY DEF Send, Goto

LEMMA MethodKeeps ==
  ASSUME WireInv, NEW ch \in Channel \union {0}, NEW kind \in Kinds, NEW key \in Key \union {<<>>},
         NEW n \in Nat, kind = "publish" => ch \in Channel, kind = "close" => ch \notin Channel,
         ClientMethod(ch, kind, key, n)
  PROVE  WireInv'
<1>1. WireTypes
  BY DEF WireInv
<1>2. Len(methods) + 1 \in Nat
  BY <1>1 DEF WireTypes
<1>3. PICK f \in Frames : f = Frame(ch, kind, Len(methods) + 1, n, key)
  BY <1>2, FrameType
<1>4. f.ch = ch /\ f.kind = kind /\ f.id = Len(methods) + 1
  BY <1>3 DEF Frame
<1>5. /\ open /\ in' = Append(in, f) /\ methods' = Append(methods, f)
      /\ todo' = IF f.kind = "publish" THEN [todo EXCEPT ![f.ch] = Content(f)] ELSE todo
      /\ UNCHANGED <<pc, cur, got, open, published>>
  BY <1>3, <1>4 DEF ClientMethod, Ready, upstreams
<1>6. f.ch \in Channel => todo[f.ch] = <<>>
  BY <1>4 DEF ClientMethod
<1>7. f.kind = "publish" => f.ch \in Channel
  BY <1>4
<1>8. QED
  BY <1>4, <1>5, <1>6, <1>7, MethodStep

LEMMA ClientKeeps ==
  ASSUME WireInv, PeerTypes, ClientNext
  PROVE  WireInv'
<1>1. WireTypes /\ open \in BOOLEAN /\ cur \in Frames
  BY DEF WireInv, WireTypes
<1>2. {"amqp", "startOk", "tuneOk", "open", "close", "closeOk", "heartbeat", "bind", "purge",
       "unsupported", "publish"} \subseteq Kinds
  BY DEF Kinds
<1>3. CASE ClientHandshake
  <2>1. Spoken[said + 1] \in {"amqp", "startOk", "tuneOk", "open"}
    <3>1. said \in 0 .. 3
      BY <1>3 DEF ClientHandshake, PeerTypes, Spoken
    <3>2. said + 1 = 1 \/ said + 1 = 2 \/ said + 1 = 3 \/ said + 1 = 4
      BY <3>1
    <3>3. QED
      BY <3>2 DEF Spoken
  <2>2. PICK kind \in Kinds : kind = Spoken[said + 1] /\ kind # "publish"
    BY <1>2, <2>1
  <2>3. PICK f \in Frames : f = Control(kind) /\ f.ch = 0 /\ f.kind # "publish"
    BY <2>2, ControlType
  <2>4. in' = Append(in, f) /\ UNCHANGED <<pc, cur, got, open, todo, methods, published>>
    BY <1>3, <2>2, <2>3 DEF ClientHandshake, upstreams
  <2>5. QED
    BY <1>1, <2>3, <2>4, ControlStep
<1>4. CASE ClientHeartbeat
  <2>1. PICK f \in Frames : f = Control("heartbeat") /\ f.ch = 0 /\ f.kind # "publish"
    BY <1>2, ControlType
  <2>2. in' = Append(in, f) /\ UNCHANGED <<pc, cur, got, open, todo, methods, published>>
    BY <1>4, <2>1 DEF ClientHeartbeat, upstreams
  <2>3. QED
    BY <1>1, <2>1, <2>2, ControlStep
<1>5. CASE ClientCloseOk
  <2>1. PICK f \in Frames : f = Control("closeOk") /\ f.ch = 0 /\ f.kind # "publish"
    BY <1>2, ControlType
  <2>2. in' = Append(in, f) /\ open' = FALSE /\ UNCHANGED <<pc, cur, got, todo, methods, published>>
    BY <1>5, <2>1 DEF ClientCloseOk, upstreams
  <2>3. QED
    BY <1>1, <2>1, <2>2, ControlStep
<1>6. CASE HangUp
  <2>1. /\ open' = FALSE /\ todo' = [c \in Channel |-> <<>>]
        /\ UNCHANGED <<pc, cur, got, in, methods, published>>
    BY <1>6 DEF HangUp, upstreams
  <2>2. cur' \in Frames
    BY <1>1, <2>1
  <2>3. QED
    BY <2>1, <2>2, StaysStep
<1>7. CASE ClientMethod(0, "close", <<>>, 0)
  <2>1. "close" \in Kinds /\ 0 \in Channel \union {0} /\ <<>> \in Key \union {<<>>} /\ 0 \notin Channel
    BY <1>2, ConnectionAssumption
  <2>2. QED
    BY <1>7, <2>1, MethodKeeps
<1>8. ASSUME NEW c \in Channel, NEW kind \in Fanned \union {"unsupported"},
             ClientMethod(c, kind, <<>>, 0)
      PROVE  WireInv'
  <2>1. kind \in Kinds /\ kind # "publish" /\ kind # "close"
    BY <1>2 DEF Fanned
  <2>2. c \in Channel \union {0} /\ <<>> \in Key \union {<<>>} /\ 0 \in Nat
    OBVIOUS
  <2>3. QED
    BY <1>8, <2>1, <2>2, MethodKeeps
<1>9. ASSUME NEW c \in Channel, NEW key \in Key, NEW n \in Size, ClientMethod(c, "publish", key, n)
      PROVE  WireInv'
  <2>1. /\ c \in Channel \union {0} /\ key \in Key \union {<<>>} /\ n \in Nat /\ "publish" \in Kinds
    BY <1>2, ConnectionAssumption
  <2>2. QED
    BY <1>9, <2>1, MethodKeeps
<1>10. ASSUME NEW c \in Channel, ClientContent(c)
       PROVE  WireInv'
  <2>1. /\ open /\ todo[c] # <<>> /\ in' = Append(in, Head(todo[c]))
        /\ todo' = [todo EXCEPT ![c] = Tail(@)]
        /\ UNCHANGED <<pc, cur, got, open, methods, published>>
    BY <1>10 DEF ClientContent, upstreams
  <2>2. QED
    BY <2>1, ContentStep
<1>11. QED
  BY <1>3, <1>4, <1>5, <1>6, <1>7, <1>8, <1>9, <1>10 DEF ClientNext

LEMMA ProxyKeeps ==
  ASSUME WireInv, PeerTypes, ProxyNext
  PROVE  WireInv'
<1>1. WireTypes /\ open \in BOOLEAN /\ cur \in Frames /\ Nothing \in Frames
  BY NothingType DEF WireInv, WireTypes
<1> DEFINE Elsewhere == pc' # "content" /\ cur' = Nothing /\ UNCHANGED <<methods, published, todo, open>>
<1>2. ASSUME Elsewhere, in' = in PROVE WireInv'
  <2>1. /\ cur' \in Frames /\ open' \in BOOLEAN /\ (open' => open) /\ todo' = todo /\ pc' # "content"
        /\ UNCHANGED <<in, methods, published>>
    BY <1>1, <1>2
  <2>2. QED
    BY <2>1, StaysStep
<1>3. ASSUME Elsewhere, in # <<>>, in' = Tail(in) PROVE WireInv'
  <2>1. cur' \in Frames /\ pc' # "content" /\ UNCHANGED <<methods, todo, open, published>>
    BY <1>1, <1>3
  <2>2. QED
    BY <1>3, <2>1, TailStep
<1>4. CASE HandshakeStep
  <2>1. in # <<>> /\ in' = Tail(in) /\ UNCHANGED <<methods, published, todo, open>>
    BY <1>4 DEF HandshakeStep, clientVars, upstreams
  <2>2. pc' # "content" /\ cur' = Nothing
    <3>1. pc \in {"header", "startOk", "tuneOk", "open"}
      BY <1>4 DEF HandshakeStep, Expected
    <3>2. QED
      BY <1>4, <3>1 DEF HandshakeStep, Send, Goto
  <2>3. QED
    BY <1>3, <2>1, <2>2
<1>5. CASE HandshakeFails
  BY <1>2, <1>5 DEF HandshakeFails, Goto, clientVars, upstreams
<1>6. CASE ConnectToUpstreams
  BY <1>2, <1>6 DEF ConnectToUpstreams, Goto, clientVars, upstreams
<1>7. CASE Select
  <2>1. pc' # "content" /\ cur' = Nothing
    BY <1>7 DEF Select, Send, Goto
  <2>2. QED
    BY <1>2, <1>7, <2>1 DEF Select, clientVars, upstreams
<1>8. CASE ReadNothing
  BY <1>2, <1>8 DEF ReadNothing, Goto, clientVars, upstreams
<1>9. CASE in # <<>> /\ Dispatch0
  <2>1. in' = Tail(in) /\ UNCHANGED <<methods, published, todo, open>>
    BY <1>9 DEF Dispatch0, Next1, clientVars, upstreams
  <2>2. pc' # "content" /\ cur' = Nothing
    BY <1>9 DEF Dispatch0, Send, Goto
  <2>3. QED
    BY <1>3, <1>9, <2>1, <2>2
<1>10. CASE in # <<>> /\ DispatchN
  <2>1. in' = Tail(in) /\ Head(in).ch # 0 /\ UNCHANGED <<methods, published, todo, open>>
    BY <1>10 DEF DispatchN, Next1, clientVars, upstreams
  <2>2. CASE Head(in).kind = "publish"
    <3>1. pc' = "content" /\ cur' = Head(in) /\ got' = <<>>
      BY <1>10, <2>2 DEF DispatchN, Fanned
    <3>2. QED
      BY <1>10, <2>1, <2>2, <3>1, PublishStep
  <2>3. CASE Head(in).kind \in Fanned
    <3>1. pc' = "fan" /\ cur' = Head(in)
      BY <1>10, <2>3 DEF DispatchN, Fanned
    <3>2. Head(in) \in Frames
      BY <1>1, <1>10 DEF WireTypes
    <3>3. cur' \in Frames /\ pc' # "content"
      BY <3>1, <3>2
    <3>4. QED
      BY <1>10, <2>1, <3>3, TailStep
  <2>4. CASE Head(in).kind # "publish" /\ Head(in).kind \notin Fanned
    <3>1. Send(Head(in).ch, "close", Head(in).id, "loop") \/ Goto("end")
      BY <1>10, <2>4 DEF DispatchN
    <3>2. pc' # "content" /\ cur' = Nothing
      BY <3>1, SendDoes DEF Goto
    <3>3. QED
      BY <1>3, <1>10, <2>1, <3>2
  <2>5. QED
    BY <2>2, <2>3, <2>4
<1>11. CASE in # <<>> /\ RecvContent
  <2>1. pc = "content" /\ in' = Tail(in) /\ UNCHANGED <<methods, todo, open>>
    BY <1>11 DEF RecvContent, Next1, clientVars
  <2>2. CASE Head(in).ch # cur.ch
    <3>1. Send(cur.ch, "close", cur.id, "loop") /\ UNCHANGED upstreams
      BY <1>11, <2>2 DEF RecvContent, ForContent
    <3>2. pc' # "content" /\ cur' = Nothing /\ published' = published
      BY <3>1, SendDoes DEF upstreams
    <3>3. QED
      BY <1>3, <1>11, <2>1, <3>2
  <2>3. CASE Head(in).ch = cur.ch /\ Whole(Append(got, Head(in)))
    <3>1. Publish(Append(got, Head(in)))
      BY <1>11, <2>3 DEF RecvContent, ForContent
    <3>2. CASE Route(cur.key, KeyPatterns) \in alive
      <4>1. PICK u \in Upstream : u = Route(cur.key, KeyPatterns)
        BY <3>2 DEF PeerTypes
      <4>2. /\ published' = Append(published, [id |-> cur.id, up |-> u,
                                               content |-> Append(got, Head(in))])
            /\ pc' # "content" /\ cur' = Nothing
        BY <3>1, <3>2, <4>1 DEF Publish, Goto
      <4>3. cur' \in Frames
        BY <1>1, <4>2
      <4>4. QED
        BY <1>11, <2>1, <2>3, <4>2, <4>3, HandStep
    <3>3. CASE Route(cur.key, KeyPatterns) \notin alive
      <4>1. Send(cur.ch, "close", cur.id, "loop") /\ UNCHANGED upstreams
        BY <3>1, <3>3 DEF Publish
      <4>2. pc' # "content" /\ cur' = Nothing /\ published' = published
        BY <4>1, SendDoes DEF upstreams
      <4>3. QED
        BY <1>3, <1>11, <2>1, <4>2
    <3>4. QED
      BY <3>2, <3>3
  <2>4. CASE Head(in).ch = cur.ch /\ ~Whole(Append(got, Head(in)))
    <3>1. got' = Append(got, Head(in)) /\ UNCHANGED <<pc, cur, published>>
      BY <1>11, <2>4 DEF RecvContent, ForContent, upstreams
    <3>2. QED
      BY <1>11, <2>1, <2>4, <3>1, RecvStep
  <2>5. QED
    BY <2>2, <2>3, <2>4
<1>12. CASE RecvNothing
  <2>1. Send(cur.ch, "close", cur.id, "loop") /\ UNCHANGED <<in, methods, published, todo, open>>
    BY <1>12 DEF RecvNothing, clientVars, upstreams
  <2>2. pc' # "content" /\ cur' = Nothing
    BY <2>1, SendDoes
  <2>3. QED
    BY <1>2, <2>1, <2>2
<1>13. CASE FanCall
  <2>1. pc = "fan" /\ UNCHANGED <<in, methods, published, todo, open>>
    BY <1>13 DEF FanCall, clientVars
  <2>2. UNCHANGED <<pc, cur>> \/ Send(cur.ch, "close", cur.id, "loop")
    BY <1>13 DEF FanCall
  <2>3. CASE UNCHANGED <<pc, cur>>
    <3>1. cur' \in Frames /\ pc' # "content" /\ open' \in BOOLEAN /\ (open' => open) /\ todo' = todo
      BY <1>1, <2>1, <2>3
    <3>2. QED
      BY <2>1, <3>1, StaysStep
  <2>4. CASE Send(cur.ch, "close", cur.id, "loop")
    <3>1. pc' # "content" /\ cur' = Nothing
      BY <2>4, SendDoes
    <3>2. QED
      BY <1>2, <2>1, <3>1
  <2>5. QED
    BY <2>2, <2>3, <2>4
<1>14. CASE FanReply
  <2>1. Send(cur.ch, "ok", cur.id, "loop") /\ UNCHANGED <<in, methods, published, todo, open>>
    BY <1>14 DEF FanReply, clientVars, upstreams
  <2>2. pc' # "content" /\ cur' = Nothing
    BY <2>1, SendDoes
  <2>3. QED
    BY <1>2, <2>1, <2>2
<1>15. CASE AwaitCloseOk
  <2>1. pc' # "content" /\ cur' = Nothing /\ UNCHANGED <<methods, published, todo, open>>
    BY <1>15 DEF AwaitCloseOk, Goto, clientVars, upstreams
  <2>2. CASE in = <<>>
    <3>1. in' = in
      BY <1>15, <2>2 DEF AwaitCloseOk, Silence
    <3>2. QED
      BY <1>2, <2>1, <3>1
  <2>3. CASE in # <<>>
    <3>1. in' = Tail(in)
      BY <1>15, <2>3 DEF AwaitCloseOk, Silence
    <3>2. QED
      BY <1>3, <2>1, <2>3, <3>1
  <2>4. QED
    BY <2>2, <2>3
<1>16. QED
  BY <1>4, <1>5, <1>6, <1>7, <1>8, <1>9, <1>10, <1>11, <1>12, <1>13, <1>14, <1>15 DEF ProxyNext

LEMMA WireStep ==
  ASSUME WireInv, PeerTypes, [Next]_vars
  PROVE  WireInv'
<1>1. open \in BOOLEAN /\ cur \in Frames
  BY DEF WireInv, WireTypes
<1>2. CASE \/ UNCHANGED vars \/ Cancel \/ MonitorUpstreamConnection
           \/ \E u \in Upstream : LoseUpstream(u)
  <2>1. UNCHANGED <<in, methods, published, cur, open, todo, pc, got>>
    BY <1>2 DEF vars, Cancel, MonitorUpstreamConnection, LoseUpstream, clientVars, upstreams
  <2>2. cur' \in Frames /\ open' \in BOOLEAN /\ (open' => open) /\ todo' = todo
    BY <1>1, <2>1
  <2>3. QED
    BY <2>1, <2>2, StaysStep
<1>3. QED
  BY <1>2, ClientKeeps, ProxyKeeps DEF Next

LEMMA WireInit ==
  ASSUME Init
  PROVE  WireInv
<1>1. WireTypes
  BY NothingType DEF Init, WireTypes
<1>2. /\ published \in Seq(Messages) /\ DOMAIN published = {} /\ DOMAIN in = {}
      /\ pc # "content" /\ \A c \in Channel : todo[c] = <<>>
  BY DEF Init
<1>3. QED
  BY <1>1, <1>2
  DEF WireInv, GenuineInv, TodoInv, ContentInv, RecvInv, OrderInv, BehindInv, WholeInv

LEMMA PeerStep ==
  ASSUME PeerTypes, [Next]_vars
  PROVE  PeerTypes'
<1>1. said' = said \/ said' = said + 1
  BY DEF Next, vars, ProxyNext, ClientNext, Cancel, MonitorUpstreamConnection, LoseUpstream,
         HandshakeStep, HandshakeFails, ConnectToUpstreams, Select, ReadNothing, Dispatch0,
         DispatchN, RecvContent, RecvNothing, FanCall, FanReply, AwaitCloseOk, ClientHandshake,
         ClientHeartbeat, ClientCloseOk, HangUp, ClientMethod, ClientContent, clientVars
<1>2. alive' \subseteq alive
  BY DEF Next, vars, ProxyNext, ClientNext, Cancel, MonitorUpstreamConnection, LoseUpstream,
         HandshakeStep, HandshakeFails, ConnectToUpstreams, Select, ReadNothing, Dispatch0,
         DispatchN, RecvContent, Publish, RecvNothing, FanCall, FanReply, AwaitCloseOk,
         ClientHandshake, ClientHeartbeat, ClientCloseOk, HangUp, ClientMethod, ClientContent,
         upstreams
<1>3. QED
  BY <1>1, <1>2 DEF PeerTypes

LEMMA WireInvariant == Spec => [](WireInv /\ PeerTypes)
<1>1. Init => WireInv /\ PeerTypes
  <2>1. Init => PeerTypes
    BY DEF Init, PeerTypes
  <2>2. QED
    BY <2>1, WireInit
<1>2. WireInv /\ PeerTypes /\ [Next]_vars => WireInv' /\ PeerTypes'
  BY WireStep, PeerStep
<1>3. QED
  BY <1>1, <1>2, PTL DEF Spec

\* recv and replyBasicPublish, for any number of channels, upstreams and frames: what is handed
\* to an upstream is one of the client's messages with the whole of its own content, each once
\* and in the order of its channel, although frames of other channels, heartbeats, deadlines and
\* lost upstreams cut in anywhere.
THEOREM PublishedIntact == Spec => []PublishIntact
<1>1. WireInv => PublishIntact
  <2>1. SUFFICES ASSUME WireInv PROVE PublishIntact
    OBVIOUS
  <2>2. WholeInv /\ OrderInv /\ published \in Seq(Messages)
    BY <2>1 DEF WireInv
  <2>3. \A i \in DOMAIN published : published[i].id \in Nat
    <3>1. \A i \in DOMAIN published : published[i] \in Messages
      BY <2>2
    <3>2. QED
      BY <3>1 DEF Messages
  <2>4. \A i, j \in DOMAIN published :
          i < j => published[i].id < published[j].id /\ published[i].id # published[j].id
    BY <2>2, <2>3 DEF OrderInv
  <2>5. QED
    BY <2>2, <2>4 DEF PublishIntact, WholeInv
<1>2. QED
  BY <1>1, WireInvariant, PTL

-----------------------------------------------------------------------------
(* The handlers that go from upstream to upstream.                         *)

Answers == [ch : Nat, kind : {"start", "tune", "openOk", "close", "closeOk", "ok"}, id : Nat]

OutTypes == out \in Seq(Answers) /\ applied \in [Upstream -> SUBSET Nat]

\* The handler has been to the first upstreams, one after the other, with a method of the client.
FanInv ==
  pc = "fan" =>
    /\ got \in Seq(Nat) /\ Len(got) <= N
    /\ cur.id \in DOMAIN methods /\ methods[cur.id] = cur /\ cur.ch \in Nat /\ cur.id \in Nat
    /\ cur.kind = "bind" => \A u \in 1 .. Len(got) : cur.id \in applied[u]

\* Ok is written for methods of the client that are carried out everywhere.
OkInv ==
  \A i \in DOMAIN out : out[i].kind = "ok" =>
    /\ out[i].id \in DOMAIN methods
    /\ methods[out[i].id].kind = "bind" => \A u \in Upstream : out[i].id \in applied[u]

AppliedInv == OutTypes /\ FanInv /\ OkInv

\* One answer more, for a method that is carried out everywhere if it is an Ok.
LEMMA OkGrows ==
  ASSUME AppliedInv, methods \in Seq(Frames), DOMAIN methods \subseteq DOMAIN methods',
         \A i \in DOMAIN methods : methods'[i] = methods[i],
         applied' \in [Upstream -> SUBSET Nat],
         \A u \in Upstream : applied[u] \subseteq applied'[u],
         \/ out' = out
         \/ \E r \in Answers :
              /\ out' = Append(out, r)
              /\ r.kind = "ok" => r.id \in DOMAIN methods
              /\ r.kind = "ok" /\ methods[r.id].kind = "bind" =>
                   \A u \in Upstream : r.id \in applied[u]
  PROVE  OutTypes' /\ OkInv'
<1>1. OutTypes /\ OkInv
  BY DEF AppliedInv
<1>2. CASE out' = out
  BY <1>1, <1>2 DEF OutTypes, OkInv
<1>3. ASSUME NEW r \in Answers, out' = Append(out, r),
             r.kind = "ok" => r.id \in DOMAIN methods,
             r.kind = "ok" /\ methods[r.id].kind = "bind" => \A u \in Upstream : r.id \in applied[u]
      PROVE  OutTypes' /\ OkInv'
  <2> DEFINE n == Len(out)
  <2>1. /\ n \in Nat /\ DOMAIN out = 1 .. n /\ DOMAIN out' = 1 .. n + 1 /\ out'[n + 1] = r
        /\ \A i \in 1 .. n : out'[i] = out[i]
        /\ out' \in Seq(Answers)
    BY <1>1, <1>3 DEF OutTypes
  <2> HIDE DEF n
  <2>2. ASSUME NEW i \in DOMAIN out', out'[i].kind = "ok"
        PROVE  /\ out'[i].id \in DOMAIN methods'
               /\ methods'[out'[i].id].kind = "bind" => \A u \in Upstream : out'[i].id \in applied'[u]
    <3>1. CASE i \in 1 .. n
      BY <1>1, <2>1, <2>2, <3>1 DEF OkInv
    <3>2. CASE i = n + 1
      BY <1>3, <2>1, <2>2, <3>2
    <3>3. QED
      BY <2>1, <3>1, <3>2
  <2>3. QED
    BY <2>1, <2>2 DEF OutTypes, OkInv
<1>4. QED
  BY <1>2, <1>3

\* A step that is none of a handler's own.
LEMMA QuietStep ==
  ASSUME AppliedInv, methods \in Seq(Frames), DOMAIN methods \subseteq DOMAIN methods',
         \A i \in DOMAIN methods : methods'[i] = methods[i],
         applied' = applied,
         out' = out \/ (\E r \in Answers : out' = Append(out, r) /\ r.kind # "ok"),
         pc' # "fan" \/ UNCHANGED <<pc, cur, got>>
  PROVE  AppliedInv'
<1>1. OutTypes' /\ OkInv'
  BY OkGrows DEF AppliedInv, OutTypes
<1>2. FanInv'
  BY DEF AppliedInv, FanInv
<1>3. QED
  BY <1>1, <1>2 DEF AppliedInv

LEMMA SendSays ==
  ASSUME NEW ch \in Nat, NEW kind \in {"start", "tune", "openOk", "close", "closeOk", "ok"},
         NEW id \in Nat, NEW p, Send(ch, kind, id, p)
  PROVE  out' = out \/ \E r \in Answers : out' = Append(out, r) /\ r.kind = kind /\ r.id = id
<1>1. /\ [ch |-> ch, kind |-> kind, id |-> id] \in Answers
      /\ [ch |-> ch, kind |-> kind, id |-> id].kind = kind
      /\ [ch |-> ch, kind |-> kind, id |-> id].id = id
  BY DEF Answers
<1>2. out' = out \/ out' = Append(out, [ch |-> ch, kind |-> kind, id |-> id])
  BY DEF Send
<1>3. QED
  BY <1>1, <1>2

LEMMA FrameFields == \A f \in Frames : f.ch \in Nat /\ f.id \in Nat
<1>1. Channel \union {0} \subseteq Nat
  BY ConnectionAssumption
<1>2. \A f \in Frames : f.ch \in Channel \union {0} /\ f.id \in Nat
  BY DEF Frames
<1>3. QED
  BY <1>1, <1>2

LEMMA AppliedStep ==
  ASSUME WireInv, AppliedInv, [Next]_vars
  PROVE  AppliedInv'
<1>1. /\ WireTypes /\ methods \in Seq(Frames) /\ GenuineInv
      /\ cur.ch \in Nat /\ cur.id \in Nat
  <2>1. WireTypes /\ methods \in Seq(Frames) /\ GenuineInv /\ cur \in Frames
    BY DEF WireInv, WireTypes
  <2>2. QED
    BY <2>1, FrameFields
<1>2. in # <<>> => /\ Head(in) = in[1] /\ 1 \in DOMAIN in /\ Head(in).ch \in Nat
                   /\ Head(in).id \in Nat
  <2>1. in # <<>> => Head(in) = in[1] /\ 1 \in DOMAIN in /\ Head(in) \in Frames
    BY <1>1 DEF WireTypes
  <2>2. QED
    BY <2>1, FrameFields
<1>3. OutTypes /\ FanInv /\ OkInv
  BY DEF AppliedInv
<1> DEFINE Elsewhere == pc' # "fan" /\ UNCHANGED <<methods, applied>>
<1>4. ASSUME Elsewhere, out' = out PROVE AppliedInv'
  BY <1>1, <1>4, QuietStep
<1>5. ASSUME Elsewhere, NEW ch \in Nat, NEW id \in Nat,
             NEW kind \in {"start", "tune", "openOk", "close", "closeOk"},
             NEW p, Send(ch, kind, id, p)
      PROVE  AppliedInv'
  <2>1. out' = out \/ \E r \in Answers : out' = Append(out, r) /\ r.kind # "ok"
    BY <1>5, SendSays
  <2>2. QED
    BY <1>1, <1>5, <2>1, QuietStep
<1>6. CASE ClientNext
  <2>1. UNCHANGED <<pc, cur, got, out, applied>>
    BY <1>6 DEF ClientNext, ClientHandshake, ClientHeartbeat, ClientCloseOk, HangUp, ClientMethod,
                ClientContent, upstreams
  <2>2. methods' = methods \/ \E f : methods' = Append(methods, f)
    BY <1>6 DEF ClientNext, ClientHandshake, ClientHeartbeat, ClientCloseOk, HangUp, ClientMethod,
                ClientContent
  <2>3. /\ DOMAIN methods \subseteq DOMAIN methods'
        /\ \A i \in DOMAIN methods : methods'[i] = methods[i]
    BY <1>1, <2>2
  <2>4. QED
    BY <1>1, <2>1, <2>3, QuietStep
<1>7. CASE \/ UNCHANGED vars \/ Cancel \/ MonitorUpstreamConnection
           \/ \E u \in Upstream : LoseUpstream(u)
  <2>1. UNCHANGED <<pc, cur, got, out, applied, methods>>
    BY <1>7 DEF vars, Cancel, MonitorUpstreamConnection, LoseUpstream, clientVars, upstreams
  <2>2. QED
    BY <1>1, <2>1, QuietStep
<1>8. CASE HandshakeStep
  <2>1. UNCHANGED <<methods, applied>> /\ pc \in {"header", "startOk", "tuneOk", "open"}
    BY <1>8 DEF HandshakeStep, clientVars, upstreams, Expected
  <2>2. \/ Send(0, "start", 0, "startOk") \/ Send(0, "tune", 0, "tuneOk")
        \/ Goto("open") /\ out' = out
        \/ Send(0, "openOk", 0, "connect")
    BY <1>8, <2>1 DEF HandshakeStep
  <2>3. pc' # "fan"
    BY <2>2, SendDoes DEF Goto
  <2>4. QED
    BY <1>4, <1>5, <2>1, <2>2, <2>3
<1>9. CASE HandshakeFails \/ ConnectToUpstreams \/ ReadNothing \/ AwaitCloseOk
  <2>1. pc' # "fan" /\ UNCHANGED <<methods, applied, out>>
    BY <1>9 DEF HandshakeFails, ConnectToUpstreams, ReadNothing, AwaitCloseOk, Goto, clientVars,
                upstreams
  <2>2. QED
    BY <1>4, <2>1
<1>10. CASE Select
  <2>1. UNCHANGED <<methods, applied>>
    BY <1>10 DEF Select, clientVars, upstreams
  <2>2. Send(0, "close", 0, "closing") \/ (Goto("read") /\ out' = out)
    BY <1>10 DEF Select
  <2>3. pc' # "fan"
    BY <2>2, SendDoes DEF Goto
  <2>4. QED
    BY <1>4, <1>5, <2>1, <2>2, <2>3
<1>11. CASE in # <<>> /\ Dispatch0
  <2>1. UNCHANGED <<methods, applied>>
    BY <1>11 DEF Dispatch0, clientVars, upstreams
  <2>2. \/ Send(0, "closeOk", Head(in).id, "loop")
        \/ (Goto("loop") \/ Goto("end")) /\ out' = out
    BY <1>11 DEF Dispatch0
  <2>3. pc' # "fan"
    BY <2>2, SendDoes DEF Goto
  <2>4. QED
    BY <1>2, <1>4, <1>5, <1>11, <2>1, <2>2, <2>3
<1>12. CASE in # <<>> /\ DispatchN
  <2>1. UNCHANGED <<methods, applied>> /\ Head(in).ch # 0
    BY <1>12 DEF DispatchN, clientVars, upstreams
  <2>2. CASE Head(in).kind \in Fanned
    <3>1. pc' = "fan" /\ cur' = Head(in) /\ got' = <<>> /\ out' = out
      BY <1>12, <2>2 DEF DispatchN, Fanned
    <3>2. Head(in).id \in DOMAIN methods /\ Head(in) = methods[Head(in).id]
      <4>1. ASSUME NEW m \in Publishes, NEW k \in 1 .. m.n + 1, Head(in) = Piece(m, k) PROVE FALSE
        <5>1. m \in Frames /\ k \in 0 .. m.n + 1 /\ k # 0
          BY <1>1, PublishesAre
        <5>2. Piece(m, k).kind = "header" \/ Piece(m, k).kind = "body"
          BY <5>1, PieceTells
        <5>3. QED
          BY <2>2, <4>1, <5>2 DEF Fanned
      <4>2. QED
        BY <1>1, <1>2, <1>12, <2>1, <4>1 DEF GenuineInv
    <3>3. OutTypes' /\ OkInv'
      BY <1>3, <2>1, <3>1 DEF OutTypes, OkInv
    <3>4. got' \in Seq(Nat) /\ Len(got') = 0 /\ N \in Nat
      BY <3>1, ConnectionAssumption DEF N
    <3>5. FanInv'
      BY <1>2, <1>12, <2>1, <3>1, <3>2, <3>4 DEF FanInv
    <3>6. QED
      BY <3>3, <3>5 DEF AppliedInv
  <2>3. CASE Head(in).kind \notin Fanned
    <3>1. \/ pc' = "content" /\ out' = out
          \/ Send(Head(in).ch, "close", Head(in).id, "loop")
          \/ Goto("end") /\ out' = out
      BY <1>12, <2>3 DEF DispatchN
    <3>2. pc' # "fan"
      BY <3>1, SendDoes DEF Goto
    <3>3. QED
      BY <1>2, <1>4, <1>5, <1>12, <2>1, <3>1, <3>2
  <2>4. QED
    BY <2>2, <2>3
<1>13. CASE in # <<>> /\ RecvContent
  <2>1. UNCHANGED <<methods, applied>> /\ pc = "content"
    BY <1>13 DEF RecvContent, Publish, clientVars, upstreams
  <2>2. \/ Send(cur.ch, "close", cur.id, "loop")
        \/ Goto("loop") /\ out' = out
        \/ pc' = pc /\ out' = out
    BY <1>13 DEF RecvContent, Publish
  <2>3. pc' # "fan"
    BY <2>1, <2>2, SendDoes DEF Goto
  <2>4. QED
    BY <1>1, <1>4, <1>5, <2>1, <2>2, <2>3
<1>14. CASE RecvNothing
  <2>1. UNCHANGED <<methods, applied>> /\ Send(cur.ch, "close", cur.id, "loop")
    BY <1>14 DEF RecvNothing, clientVars, upstreams
  <2>2. pc' # "fan"
    BY <2>1, SendDoes
  <2>3. QED
    BY <1>1, <1>5, <2>1, <2>2
<1>15. CASE FanCall
  <2>1. methods' = methods /\ pc = "fan" /\ Len(got) < N
    BY <1>15 DEF FanCall, Rest, clientVars
  <2>2. CASE Send(cur.ch, "close", cur.id, "loop") /\ applied' = applied
    <3>1. pc' # "fan"
      BY <2>2, SendDoes
    <3>2. QED
      BY <1>1, <1>5, <2>1, <2>2, <3>1
  <2>3. CASE /\ got' = Append(got, Len(got) + 1)
             /\ applied' = IF cur.kind = "purge" THEN applied
                           ELSE [applied EXCEPT ![Len(got) + 1] = @ \union {cur.id}]
             /\ UNCHANGED <<pc, cur, out>>
    <3>1. /\ got \in Seq(Nat) /\ cur.id \in DOMAIN methods /\ methods[cur.id] = cur
          /\ cur.kind = "bind" => \A u \in 1 .. Len(got) : cur.id \in applied[u]
      BY <1>3, <2>1 DEF FanInv
    <3>2. N \in Nat /\ Upstream = 1 .. N
      BY ConnectionAssumption DEF N, Upstream
    <3>3. /\ got' \in Seq(Nat) /\ Len(got') = Len(got) + 1 /\ Len(got') <= N
          /\ Len(got) \in Nat /\ Len(got) + 1 \in Upstream
      BY <2>1, <2>3, <3>1, <3>2
    <3>4. applied \in [Upstream -> SUBSET Nat]
      BY <1>3 DEF OutTypes
    <3>5. /\ applied' \in [Upstream -> SUBSET Nat]
          /\ \A u \in Upstream : applied[u] \subseteq applied'[u]
          /\ cur.kind = "bind" => cur.id \in applied'[Len(got) + 1]
      BY <1>1, <2>3, <3>3, <3>4
    <3>6. OutTypes' /\ OkInv'
      BY <1>1, <2>1, <2>3, <3>5, OkGrows
    <3>7. ASSUME cur.kind = "bind", NEW u \in 1 .. Len(got') PROVE cur.id \in applied'[u]
      <4>1. CASE u \in 1 .. Len(got)
        <5>1. u \in Upstream
          BY <3>2, <3>3, <4>1
        <5>2. cur.id \in applied[u]
          BY <3>1, <3>7, <4>1
        <5>3. QED
          BY <3>5, <5>1, <5>2
      <4>2. CASE u = Len(got) + 1
        BY <3>5, <3>7, <4>2
      <4>3. QED
        BY <3>3, <4>1, <4>2
    <3>8. FanInv'
      BY <1>1, <2>1, <2>3, <3>1, <3>3, <3>7 DEF FanInv
    <3>9. QED
      BY <3>6, <3>8 DEF AppliedInv
  <2>4. QED
    BY <1>15, <2>2, <2>3 DEF FanCall
<1>16. CASE FanReply
  <2>1. /\ UNCHANGED <<methods, applied>> /\ pc = "fan" /\ ~(Len(got) < N)
        /\ Send(cur.ch, "ok", cur.id, "loop")
    BY <1>16 DEF FanReply, Rest, clientVars, upstreams
  <2>2. pc' # "fan"
    BY <2>1, SendDoes
  <2>3. /\ got \in Seq(Nat) /\ cur.id \in DOMAIN methods /\ methods[cur.id] = cur
        /\ cur.kind = "bind" => \A u \in 1 .. Len(got) : cur.id \in applied[u]
    BY <1>3, <2>1 DEF FanInv
  <2>4. \A u \in Upstream : u \in 1 .. Len(got)
    <3>1. N \in Nat /\ Upstream = 1 .. N /\ Len(got) \in Nat
      BY <2>3, ConnectionAssumption DEF N, Upstream
    <3>2. QED
      BY <2>1, <3>1
  <2>5. out' = out \/ \E r \in Answers : out' = Append(out, r) /\ r.kind = "ok" /\ r.id = cur.id
    BY <1>1, <2>1, SendSays
  <2>6. OutTypes' /\ OkInv'
    <3>1. applied' \in [Upstream -> SUBSET Nat] /\ \A u \in Upstream : applied[u] \subseteq applied'[u]
      BY <1>3, <2>1 DEF OutTypes
    <3>2. \/ out' = out
          \/ \E r \in Answers :
               /\ out' = Append(out, r)
               /\ r.kind = "ok" => r.id \in DOMAIN methods
               /\ r.kind = "ok" /\ methods[r.id].kind = "bind" =>
                    \A u \in Upstream : r.id \in applied[u]
      BY <2>3, <2>4, <2>5
    <3>3. QED
      BY <1>1, <2>1, <3>1, <3>2, OkGrows
  <2>7. QED
    BY <2>2, <2>6 DEF AppliedInv, FanInv
<1>17. QED
  BY <1>6, <1>7, <1>8, <1>9, <1>10, <1>11, <1>12, <1>13, <1>14, <1>15, <1>16 DEF Next, ProxyNext

\* The fan-out of the methods that wait for each upstream (Queue.Bind without no-wait,
\* Queue.Unbind, Basic.Qos, Exchange.Declare; not Queue.Purge), for any number of upstreams: Ok reaches the client only
\* when every upstream has carried the method out, whichever upstream refused it, was lost or
\* answered while the client sent other frames.
THEOREM OkOnlyIfApplied == Spec => []OkMeansApplied
<1>1. Init => AppliedInv
  <2>1. SUFFICES ASSUME Init PROVE AppliedInv
    OBVIOUS
  <2>2. out = <<>> /\ applied = [u \in Upstream |-> {}] /\ pc # "fan"
    BY <2>1 DEF Init
  <2>3. OutTypes
    BY <2>2 DEF OutTypes
  <2>4. QED
    BY <2>2, <2>3 DEF AppliedInv, FanInv, OkInv
<1>2. WireInv /\ AppliedInv /\ [Next]_vars => AppliedInv'
  BY AppliedStep
<1>3. AppliedInv => OkMeansApplied
  BY DEF AppliedInv, OkInv, OkMeansApplied
<1>4. QED
  BY <1>1, <1>2, <1>3, WireInvariant, PTL DEF Spec

-----------------------------------------------------------------------------
(* Routing.  Match fills a table with one entry for a place in the key and *)
(* one in the pattern.  The entries are right (TableRight): else there is  *)
(* one that is wrong and has the fewest words ahead of it, but those that  *)
(* it is made of have fewer.                                               *)

\* Every set of numbers has a least one.
LEMMA LeastNumber ==
  ASSUME NEW T, T \subseteq Nat, T # {}
  PROVE  \E x \in T : \A y \in T : x <= y
<1>1. PICK R : R = OpToRel(<, Nat)
  OBVIOUS
<1>2. \E x \in T : \A y \in T : ~(<<y, x>> \in R)
  BY <1>1, WFMin, NatLessThanWellFounded, Zenon
<1>3. ASSUME NEW x \in Nat, NEW y \in Nat PROVE <<y, x>> \in R <=> y < x
  <2>1. R = {p \in Nat \X Nat : p[1] < p[2]}
    BY <1>1, Zenon DEF OpToRel
  <2>2. QED
    BY <2>1
<1>4. PICK x \in T : \A y \in T : ~(<<y, x>> \in R)
  BY <1>2
<1>5. ASSUME NEW y \in T PROVE x <= y
  <2>1. x \in Nat /\ y \in Nat /\ ~(<<y, x>> \in R)
    BY <1>4
  <2>2. ~(y < x)
    BY <1>3, <2>1
  <2>3. QED
    BY <2>1, <2>2
<1>6. QED
  BY <1>5

\* From element c of a pattern of n, and position a of a text of m: the rest of the text can be
\* cut into pieces for the rest of the pattern.  Wild elements (W) take any piece, the others
\* one element that fits (F).
Cuts(m, n, W, F, a, c) ==
  \E cut \in [c..n -> 0..m] :
    /\ cut[c] = a /\ cut[n] = m
    /\ \A i \in c + 1..n :
         /\ cut[i - 1] <= cut[i]
         /\ i \in W \/ (cut[i] = cut[i - 1] + 1 /\ <<cut[i], i>> \in F)

\* Behind the pattern there must be no text.
LEMMA CutsEnd ==
  ASSUME NEW m \in Nat, NEW n \in Nat, NEW W, NEW F, NEW a \in 0..m
  PROVE  Cuts(m, n, W, F, a, n) <=> a = m
<1>1. ASSUME a = m PROVE Cuts(m, n, W, F, a, n)
  <2>1. PICK cut : cut = [i \in n..n |-> m]
    OBVIOUS
  <2>2. cut \in [n..n -> 0..m] /\ cut[n] = a /\ cut[n] = m
    BY <1>1, <2>1
  <2>3. n + 1..n = {}
    OBVIOUS
  <2>4. QED
    BY <2>2, <2>3 DEF Cuts
<1>2. QED
  BY <1>1 DEF Cuts

\* A text that is used up leaves the wild elements only.
LEMMA CutsUsedUp ==
  ASSUME NEW m \in Nat, NEW n \in Nat, NEW W, NEW F, NEW c \in 0..n
  PROVE  Cuts(m, n, W, F, m, c) <=> \A i \in c + 1..n : i \in W
<1>1. ASSUME \A i \in c + 1..n : i \in W PROVE Cuts(m, n, W, F, m, c)
  <2>1. PICK cut : cut = [i \in c..n |-> m]
    OBVIOUS
  <2>2. cut \in [c..n -> 0..m] /\ cut[c] = m /\ cut[n] = m
    BY <2>1
  <2>3. \A i \in c + 1..n : i - 1 \in c..n /\ i \in c..n
    OBVIOUS
  <2>4. \A i \in c + 1..n : cut[i - 1] <= cut[i] /\ i \in W
    BY <1>1, <2>1, <2>3
  <2>5. QED
    BY <2>2, <2>4, Zenon DEF Cuts
<1>2. ASSUME Cuts(m, n, W, F, m, c), NEW j \in c + 1..n PROVE j \in W
  <2>1. PICK cut \in [c..n -> 0..m] :
          /\ cut[c] = m
          /\ \A i \in c + 1..n :
               /\ cut[i - 1] <= cut[i]
               /\ i \in W \/ (cut[i] = cut[i - 1] + 1 /\ <<cut[i], i>> \in F)
    BY <1>2, Zenon DEF Cuts
  <2> DEFINE T == {i \in c..n : cut[i] # m}
  <2>2. T = {}
    <3> SUFFICES ASSUME T # {} PROVE FALSE
      OBVIOUS
    <3>1. PICK i \in T : \A y \in T : i <= y
      <4>1. T \subseteq Nat
        OBVIOUS
      <4>2. QED
        BY <4>1, LeastNumber
    <3>2. i \in c..n /\ cut[i] # m
      OBVIOUS
    <3>3. i # c
      BY <2>1, <3>2
    <3>4. i \in c + 1..n /\ i - 1 \in c..n /\ i - 1 \notin T
      BY <3>1, <3>2, <3>3
    <3>5. cut[i - 1] = m /\ cut[i - 1] <= cut[i] /\ cut[i] \in 0..m
      BY <2>1, <3>2, <3>4
    <3>6. QED
      BY <3>2, <3>5
  <2>3. j \in c..n /\ j - 1 \in c..n
    OBVIOUS
  <2>4. cut[j] = m /\ cut[j - 1] = m
    BY <2>2, <2>3
  <2>5. j \in W \/ cut[j] = cut[j - 1] + 1
    BY <2>1
  <2>6. QED
    BY <2>4, <2>5
<1>3. QED
  BY <1>1, <1>2

\* A wild element takes nothing or one more element of the text.
LEMMA CutsWild ==
  ASSUME NEW m \in Nat, NEW n \in Nat, NEW W, NEW F, NEW a \in 0..m, NEW c \in 0..n,
         a < m, c < n, c + 1 \in W
  PROVE  Cuts(m, n, W, F, a, c) <=> Cuts(m, n, W, F, a, c + 1) \/ Cuts(m, n, W, F, a + 1, c)
<1> DEFINE Good(cut, i) == /\ cut[i - 1] <= cut[i]
                           /\ i \in W \/ (cut[i] = cut[i - 1] + 1 /\ <<cut[i], i>> \in F)
<1>0. /\ c \in c..n /\ c + 1 \in c..n /\ n \in c..n /\ n \in c + 1..n /\ c + 1 \in c + 1..n
      /\ c + 1..n \subseteq c..n /\ (c + 1) + 1..n \subseteq c + 1..n /\ n # c
      /\ \A i \in (c + 1) + 1..n : i - 1 \in c + 1..n /\ i # c /\ i - 1 # c
      /\ \A i \in c + 1..n : i # c + 1 => i \in (c + 1) + 1..n
      /\ (c + 1) - 1 = c /\ a + 1 \in 0..m
  OBVIOUS
<1>1. ASSUME Cuts(m, n, W, F, a, c)
      PROVE  Cuts(m, n, W, F, a, c + 1) \/ Cuts(m, n, W, F, a + 1, c)
  <2>1. PICK cut \in [c..n -> 0..m] : cut[c] = a /\ cut[n] = m /\ \A i \in c + 1..n : Good(cut, i)
    BY <1>1, Zenon DEF Cuts
  <2>2. a <= cut[c + 1] /\ cut[c + 1] \in 0..m
    BY <1>0, <2>1
  <2>3. CASE cut[c + 1] = a
    <3>1. PICK rest : rest = [i \in c + 1..n |-> cut[i]]
      OBVIOUS
    <3>2. rest \in [c + 1..n -> 0..m] /\ rest[c + 1] = a /\ rest[n] = m
      BY <1>0, <2>1, <2>3, <3>1
    <3>3. ASSUME NEW i \in (c + 1) + 1..n PROVE Good(rest, i)
      <4>1. Good(cut, i)
        BY <1>0, <2>1
      <4>2. rest[i] = cut[i] /\ rest[i - 1] = cut[i - 1]
        BY <1>0, <3>1
      <4>3. QED
        BY <4>1, <4>2
    <3>4. Cuts(m, n, W, F, a, c + 1)
      BY <3>2, <3>3, Zenon DEF Cuts
    <3>5. QED
      BY <3>4
  <2>4. CASE cut[c + 1] # a
    <3>1. PICK more : more = [cut EXCEPT ![c] = a + 1]
      OBVIOUS
    <3>2. more \in [c..n -> 0..m] /\ more[c] = a + 1 /\ more[n] = m
      BY <1>0, <2>1, <3>1
    <3>3. ASSUME NEW i \in c + 1..n PROVE Good(more, i)
      <4>1. CASE i = c + 1
        <5>1. more[i - 1] = a + 1 /\ more[i] = cut[c + 1]
          BY <1>0, <3>1, <4>1
        <5>2. more[i - 1] <= more[i]
          BY <2>2, <2>4, <5>1
        <5>3. QED
          BY <4>1, <5>2
      <4>2. CASE i # c + 1
        <5>1. Good(cut, i)
          BY <2>1
        <5>2. more[i] = cut[i] /\ more[i - 1] = cut[i - 1]
          BY <1>0, <3>1, <4>2
        <5>3. QED
          BY <5>1, <5>2
      <4>3. QED
        BY <4>1, <4>2
    <3>4. Cuts(m, n, W, F, a + 1, c)
      BY <3>2, <3>3, Zenon DEF Cuts
    <3>5. QED
      BY <3>4
  <2>5. QED
    BY <2>3, <2>4
<1>2. ASSUME Cuts(m, n, W, F, a, c + 1) PROVE Cuts(m, n, W, F, a, c)
  <2>1. PICK rest \in [c + 1..n -> 0..m] :
          rest[c + 1] = a /\ rest[n] = m /\ \A i \in (c + 1) + 1..n : Good(rest, i)
    BY <1>2, Zenon DEF Cuts
  <2>2. PICK cut : cut = [i \in c..n |-> IF i = c THEN a ELSE rest[i]]
    OBVIOUS
  <2>3. \A i \in c + 1..n : cut[i] = rest[i]
    BY <1>0, <2>2
  <2>4. cut[c] = a
    BY <1>0, <2>2
  <2>5. cut \in [c..n -> 0..m]
    <3>1. \A i \in c..n : i = c \/ i \in c + 1..n
      OBVIOUS
    <3>2. QED
      BY <2>1, <2>2, <3>1
  <2>6. ASSUME NEW i \in c + 1..n PROVE Good(cut, i)
    <3>1. CASE i = c + 1
      BY <1>0, <2>1, <2>3, <2>4, <3>1
    <3>2. CASE i # c + 1
      <4>1. Good(rest, i)
        BY <1>0, <2>1, <3>2
      <4>2. cut[i] = rest[i] /\ cut[i - 1] = rest[i - 1]
        BY <1>0, <2>3, <3>2
      <4>3. QED
        BY <4>1, <4>2
    <3>3. QED
      BY <3>1, <3>2
  <2>7. cut[n] = m
    BY <1>0, <2>1, <2>3
  <2>8. QED
    BY <2>4, <2>5, <2>6, <2>7, Zenon DEF Cuts
<1>3. ASSUME Cuts(m, n, W, F, a + 1, c) PROVE Cuts(m, n, W, F, a, c)
  <2>1. PICK more \in [c..n -> 0..m] :
          more[c] = a + 1 /\ more[n] = m /\ \A i \in c + 1..n : Good(more, i)
    BY <1>3, Zenon DEF Cuts
  <2>2. PICK cut : cut = [more EXCEPT ![c] = a]
    OBVIOUS
  <2>3. cut \in [c..n -> 0..m] /\ cut[c] = a /\ cut[n] = m
    BY <1>0, <2>1, <2>2
  <2>4. ASSUME NEW i \in c + 1..n PROVE Good(cut, i)
    <3>1. CASE i = c + 1
      <4>1. cut[i - 1] = a /\ cut[i] = more[c + 1] /\ a + 1 <= more[c + 1] /\ more[c + 1] \in 0..m
        BY <1>0, <2>1, <2>2, <3>1
      <4>2. cut[i - 1] <= cut[i]
        BY <4>1
      <4>3. QED
        BY <3>1, <4>2
    <3>2. CASE i # c + 1
      <4>1. Good(more, i)
        BY <2>1
      <4>2. cut[i] = more[i] /\ cut[i - 1] = more[i - 1]
        BY <1>0, <2>1, <2>2, <3>2
      <4>3. QED
        BY <4>1, <4>2
    <3>3. QED
      BY <3>1, <3>2
  <2>5. QED
    BY <2>3, <2>4, Zenon DEF Cuts
<1>4. QED
  BY <1>1, <1>2, <1>3

\* Another element takes one element of the text that fits it.
LEMMA CutsPlain ==
  ASSUME NEW m \in Nat, NEW n \in Nat, NEW W, NEW F, NEW a \in 0..m, NEW c \in 0..n,
         a < m, c < n, c + 1 \notin W
  PROVE  Cuts(m, n, W, F, a, c) <=> <<a + 1, c + 1>> \in F /\ Cuts(m, n, W, F, a + 1, c + 1)
<1> DEFINE Good(cut, i) == /\ cut[i - 1] <= cut[i]
                           /\ i \in W \/ (cut[i] = cut[i - 1] + 1 /\ <<cut[i], i>> \in F)
<1>0. /\ c \in c..n /\ c + 1 \in c..n /\ n \in c..n /\ n \in c + 1..n /\ c + 1 \in c + 1..n
      /\ c + 1..n \subseteq c..n /\ (c + 1) + 1..n \subseteq c + 1..n /\ n # c
      /\ \A i \in (c + 1) + 1..n : i - 1 \in c + 1..n
      /\ \A i \in c + 1..n : i # c + 1 => i \in (c + 1) + 1..n
      /\ (c + 1) - 1 = c /\ a + 1 \in 0..m
  OBVIOUS
<1>1. ASSUME Cuts(m, n, W, F, a, c)
      PROVE  <<a + 1, c + 1>> \in F /\ Cuts(m, n, W, F, a + 1, c + 1)
  <2>1. PICK cut \in [c..n -> 0..m] : cut[c] = a /\ cut[n] = m /\ \A i \in c + 1..n : Good(cut, i)
    BY <1>1, Zenon DEF Cuts
  <2>2. cut[c + 1] = a + 1 /\ <<a + 1, c + 1>> \in F
    <3>1. Good(cut, c + 1)
      BY <1>0, <2>1
    <3>2. QED
      BY <1>0, <2>1, <3>1
  <2>3. PICK rest : rest = [i \in c + 1..n |-> cut[i]]
    OBVIOUS
  <2>4. rest \in [c + 1..n -> 0..m] /\ rest[c + 1] = a + 1 /\ rest[n] = m
    BY <1>0, <2>1, <2>2, <2>3
  <2>5. ASSUME NEW i \in (c + 1) + 1..n PROVE Good(rest, i)
    <3>1. Good(cut, i)
      BY <1>0, <2>1
    <3>2. rest[i] = cut[i] /\ rest[i - 1] = cut[i - 1]
      BY <1>0, <2>3
    <3>3. QED
      BY <3>1, <3>2
  <2>6. Cuts(m, n, W, F, a + 1, c + 1)
    BY <2>4, <2>5, Zenon DEF Cuts
  <2>7. QED
    BY <2>2, <2>6
<1>2. ASSUME <<a + 1, c + 1>> \in F, Cuts(m, n, W, F, a + 1, c + 1) PROVE Cuts(m, n, W, F, a, c)
  <2>1. PICK rest \in [c + 1..n -> 0..m] :
          rest[c + 1] = a + 1 /\ rest[n] = m /\ \A i \in (c + 1) + 1..n : Good(rest, i)
    BY <1>2, Zenon DEF Cuts
  <2>2. PICK cut : cut = [i \in c..n |-> IF i = c THEN a ELSE rest[i]]
    OBVIOUS
  <2>3. \A i \in c + 1..n : cut[i] = rest[i]
    BY <1>0, <2>2
  <2>4. cut[c] = a
    BY <1>0, <2>2
  <2>5. cut \in [c..n -> 0..m]
    <3>1. \A i \in c..n : i = c \/ i \in c + 1..n
      OBVIOUS
    <3>2. QED
      BY <2>1, <2>2, <3>1
  <2>6. ASSUME NEW i \in c + 1..n PROVE Good(cut, i)
    <3>1. CASE i = c + 1
      <4>1. cut[i] = a + 1 /\ cut[i - 1] = a
        BY <1>0, <2>1, <2>3, <2>4, <3>1
      <4>2. QED
        BY <1>2, <3>1, <4>1
    <3>2. CASE i # c + 1
      <4>1. Good(rest, i)
        BY <1>0, <2>1, <3>2
      <4>2. cut[i] = rest[i] /\ cut[i - 1] = rest[i - 1]
        BY <1>0, <2>3, <3>2
      <4>3. QED
        BY <4>1, <4>2
    <3>3. QED
      BY <3>1, <3>2
  <2>7. cut[n] = m
    BY <1>0, <2>1, <2>3
  <2>8. QED
    BY <2>4, <2>5, <2>6, <2>7, Zenon DEF Cuts
<1>3. QED
  BY <1>1, <1>2

\* The table the matchers fill, from the end of text and pattern to their beginning.
Entry(m, n, W, F, h, r, b) ==
  IF b > n THEN r > m
  ELSE IF r > m THEN \A c \in b..n : c \in W
  ELSE IF b \in W THEN h[<<r, b + 1>>] \/ h[<<r + 1, b>>]
  ELSE <<r, b>> \in F /\ h[<<r + 1, b + 1>>]

\* Each entry says whether the rest of the text can be cut, if the ones it is made of do.
LEMMA EntryRight ==
  ASSUME NEW m \in Nat, NEW n \in Nat, NEW W, NEW F, NEW h, NEW r \in 1..m + 1, NEW b \in 1..n + 1,
         r <= m /\ b <= n =>
           /\ h[<<r, b + 1>>] <=> Cuts(m, n, W, F, r - 1, b)
           /\ h[<<r + 1, b>>] <=> Cuts(m, n, W, F, r, b - 1)
           /\ h[<<r + 1, b + 1>>] <=> Cuts(m, n, W, F, r, b)
  PROVE  Entry(m, n, W, F, h, r, b) <=> Cuts(m, n, W, F, r - 1, b - 1)
<1>1. CASE b > n
  <2>1. b - 1 = n /\ r - 1 \in 0..m
    BY <1>1
  <2>2. Cuts(m, n, W, F, r - 1, b - 1) <=> r - 1 = m
    BY <2>1, CutsEnd
  <2>3. r - 1 = m <=> r > m
    OBVIOUS
  <2>4. QED
    BY <1>1, <2>2, <2>3 DEF Entry
<1>2. CASE ~(b > n) /\ r > m
  <2>1. r - 1 = m /\ b - 1 \in 0..n /\ (b - 1) + 1 = b
    BY <1>2
  <2>2. Cuts(m, n, W, F, r - 1, b - 1) <=> \A c \in b..n : c \in W
    BY <2>1, CutsUsedUp
  <2>3. QED
    BY <1>2, <2>2 DEF Entry
<1>3. CASE ~(b > n) /\ ~(r > m)
  <2>1. PICK a \in 0..m, c \in 0..n : a = r - 1 /\ c = b - 1
    OBVIOUS
  <2>2. a < m /\ c < n /\ a + 1 = r /\ c + 1 = b /\ r <= m /\ b <= n
    BY <1>3, <2>1
  <2>3. CASE b \in W
    <3>1. Cuts(m, n, W, F, a, c) <=> Cuts(m, n, W, F, a, b) \/ Cuts(m, n, W, F, r, c)
      BY <2>2, <2>3, CutsWild
    <3>2. Entry(m, n, W, F, h, r, b) <=> (h[<<r, b + 1>>] \/ h[<<r + 1, b>>])
      BY <1>3, <2>3, Zenon DEF Entry
    <3>3. QED
      BY <2>1, <2>2, <3>1, <3>2
  <2>4. CASE b \notin W
    <3>1. Cuts(m, n, W, F, a, c) <=> <<r, b>> \in F /\ Cuts(m, n, W, F, r, b)
      BY <2>2, <2>4, CutsPlain
    <3>2. Entry(m, n, W, F, h, r, b) <=> (<<r, b>> \in F /\ h[<<r + 1, b + 1>>])
      BY <1>3, <2>4, Zenon DEF Entry
    <3>3. QED
      BY <2>1, <2>2, <3>1, <3>2
  <2>5. QED
    BY <2>3, <2>4
<1>4. QED
  BY <1>1, <1>2, <1>3

\* A full table says for every place whether the rest of the text can be cut there: were there
\* a place where it does not, take one nearest to the end.
LEMMA TableRight ==
  ASSUME NEW m \in Nat, NEW n \in Nat, NEW W, NEW F, NEW h,
         \A r \in 1..m + 1, b \in 1..n + 1 : h[<<r, b>>] <=> Entry(m, n, W, F, h, r, b)
  PROVE  h[<<1, 1>>] <=> Cuts(m, n, W, F, 0, 0)
<1> DEFINE Right(r, b) == h[<<r, b>>] <=> Cuts(m, n, W, F, r - 1, b - 1)
           T == {k \in Nat : \E r \in 1..m + 1, b \in 1..n + 1 :
                               k = (m + 1 - r) + (n + 1 - b) /\ ~Right(r, b)}
<1>1. T = {}
  <2> SUFFICES ASSUME T # {} PROVE FALSE
    OBVIOUS
  <2>1. PICK k \in T : \A y \in T : k <= y
    <3>1. T \subseteq Nat
      OBVIOUS
    <3>2. QED
      BY <3>1, LeastNumber
  <2>2. PICK r \in 1..m + 1, b \in 1..n + 1 : k = (m + 1 - r) + (n + 1 - b) /\ ~Right(r, b)
    BY <2>1
  <2>3. ASSUME NEW r2 \in 1..m + 1, NEW b2 \in 1..n + 1,
               (m + 1 - r2) + (n + 1 - b2) < (m + 1 - r) + (n + 1 - b)
        PROVE  Right(r2, b2)
    <3> SUFFICES ASSUME ~Right(r2, b2) PROVE FALSE
      OBVIOUS
    <3>1. PICK j \in Nat : j = (m + 1 - r2) + (n + 1 - b2)
      OBVIOUS
    <3>2. j \in T
      BY <3>1
    <3> HIDE DEF T, Right
    <3>3. k <= j
      BY <2>1, <3>2
    <3>4. QED
      BY <2>2, <2>3, <3>1, <3>3
  <2> HIDE DEF T
  <2>4. ASSUME r <= m, b <= n
        PROVE  /\ h[<<r, b + 1>>] <=> Cuts(m, n, W, F, r - 1, b)
               /\ h[<<r + 1, b>>] <=> Cuts(m, n, W, F, r, b - 1)
               /\ h[<<r + 1, b + 1>>] <=> Cuts(m, n, W, F, r, b)
    <3>1. /\ r + 1 \in 1..m + 1 /\ b + 1 \in 1..n + 1 /\ (r + 1) - 1 = r /\ (b + 1) - 1 = b
      BY <2>4
    <3>2. Right(r, b + 1) /\ Right(r + 1, b) /\ Right(r + 1, b + 1)
      <4> HIDE DEF Right
      <4>1. QED
        BY <2>3, <3>1
    <3>3. QED
      BY <3>1, <3>2
  <2>5. Entry(m, n, W, F, h, r, b) <=> Cuts(m, n, W, F, r - 1, b - 1)
    BY <2>4, EntryRight
  <2>6. Right(r, b)
    BY <2>5
  <2>7. QED
    BY <2>2, <2>6
<1>2. Right(1, 1)
  <2> SUFFICES ASSUME ~Right(1, 1) PROVE FALSE
    OBVIOUS
  <2>1. m + 1 - 1 = m /\ n + 1 - 1 = n /\ 1 \in 1..m + 1 /\ 1 \in 1..n + 1 /\ m + n \in Nat
    OBVIOUS
  <2>2. m + n \in T
    BY <2>1
  <2>3. QED
    BY <1>1, <2>2
<1>3. QED
  BY <1>2

\* And there is such a table.
IsTable(m, n, W, F, g) ==
  /\ g = [at \in (1..m + 1) \X (1..n + 1) |-> g[at]]
  /\ \A r \in 1..m + 1, b \in 1..n + 1 : g[<<r, b>>] = Entry(m, n, W, F, g, r, b)

\* The one of the right answers is.
LEMMA TableExists ==
  ASSUME NEW m \in Nat, NEW n \in Nat, NEW W, NEW F
  PROVE  \E g : IsTable(m, n, W, F, g)
<1> DEFINE S == (1..m + 1) \X (1..n + 1)
<1>1. PICK g : g = [at \in S |-> Cuts(m, n, W, F, at[1] - 1, at[2] - 1)]
  OBVIOUS
<1>2. ASSUME NEW r \in 1..m + 1, NEW b \in 1..n + 1
      PROVE  g[<<r, b>>] = Cuts(m, n, W, F, r - 1, b - 1)
  <2>1. <<r, b>> \in S /\ <<r, b>>[1] = r /\ <<r, b>>[2] = b
    OBVIOUS
  <2>2. g[<<r, b>>] = Cuts(m, n, W, F, <<r, b>>[1] - 1, <<r, b>>[2] - 1)
    BY <1>1, <2>1, Zenon
  <2>3. QED
    BY <2>1, <2>2
<1>3. ASSUME NEW r \in 1..m + 1, NEW b \in 1..n + 1
      PROVE  g[<<r, b>>] = Entry(m, n, W, F, g, r, b)
  <2>1. ASSUME r <= m, b <= n
        PROVE  /\ g[<<r, b + 1>>] <=> Cuts(m, n, W, F, r - 1, b)
               /\ g[<<r + 1, b>>] <=> Cuts(m, n, W, F, r, b - 1)
               /\ g[<<r + 1, b + 1>>] <=> Cuts(m, n, W, F, r, b)
    <3>1. /\ r + 1 \in 1..m + 1 /\ b + 1 \in 1..n + 1 /\ (r + 1) - 1 = r /\ (b + 1) - 1 = b
      BY <2>1
    <3>2. /\ g[<<r, b + 1>>] = Cuts(m, n, W, F, r - 1, (b + 1) - 1)
          /\ g[<<r + 1, b>>] = Cuts(m, n, W, F, (r + 1) - 1, b - 1)
          /\ g[<<r + 1, b + 1>>] = Cuts(m, n, W, F, (r + 1) - 1, (b + 1) - 1)
      BY <1>2, <3>1
    <3>3. QED
      BY <3>1, <3>2
  <2>2. Entry(m, n, W, F, g, r, b) <=> Cuts(m, n, W, F, r - 1, b - 1)
    BY <2>1, EntryRight
  <2>3. Cuts(m, n, W, F, r - 1, b - 1) \in BOOLEAN
    BY Zenon DEF Cuts
  <2>4. Entry(m, n, W, F, g, r, b) \in BOOLEAN
    <3>1. CASE b > n
      <4>1. (r > m) \in BOOLEAN
        BY SMT
      <4>2. QED
        BY <3>1, <4>1, Zenon DEF Entry
    <3>2. CASE ~(b > n) /\ r > m
      BY <3>2, Zenon DEF Entry
    <3>3. CASE ~(b > n) /\ ~(r > m) /\ b \in W
      BY <3>3, Zenon DEF Entry
    <3>4. CASE ~(b > n) /\ ~(r > m) /\ b \notin W
      BY <3>4, Zenon DEF Entry
    <3>5. QED
      BY <3>1, <3>2, <3>3, <3>4, Zenon
  <2>5. QED
    BY <1>2, <2>2, <2>3, <2>4
<1>4. g = [at \in S |-> g[at]]
  BY <1>1
<1>5. IsTable(m, n, W, F, g)
  BY <1>3, <1>4 DEF IsTable
<1>6. QED
  BY <1>5

\* matchTokenWithPercent finds what % means, in words of any length.
LEMMA PercentMeans ==
  ASSUME NEW text, NEW pat, Len(text) \in Nat, Len(pat) \in Nat
  PROVE  matchTokenWithPercent(text, pat)
           <=> Means(text, pat, LAMBDA c : c = Percent, LAMBDA c, d : c = d)
<1> DEFINE m == Len(text)
           n == Len(pat)
           S == (1..m + 1) \X (1..n + 1)
           W == {i \in 1..n : pat[i] = Percent}
           F == {x \in (1..m) \X (1..n) : pat[x[2]] = text[x[1]]}
           e(f, t, p) == IF p > n THEN t > m
                         ELSE IF t > m THEN \A q \in p..n : pat[q] = Percent
                         ELSE IF pat[p] = Percent THEN f[<<t, p + 1>>] \/ f[<<t + 1, p>>]
                         ELSE pat[p] = text[t] /\ f[<<t + 1, p + 1>>]
<1>0. m \in Nat /\ n \in Nat
  OBVIOUS
<1>1. ASSUME NEW f, NEW t \in 1..m + 1, NEW p \in 1..n + 1
      PROVE  e(f, t, p) = Entry(m, n, W, F, f, t, p)
  <2>1. CASE p > n
    BY <2>1, Zenon DEF Entry
  <2>2. CASE ~(p > n) /\ t > m
    <3>1. p..n \subseteq 1..n
      BY <1>0
    <3>2. (\A q \in p..n : pat[q] = Percent) <=> (\A q \in p..n : q \in W)
      BY <3>1
    <3>3. QED
      BY <2>2, <3>2, Zenon DEF Entry
  <2>3. CASE ~(p > n) /\ ~(t > m)
    <3>1. p \in 1..n /\ t \in 1..m
      BY <1>0, <2>3
    <3>2. p \in W <=> pat[p] = Percent
      BY <3>1
    <3>3. <<t, p>> \in F <=> pat[p] = text[t]
      BY <3>1
    <3>4. QED
      BY <2>3, <3>2, <3>3, Zenon DEF Entry
  <2>4. QED
    BY <2>1, <2>2, <2>3, Zenon
<1>2. PICK h : h = CHOOSE f : f = [at \in S |-> e(f, at[1], at[2])]
  OBVIOUS
<1>3. matchTokenWithPercent(text, pat) = h[<<1, 1>>]
  BY <1>2, Zenon DEF matchTokenWithPercent
<1> HIDE DEF e, W, F, m, n
<1>4. PICK g : IsTable(m, n, W, F, g)
  BY <1>0, TableExists
<1>5. ASSUME NEW at \in S PROVE g[at] = e(g, at[1], at[2])
  <2>1. at[1] \in 1..m + 1 /\ at[2] \in 1..n + 1 /\ at = <<at[1], at[2]>>
    OBVIOUS
  <2>2. g[<<at[1], at[2]>>] = Entry(m, n, W, F, g, at[1], at[2])
    BY <1>4, <2>1 DEF IsTable
  <2>3. QED
    BY <1>1, <2>1, <2>2, Zenon
<1>6. g = [at \in S |-> e(g, at[1], at[2])]
  BY <1>4, <1>5, Zenon DEF IsTable
<1>7. h = [at \in S |-> e(h, at[1], at[2])]
  BY <1>2, <1>6, Zenon
<1>8. ASSUME NEW t \in 1..m + 1, NEW p \in 1..n + 1
      PROVE  h[<<t, p>>] <=> Entry(m, n, W, F, h, t, p)
  <2>1. PICK at \in S : at = <<t, p>>
    OBVIOUS
  <2>2. at[1] = t /\ at[2] = p
    BY <2>1
  <2>3. h[at] = e(h, at[1], at[2])
    BY <1>7, Zenon
  <2>4. h[<<t, p>>] = e(h, t, p)
    BY <2>1, <2>2, <2>3, Zenon
  <2>5. QED
    BY <1>1, <2>4, Zenon
<1>9. h[<<1, 1>>] <=> Cuts(m, n, W, F, 0, 0)
  BY <1>0, <1>8, TableRight
<1>10. ASSUME NEW cut \in [0..n -> 0..m], NEW i \in 1..n
       PROVE  (i \in W \/ (cut[i] = cut[i - 1] + 1 /\ <<cut[i], i>> \in F))
                <=> (pat[i] = Percent \/ (cut[i] = cut[i - 1] + 1 /\ text[cut[i]] = pat[i]))
  <2>1. i \in W <=> pat[i] = Percent
    BY DEF W
  <2>2. ASSUME cut[i] = cut[i - 1] + 1 PROVE <<cut[i], i>> \in F <=> text[cut[i]] = pat[i]
    <3>1. cut[i] \in 1..m
      BY <1>0, <2>2
    <3>2. QED
      BY <3>1 DEF F
  <2>3. QED
    BY <2>1, <2>2
<1>11. Cuts(m, n, W, F, 0, 0) <=> Means(text, pat, LAMBDA c : c = Percent, LAMBDA c, d : c = d)
  <2>1. 0 + 1 = 1
    OBVIOUS
  <2>2. QED
    BY <1>10, <2>1 DEF Cuts, Means, m, n
<1>12. QED
  BY <1>3, <1>9, <1>11

\* Without % a pattern means itself.
LEMMA PlainMeans ==
  ASSUME NEW C, NEW text \in Seq(C), NEW pat \in Seq(C), ~\E i \in DOMAIN pat : pat[i] = Percent
  PROVE  text = pat <=> Means(text, pat, LAMBDA c : c = Percent, LAMBDA c, d : c = d)
<1> DEFINE m == Len(text)
           n == Len(pat)
<1>0. m \in Nat /\ n \in Nat /\ DOMAIN pat = 1..n
  OBVIOUS
<1>1. ASSUME text = pat
      PROVE  Means(text, pat, LAMBDA c : c = Percent, LAMBDA c, d : c = d)
  <2>1. PICK cut : cut = [i \in 0..n |-> i]
    OBVIOUS
  <2>2. cut \in [0..n -> 0..m] /\ cut[0] = 0 /\ cut[n] = m
    BY <1>0, <1>1, <2>1
  <2>3. ASSUME NEW i \in 1..n
        PROVE  cut[i - 1] <= cut[i] /\ cut[i] = cut[i - 1] + 1 /\ text[cut[i]] = pat[i]
    <3>1. i \in 0..n /\ i - 1 \in 0..n
      BY <1>0
    <3>2. cut[i] = i /\ cut[i - 1] = i - 1
      BY <2>1, <3>1
    <3>3. QED
      BY <1>1, <3>2
  <2>4. QED
    BY <2>2, <2>3, Zenon DEF Means
<1>2. ASSUME Means(text, pat, LAMBDA c : c = Percent, LAMBDA c, d : c = d)
      PROVE  text = pat
  <2>1. PICK cut \in [0..n -> 0..m] :
          /\ cut[0] = 0 /\ cut[n] = m
          /\ \A i \in 1..n : pat[i] = Percent \/ (cut[i] = cut[i - 1] + 1 /\ text[cut[i]] = pat[i])
    BY <1>2, Zenon DEF Means
  <2>2. \A i \in 1..n : cut[i] = cut[i - 1] + 1 /\ text[cut[i]] = pat[i]
    BY <1>0, <2>1
  <2> DEFINE T == {i \in 0..n : cut[i] # i}
  <2>3. T = {}
    <3> SUFFICES ASSUME T # {} PROVE FALSE
      OBVIOUS
    <3>1. PICK i \in T : \A y \in T : i <= y
      <4>1. T \subseteq Nat
        BY <1>0
      <4>2. QED
        BY <4>1, LeastNumber
    <3>2. i \in 0..n /\ cut[i] # i
      OBVIOUS
    <3>3. i # 0
      BY <2>1, <3>2
    <3>4. i \in 1..n /\ i - 1 \in 0..n /\ i - 1 \notin T
      BY <1>0, <3>1, <3>2, <3>3
    <3>5. cut[i - 1] = i - 1 /\ cut[i] = cut[i - 1] + 1
      BY <2>2, <3>4
    <3>6. QED
      BY <1>0, <3>2, <3>5
  <2>4. \A i \in 0..n : cut[i] = i
    BY <2>3
  <2>5. m = n
    BY <1>0, <2>1, <2>4
  <2>6. \A i \in 1..n : text[i] = pat[i]
    BY <1>0, <2>2, <2>4
  <2>7. QED
    BY <2>5, <2>6, SeqEqual
<1>3. QED
  BY <1>1, <1>2

\* A word of the key fits a word of the pattern, in the code and by what the wildcards mean.
LEMMA WordMatches ==
  ASSUME NEW C, NEW text \in Seq(C), NEW pat \in Seq(C)
  PROVE  (\/ pat = Star
          \/ IF \E i \in DOMAIN pat : pat[i] = Percent
             THEN matchTokenWithPercent(text, pat)
             ELSE text = pat) <=> WordMeans(text, pat)
<1>1. CASE \E i \in DOMAIN pat : pat[i] = Percent
  <2>1. matchTokenWithPercent(text, pat)
          <=> Means(text, pat, LAMBDA c : c = Percent, LAMBDA c, d : c = d)
    <3>1. Len(text) \in Nat /\ Len(pat) \in Nat
      OBVIOUS
    <3>2. QED
      BY <3>1, PercentMeans, Zenon
  <2>2. QED
    BY <1>1, <2>1, Zenon DEF WordMeans
<1>2. CASE ~\E i \in DOMAIN pat : pat[i] = Percent
  <2>1. text = pat <=> Means(text, pat, LAMBDA c : c = Percent, LAMBDA c, d : c = d)
    BY <1>2, PlainMeans
  <2>2. QED
    BY <1>2, <2>1, Zenon DEF WordMeans
<1>3. QED
  BY <1>1, <1>2

\* matchTokens finds what the wildcards mean, in keys and patterns of any length.
LEMMA TokensMean ==
  ASSUME NEW C, NEW routing \in Seq(Seq(C)), NEW binding \in Seq(Seq(C))
  PROVE  matchTokens(routing, binding) <=> Means(routing, binding, LAMBDA w : w = Hash, WordMeans)
<1> DEFINE m == Len(routing)
           n == Len(binding)
           S == (1..m + 1) \X (1..n + 1)
           W == {i \in 1..n : binding[i] = Hash}
           F == {x \in (1..m) \X (1..n) : WordMeans(routing[x[1]], binding[x[2]])}
           e(f, r, b) == IF b > n THEN r > m
                         ELSE IF r > m THEN \A c \in b..n : binding[c] = Hash
                         ELSE IF binding[b] = Hash THEN f[<<r, b + 1>>] \/ f[<<r + 1, b>>]
                         ELSE /\ \/ binding[b] = Star
                                 \/ IF \E i \in DOMAIN binding[b] : binding[b][i] = Percent
                                    THEN matchTokenWithPercent(routing[r], binding[b])
                                    ELSE routing[r] = binding[b]
                              /\ f[<<r + 1, b + 1>>]
<1>0. m \in Nat /\ n \in Nat
  OBVIOUS
<1>1. ASSUME NEW f, NEW r \in 1..m + 1, NEW b \in 1..n + 1
      PROVE  e(f, r, b) = Entry(m, n, W, F, f, r, b)
  <2>1. CASE b > n
    BY <2>1, Zenon DEF Entry
  <2>2. CASE ~(b > n) /\ r > m
    <3>1. b..n \subseteq 1..n
      BY <1>0
    <3>2. (\A c \in b..n : binding[c] = Hash) <=> (\A c \in b..n : c \in W)
      BY <3>1
    <3>3. QED
      BY <2>2, <3>2, Zenon DEF Entry
  <2>3. CASE ~(b > n) /\ ~(r > m)
    <3>1. b \in 1..n /\ r \in 1..m
      BY <1>0, <2>3
    <3>2. b \in W <=> binding[b] = Hash
      BY <3>1
    <3>3. <<r, b>> \in F <=> WordMeans(routing[r], binding[b])
      BY <3>1
    <3>4. routing[r] \in Seq(C) /\ binding[b] \in Seq(C)
      BY <3>1
    <3>5. (\/ binding[b] = Star
           \/ IF \E i \in DOMAIN binding[b] : binding[b][i] = Percent
              THEN matchTokenWithPercent(routing[r], binding[b])
              ELSE routing[r] = binding[b]) <=> WordMeans(routing[r], binding[b])
      BY <3>4, WordMatches
    <3>6. QED
      BY <2>3, <3>2, <3>3, <3>5, Zenon DEF Entry
  <2>4. QED
    BY <2>1, <2>2, <2>3, Zenon
<1>2. PICK h : h = CHOOSE f : f = [at \in S |-> e(f, at[1], at[2])]
  OBVIOUS
<1>3. matchTokens(routing, binding) = h[<<1, 1>>]
  BY <1>2, Zenon DEF matchTokens
<1> HIDE DEF e, W, F, m, n
<1>4. PICK g : IsTable(m, n, W, F, g)
  BY <1>0, TableExists
<1>5. ASSUME NEW at \in S PROVE g[at] = e(g, at[1], at[2])
  <2>1. at[1] \in 1..m + 1 /\ at[2] \in 1..n + 1 /\ at = <<at[1], at[2]>>
    OBVIOUS
  <2>2. g[<<at[1], at[2]>>] = Entry(m, n, W, F, g, at[1], at[2])
    BY <1>4, <2>1 DEF IsTable
  <2>3. QED
    BY <1>1, <2>1, <2>2, Zenon
<1>6. g = [at \in S |-> e(g, at[1], at[2])]
  BY <1>4, <1>5, Zenon DEF IsTable
<1>7. h = [at \in S |-> e(h, at[1], at[2])]
  BY <1>2, <1>6, Zenon
<1>8. ASSUME NEW r \in 1..m + 1, NEW b \in 1..n + 1
      PROVE  h[<<r, b>>] <=> Entry(m, n, W, F, h, r, b)
  <2>1. PICK at \in S : at = <<r, b>>
    OBVIOUS
  <2>2. at[1] = r /\ at[2] = b
    BY <2>1
  <2>3. h[at] = e(h, at[1], at[2])
    BY <1>7, Zenon
  <2>4. h[<<r, b>>] = e(h, r, b)
    BY <2>1, <2>2, <2>3, Zenon
  <2>5. QED
    BY <1>1, <2>4, Zenon
<1>9. h[<<1, 1>>] <=> Cuts(m, n, W, F, 0, 0)
  BY <1>0, <1>8, TableRight
<1>10. ASSUME NEW cut \in [0..n -> 0..m], NEW i \in 1..n
       PROVE  (i \in W \/ (cut[i] = cut[i - 1] + 1 /\ <<cut[i], i>> \in F))
                <=> (binding[i] = Hash
                       \/ (cut[i] = cut[i - 1] + 1 /\ WordMeans(routing[cut[i]], binding[i])))
  <2>1. i \in W <=> binding[i] = Hash
    BY DEF W
  <2>2. ASSUME cut[i] = cut[i - 1] + 1
        PROVE  <<cut[i], i>> \in F <=> WordMeans(routing[cut[i]], binding[i])
    <3>1. cut[i] \in 1..m
      BY <1>0, <2>2
    <3>2. QED
      BY <3>1 DEF F
  <2>3. QED
    BY <2>1, <2>2
<1>11. Cuts(m, n, W, F, 0, 0) <=> Means(routing, binding, LAMBDA w : w = Hash, WordMeans)
  <2>1. 0 + 1 = 1
    OBVIOUS
  <2>2. QED
    BY <1>10, <2>1 DEF Cuts, Means, m, n
<1>12. QED
  BY <1>3, <1>9, <1>11

\* For every routing key and every pattern, of any number of words of any length, Match holds
\* exactly if the key has several words or the pattern only one, and the wildcards of the pattern
\* mean the key.  So Match is the meaning of the wildcards except for a key of one word and a
\* pattern of several, which it refuses even where a # could stand for no word.
THEOREM MatchIsMeaning ==
  ASSUME NEW C, NEW key \in Seq(Seq(C)) \ {<<>>}, NEW pat \in Seq(Seq(C)) \ {<<>>}
  PROVE  Match(key, pat) <=> (Len(pat) = 1 \/ Len(key) > 1) /\ KeyMeans(key, pat)
<1>1. Len(key) \in Nat \ {0} /\ Len(pat) \in Nat \ {0}
  BY EmptySeq
<1>5. \A p, k \in Nat \ {0} : ~(p > 1 /\ k = 1) <=> p = 1 \/ k > 1
  OBVIOUS
<1>2. ~(Len(pat) > 1 /\ Len(key) = 1) <=> Len(pat) = 1 \/ Len(key) > 1
  BY <1>1, <1>5, Zenon
<1>3. matchTokens(key, pat) <=> Means(key, pat, LAMBDA w : w = Hash, WordMeans)
  BY TokensMean
<1>4. QED
  BY <1>2, <1>3, Zenon DEF Match, KeyMeans

\* Route, for any upstreams: the first one of whose patterns means the key, or the default.
First(u, for) == IF for = {} THEN u = 1 ELSE u \in for /\ \A v \in for : u <= v

\* For any key that is not Short.
LEMMA RouteIsFirst ==
  ASSUME NEW key \in Key, ~Short(key)
  PROVE  First(Route(key, KeyPatterns), Meant(key))
<1>1. /\ key \in Seq(Seq(STRING)) \ {<<>>}
      /\ KeyPatterns \in Seq(Seq(Seq(Seq(STRING)) \ {<<>>}))
  BY RoutingAssumption
<1>2. DOMAIN KeyPatterns = Upstream /\ Upstream \subseteq Nat
  BY <1>1 DEF Upstream, N
<1>3. ASSUME NEW u \in Upstream, NEW i \in DOMAIN KeyPatterns[u]
      PROVE  Match(key, KeyPatterns[u][i]) <=> KeyMeans(key, KeyPatterns[u][i])
  <2>1. KeyPatterns[u] \in Seq(Seq(Seq(STRING)) \ {<<>>})
    BY <1>1, <1>2
  <2>2. KeyPatterns[u][i] \in Seq(Seq(STRING)) \ {<<>>}
    BY <2>1
  <2>3. Len(key) \in Nat \ {0} /\ Len(KeyPatterns[u][i]) \in Nat \ {0}
    BY <1>1, <2>2, EmptySeq
  <2>4. ~(Len(key) = 1 /\ Len(KeyPatterns[u][i]) > 1 /\ KeyMeans(key, KeyPatterns[u][i]))
    BY Zenon DEF Short
  <2>5. Match(key, KeyPatterns[u][i])
          <=> (Len(KeyPatterns[u][i]) = 1 \/ Len(key) > 1) /\ KeyMeans(key, KeyPatterns[u][i])
    BY <1>1, <2>2, MatchIsMeaning, Zenon
  <2>6. \A p, k \in Nat \ {0} : ~(p > 1 /\ k = 1) <=> p = 1 \/ k > 1
    OBVIOUS
  <2>7. QED
    BY <2>3, <2>4, <2>5, <2>6, Zenon
<1> DEFINE matching == {u \in DOMAIN KeyPatterns :
                          \E i \in DOMAIN KeyPatterns[u] : Match(key, KeyPatterns[u][i])}
           Least(T) == IF T = {} THEN 1 ELSE CHOOSE u \in T : \A v \in T : u <= v
<1>4. Meant(key) = matching
  BY <1>2, <1>3, Zenon DEF Meant
<1>5. Route(key, KeyPatterns) = Least(Meant(key))
  <2>1. Route(key, KeyPatterns) = Least(matching)
    BY Zenon DEF Route
  <2> HIDE DEF Least, matching
  <2>2. QED
    BY <1>4, <2>1, Zenon
<1>6. CASE Meant(key) = {}
  BY <1>5, <1>6 DEF First
<1>7. CASE Meant(key) # {}
  <2>1. \E u \in Meant(key) : \A v \in Meant(key) : u <= v
    <3>1. Meant(key) \subseteq Nat
      BY <1>2 DEF Meant
    <3>2. QED
      BY <1>7, <3>1, LeastNumber
  <2>2. PICK u : u = CHOOSE w \in Meant(key) : \A v \in Meant(key) : w <= v
    OBVIOUS
  <2>3. u \in Meant(key) /\ \A v \in Meant(key) : u <= v
    BY <2>1, <2>2, Zenon
  <2>4. Route(key, KeyPatterns) = u
    BY <1>5, <1>7, <2>2, Zenon
  <2>5. QED
    BY <1>7, <2>3, <2>4, Zenon DEF First
<1>8. QED
  BY <1>6, <1>7

\* Clients publish with their keys, and what reached an upstream was routed by the key it was
\* published with.
KeyInv ==
  \A i \in DOMAIN methods : methods[i].kind = "publish" => methods[i].key \in Key
RouteInv ==
  \A i \in DOMAIN published :
    /\ published[i].id \in DOMAIN methods /\ methods[published[i].id].kind = "publish"
    /\ published[i].up = Route(methods[published[i].id].key, KeyPatterns)

LEMMA KeyStep ==
  ASSUME WireInv, KeyInv, [Next]_vars
  PROVE  /\ KeyInv' /\ DOMAIN methods \subseteq DOMAIN methods'
         /\ \A i \in DOMAIN methods : methods'[i] = methods[i]
<1>1. methods \in Seq(Frames)
  BY DEF WireInv, WireTypes
<1>2. ASSUME NEW ch, NEW kind, NEW key, NEW n, ClientMethod(ch, kind, key, n),
             kind = "publish" => key \in Key
      PROVE  \E f : methods' = Append(methods, f) /\ (f.kind = "publish" => f.key \in Key)
  <2>1. PICK f : f = Frame(ch, kind, Len(methods) + 1, n, key)
    OBVIOUS
  <2>2. f.kind = kind /\ f.key = key
    BY <2>1 DEF Frame
  <2>3. methods' = Append(methods, f)
    BY <1>2, <2>1 DEF ClientMethod
  <2>4. QED
    BY <1>2, <2>2, <2>3
<1>3. \/ methods' = methods
      \/ \E f : methods' = Append(methods, f) /\ (f.kind = "publish" => f.key \in Key)
  <2>1. CASE ~ClientNext
    BY <2>1
    DEF Next, vars, ProxyNext, Cancel, MonitorUpstreamConnection, LoseUpstream, HandshakeStep,
        HandshakeFails, ConnectToUpstreams, Select, ReadNothing, Dispatch0, DispatchN, RecvContent,
        RecvNothing, FanCall, FanReply, AwaitCloseOk, clientVars
  <2>2. CASE ClientHandshake \/ ClientHeartbeat \/ ClientCloseOk \/ HangUp
             \/ \E c \in Channel : ClientContent(c)
    BY <2>2 DEF ClientHandshake, ClientHeartbeat, ClientCloseOk, HangUp, ClientContent
  <2>3. CASE ClientMethod(0, "close", <<>>, 0)
    BY <1>2, <2>3
  <2>4. ASSUME NEW c \in Channel, NEW kind \in Fanned \union {"unsupported"},
               ClientMethod(c, kind, <<>>, 0)
        PROVE  \E f : methods' = Append(methods, f) /\ (f.kind = "publish" => f.key \in Key)
    BY <1>2, <2>4 DEF Fanned
  <2>5. ASSUME NEW c \in Channel, NEW key \in Key, NEW n \in Size, ClientMethod(c, "publish", key, n)
        PROVE  \E f : methods' = Append(methods, f) /\ (f.kind = "publish" => f.key \in Key)
    BY <1>2, <2>5
  <2>6. QED
    BY <2>1, <2>2, <2>3, <2>4, <2>5 DEF ClientNext
<1>4. CASE methods' = methods
  BY <1>4 DEF KeyInv
<1>5. ASSUME NEW f, methods' = Append(methods, f), f.kind = "publish" => f.key \in Key
      PROVE  /\ KeyInv' /\ DOMAIN methods \subseteq DOMAIN methods'
             /\ \A i \in DOMAIN methods : methods'[i] = methods[i]
  <2> DEFINE n == Len(methods)
  <2>1. /\ n \in Nat /\ DOMAIN methods = 1 .. n /\ DOMAIN methods' = 1 .. n + 1
        /\ methods'[n + 1] = f /\ \A i \in 1 .. n : methods'[i] = methods[i]
    BY <1>1, <1>5
  <2> HIDE DEF n
  <2>2. \A i \in 1 .. n + 1 : i \in 1 .. n \/ i = n + 1
    BY <2>1
  <2>3. KeyInv'
    BY <1>5, <2>1, <2>2 DEF KeyInv
  <2>4. 1 .. n \subseteq 1 .. n + 1
    BY <2>1
  <2>5. QED
    BY <2>1, <2>3, <2>4
<1>6. QED
  BY <1>3, <1>4, <1>5

LEMMA RouteStep ==
  ASSUME WireInv, KeyInv, RouteInv, [Next]_vars
  PROVE  RouteInv'
<1>1. WireTypes /\ published \in Seq(Messages) /\ RecvInv
  BY DEF WireInv
<1>2. DOMAIN methods \subseteq DOMAIN methods' /\ \A i \in DOMAIN methods : methods'[i] = methods[i]
  BY KeyStep
<1>3. CASE published' = published
  BY <1>2, <1>3 DEF RouteInv
<1>4. CASE in # <<>> /\ RecvContent /\ published' # published
  <2>1. pc = "content" /\ published' # published
    BY <1>4 DEF RecvContent
  <2>2. PICK fs : Publish(fs)
    BY <1>4 DEF RecvContent, upstreams
  <2>3. PICK p : /\ p = [id |-> cur.id, up |-> Route(cur.key, KeyPatterns), content |-> fs]
                 /\ published' = Append(published, p)
    BY <2>1, <2>2 DEF Publish, upstreams
  <2>4. p.id = cur.id /\ p.up = Route(cur.key, KeyPatterns)
    BY <2>3
  <2>5. PICK m \in Publishes : cur = m
    BY <1>1, <2>1 DEF RecvInv, Reads
  <2>6. m.kind = "publish" /\ m.id \in DOMAIN methods /\ m = methods[m.id]
    BY <1>1, PublishesAre
  <2>7. /\ p.id \in DOMAIN methods' /\ methods'[p.id].kind = "publish"
        /\ p.up = Route(methods'[p.id].key, KeyPatterns)
    <3>1. p.id \in DOMAIN methods /\ methods'[p.id] = m
      BY <1>2, <2>4, <2>5, <2>6
    <3>2. QED
      BY <1>2, <2>4, <2>5, <2>6, <3>1
  <2> DEFINE n == Len(published)
  <2>8. /\ n \in Nat /\ DOMAIN published = 1 .. n /\ DOMAIN published' = 1 .. n + 1
        /\ published'[n + 1] = p /\ \A i \in 1 .. n : published'[i] = published[i]
    BY <1>1, <2>3
  <2> HIDE DEF n
  <2>9. ASSUME NEW i \in DOMAIN published'
        PROVE  /\ published'[i].id \in DOMAIN methods'
               /\ methods'[published'[i].id].kind = "publish"
               /\ published'[i].up = Route(methods'[published'[i].id].key, KeyPatterns)
    <3>1. i \in 1 .. n \/ i = n + 1
      BY <2>8
    <3>2. CASE i \in 1 .. n
      BY <1>2, <2>8, <3>2 DEF RouteInv
    <3>3. CASE i = n + 1
      BY <2>7, <2>8, <3>3
    <3>4. QED
      BY <3>1, <3>2, <3>3
  <2>10. QED
    BY <2>9 DEF RouteInv
<1>5. published' = published \/ (in # <<>> /\ RecvContent)
  BY DEF Next, vars, ProxyNext, ClientNext, Cancel, MonitorUpstreamConnection, LoseUpstream,
         HandshakeStep, HandshakeFails, ConnectToUpstreams, Select, ReadNothing, Dispatch0,
         DispatchN, RecvNothing, FanCall, FanReply, AwaitCloseOk, ClientHandshake,
         ClientHeartbeat, ClientCloseOk, HangUp, ClientMethod, ClientContent, upstreams
<1>6. QED
  BY <1>3, <1>4, <1>5

\* replyBasicPublish and GetChannelWithIndex, for any keys, patterns and numbers of upstreams: a
\* message reaches the first upstream one of whose patterns means the key it was published with,
\* and the first of all if there is none, whatever was sent, lost or cancelled since.  The one
\* exception is a key of one word that a pattern of several words means.
THEOREM RoutedByMeaning == Spec => []RoutedAsMeant
<1>1. Init => KeyInv /\ RouteInv
  <2>1. Init => DOMAIN methods = {} /\ DOMAIN published = {}
    BY DEF Init
  <2>2. QED
    BY <2>1 DEF KeyInv, RouteInv
<1>2. WireInv /\ KeyInv /\ RouteInv /\ [Next]_vars => KeyInv' /\ RouteInv'
  BY KeyStep, RouteStep
<1>3. KeyInv /\ RouteInv => RoutedAsMeant
  <2> SUFFICES ASSUME KeyInv, RouteInv, NEW i \in DOMAIN published,
                      ~Short(methods[published[i].id].key)
               PROVE  First(published[i].up, Meant(methods[published[i].id].key))
    BY Zenon DEF RoutedAsMeant, MeantFor, First
  <2>1. PICK key : key = methods[published[i].id].key
    OBVIOUS
  <2>2. key \in Key /\ published[i].up = Route(key, KeyPatterns)
    BY <2>1 DEF KeyInv, RouteInv
  <2>3. QED
    BY <2>1, <2>2, RouteIsFirst, Zenon
<1>4. QED
  BY <1>1, <1>2, <1>3, WireInvariant, PTL DEF Spec

=============================================================================
