------------------------- MODULE PacketStreamProofs -------------------------
(***************************************************************************)
(* Theorems about PacketStream: packets arrive intact and in order, within *)
(* the buffers, however the stream is cut into pieces and wherever it is   *)
(* lost, for every radix, all sets of packets and all sizes of buffers.    *)
(*                                                                         *)
(* AnsInv is for the answers of the peer, which readPacket reads, what     *)
(* ReqInv of PacketRequestProofs is for the requests of the client; the    *)
(* inductive invariant StreamInv puts them together.                       *)
(***************************************************************************)
EXTENDS PacketRequestProofs

\* The client is not inside a packet that it reads.
Quiet == {"idle", "write", "header"}

\* readPacket in decodePacket, within packet s: the header byte and the digits ds are read.
InLength(c, b, ds, s, m) ==
  /\ c = "length" /\ m = 1 + Len(ds) /\ Len(ds) \in 0 .. Fixed(s) - 2
  /\ b = First(s, 1) /\ ds = SubSeq(s, 2, 1 + Len(ds))

\* readPacket in its last read, within packet s: m bytes are in readbuf.
InRest(c, b, ds, s, m) ==
  /\ c = "body" /\ m = Len(b) /\ m \in Fixed(s) .. Len(s) - 1
  /\ b = First(s, m) /\ ds = Digits(s) /\ Len(s) <= ReadBufSize

\* The client has read m bytes of packet n + 1 of ps, and readbuf says so.
ReaderAt(c, b, ds, ps, n, m) ==
  \/ c \in Quiet /\ m = 0
  \/ n < Len(ps) /\ InLength(c, b, ds, Serialize(ps[n + 1]), m)
  \/ n < Len(ps) /\ InRest(c, b, ds, Serialize(ps[n + 1]), m)

\* The bytes q on their way to the client go on where it is in the packets.
ReaderIn(q, c, b, ds, ps, n) == \E m : Flow(q, ps, n, m) /\ ReaderAt(c, b, ds, ps, n, m)

\* Likewise, and on a connection that is cut, bytes z that the cut took may be missing at the end.
Near(l, q, c, b, ds, ps, n) ==
  \E z \in Seq(Byte) : (l = "up" => z = <<>>) /\ ReaderIn(q \o z, c, b, ds, ps, n)

\* What a deserialiser can return.
Packets == {Deserialize(d) : d \in Seq(Byte)}

\* The client's buffer, and the packets it got, as far as their number and type go.
BufInv ==
  /\ link \in {"up", "cut"} /\ s2c \in Seq(Byte) /\ answered \in Seq(Sendable) /\ cgot \in Seq(Packets)
  /\ rbuf \in Seq(Byte) /\ Len(rbuf) <= ReadBufSize
  /\ client \in Quiet \cup {"closed"} => rbuf = <<>> /\ digits = <<>>
  /\ Len(cgot) <= Len(answered)

\* The connection is lost and every byte that arrived is read.
Dead(l, q) == l = "cut" /\ q = <<>>
\* Every packet got is the packet sent.
Intact(gs, ps) == \A i \in 1 .. Len(gs) : gs[i] = AsRead(ps[i])

\* Every packet got is the packet sent, but the last, on a connection that is lost and read to its end, may be a
\* header byte that was taken for a packet of length 0.
Truncated(gs, ps, l, q) ==
  \A i \in 1 .. Len(gs) :
    \/ gs[i] = AsRead(ps[i])
    \/ i = Len(gs) /\ Dead(l, q) /\ gs[i] = Deserialize(<<Serialize(ps[i])[1], 0>>)

\* The client's packets are the ones that were sent; while there is something to read, or a length is being read,
\* without that exception, and the bytes on their way go on where the client is.
ReadInv ==
  /\ Truncated(cgot, answered, link, s2c)
  /\ ~ Dead(link, s2c) \/ client = "length" =>
       /\ Intact(cgot, answered)
       /\ client # "closed" => Near(link, s2c, client, rbuf, digits, answered, Len(cgot))

\* The inductive invariant for the packets on their way to the client.
AnsInv == BufInv /\ ReadInv

\* A new connection has it.
LEMMA AnsInit ==
  ASSUME Init
  PROVE  AnsInv
<1>1. <<>> \o <<>> = <<>> /\ Len(<<>>) = 0 /\ <<>> \in Seq(Byte) /\ 1 .. 0 = {}
      /\ <<>> \in Seq(Sendable) /\ <<>> \in Seq(Packets) /\ 0 <= 0 /\ 0 <= ReadBufSize
      /\ "up" \in {"up", "cut"} /\ "idle" \in Quiet
  BY SizesAssumption DEF Quiet
<1>i. /\ link = "up" /\ client = "idle" /\ s2c = <<>> /\ answered = <<>> /\ rbuf = <<>> /\ digits = <<>> /\ cgot = <<>>
  BY Zenon DEF Init
<1>2. BufInv
  BY <1>1, <1>i, Zenon DEF BufInv
<1>3. Intact(<<>>, <<>>) /\ Truncated(<<>>, <<>>, "up", <<>>)
  BY <1>1, Zenon DEF Intact, Truncated
<1>4. ReaderAt("idle", <<>>, <<>>, <<>>, 0, 0)
  BY <1>1, Zenon DEF ReaderAt
<1>5. ReaderIn(<<>>, "idle", <<>>, <<>>, <<>>, 0)
  BY <1>4, FlowBegins, Zenon DEF ReaderIn
<1>6. Near("up", <<>>, "idle", <<>>, <<>>, <<>>, 0)
  BY <1>1, <1>5, Zenon DEF Near
<1>7. ReadInv
  BY <1>1, <1>3, <1>6, <1>i, Zenon DEF ReadInv
<1>8. QED BY <1>2, <1>7, Zenon DEF AnsInv

\* So has a step that leaves this direction alone.
LEMMA AnsSame ==
  ASSUME AnsInv, UNCHANGED <<link, s2c, answered, cgot, rbuf, digits>>,
         client' = client \/ (client \in Quiet /\ client' \in Quiet \cup {"closed"})
  PROVE  AnsInv'
<1>1. BufInv'
  BY Zenon DEF AnsInv, BufInv
<1>2. CASE client' = client
  <2>1. ReadInv'
    BY <1>2, Zenon DEF AnsInv, ReadInv
  <2>2. QED BY <1>1, <2>1, Zenon DEF AnsInv
<1>3. CASE client \in Quiet /\ client' \in Quiet \cup {"closed"}
  <2>1. client # "closed" /\ client # "length" /\ client # "body" /\ client' # "length"
    BY <1>3 DEF Quiet
  <2>2. Truncated(cgot, answered, link, s2c)
    BY Zenon DEF AnsInv, ReadInv
  <2>3. ASSUME ~ Dead(link, s2c)
        PROVE  /\ Intact(cgot, answered)
               /\ client' # "closed" => Near(link, s2c, client', rbuf, digits, answered, Len(cgot))
    <3>1. Intact(cgot, answered) /\ Near(link, s2c, client, rbuf, digits, answered, Len(cgot))
      BY <2>1, <2>3, Zenon DEF AnsInv, ReadInv
    <3>2. ASSUME client' # "closed"
          PROVE  Near(link, s2c, client', rbuf, digits, answered, Len(cgot))
      <4>1. client' \in Quiet
        BY <1>3, <3>2, Zenon
      <4>2. PICK z \in Seq(Byte) : (link = "up" => z = <<>>) /\ ReaderIn(s2c \o z, client, rbuf, digits, answered, Len(cgot))
        BY <3>1, Zenon DEF Near
      <4>3. PICK m : Flow(s2c \o z, answered, Len(cgot), m) /\ ReaderAt(client, rbuf, digits, answered, Len(cgot), m)
        BY <4>2, Zenon DEF ReaderIn
      <4>4. m = 0
        BY <2>1, <4>3, Zenon DEF ReaderAt, InLength, InRest
      <4>5. ReaderAt(client', rbuf, digits, answered, Len(cgot), m)
        BY <4>1, <4>4, Zenon DEF ReaderAt
      <4>6. QED BY <4>2, <4>3, <4>5, Zenon DEF Near, ReaderIn
    <3>3. QED BY <3>1, <3>2, Zenon
  <2>4. ReadInv'
    BY <2>1, <2>2, <2>3, Zenon DEF ReadInv
  <2>5. QED BY <1>1, <2>4, Zenon DEF AnsInv
<1>4. QED BY <1>2, <1>3

\* Sending another packet does not move the client.
LEMMA ReaderAtAppend ==
  ASSUME NEW ps \in Seq(Sendable), NEW x \in Sendable, NEW n \in Nat, NEW c, NEW b, NEW ds, NEW m,
         ReaderAt(c, b, ds, ps, n, m)
  PROVE  ReaderAt(c, b, ds, Append(ps, x), n, m)
<1>1. CASE c \in Quiet /\ m = 0
  BY <1>1, Zenon DEF ReaderAt
<1>2. CASE n < Len(ps)
  <2>1. n < Len(Append(ps, x)) /\ Append(ps, x)[n + 1] = ps[n + 1]
    BY <1>2
  <2>2. QED BY <1>2, <2>1, Zenon DEF ReaderAt
<1>3. QED BY <1>1, <1>2, Zenon DEF ReaderAt

\* Intact packets need no exception.
LEMMA IntactTruncated ==
  ASSUME NEW gs, NEW ps, NEW l, NEW q, Intact(gs, ps)
  PROVE  Truncated(gs, ps, l, q)
  BY Zenon DEF Intact, Truncated

\* The peer serialises a packet.
LEMMA AnsGrows ==
  ASSUME AnsInv, link = "up", Grows, UNCHANGED <<link, client, cgot, rbuf, digits>>
  PROVE  AnsInv'
<1>1. CASE answered' = answered /\ s2c' = s2c
  BY <1>1, AnsSame, Zenon
<1>2. CASE \E x \in Sendable : answered' = Append(answered, x) /\ s2c' = s2c \o Serialize(x)
  <2>1. PICK x \in Sendable : answered' = Append(answered, x) /\ s2c' = s2c \o Serialize(x)
    BY <1>2
  <2> DEFINE n == Len(cgot)
             y == Serialize(x)
             ps == Append(answered, x)
  <2>2. /\ s2c \in Seq(Byte) /\ answered \in Seq(Sendable) /\ cgot \in Seq(Packets) /\ n <= Len(answered)
    BY Zenon DEF AnsInv, BufInv
  <2>3. Wire(y) /\ y \in Seq(Byte)
    BY SendableRoundTrip, Zenon
  <2>4. n \in Nat /\ ps \in Seq(Sendable) /\ n <= Len(ps) /\ \A i \in 1 .. n : ps[i] = answered[i]
    BY <2>2
  <2>5. s2c \o y \in Seq(Byte)
    BY <2>2, <2>3, Concat, Zenon
  <2>6. BufInv'
    <3> HIDE DEF y, ps
    <3>1. s2c' = s2c \o y /\ answered' = ps
      BY <2>1, Zenon DEF y, ps
    <3>2. QED BY <3>1, <2>4, <2>5, Zenon DEF AnsInv, BufInv
  <2>7. ~ Dead(link, s2c)
    BY DEF Dead
  <2>8. Intact(cgot, answered) /\ (client # "closed" => Near(link, s2c, client, rbuf, digits, answered, n))
    BY <2>7, Zenon DEF AnsInv, ReadInv
  <2>9. Intact(cgot, ps)
    <3> HIDE DEF ps
    <3>1. QED BY <2>4, <2>8, Zenon DEF Intact
  <2>10. ASSUME client # "closed"
         PROVE  Near(link, s2c \o y, client, rbuf, digits, ps, n)
    <3>1. PICK z \in Seq(Byte) : (link = "up" => z = <<>>) /\ ReaderIn(s2c \o z, client, rbuf, digits, answered, n)
      BY <2>8, <2>10, Zenon DEF Near
    <3>2. s2c \o z = s2c /\ z = <<>> /\ (s2c \o y) \o <<>> = s2c \o y
      <4>1. z = <<>>
        BY <3>1, Zenon
      <4>2. s2c \o <<>> = s2c
        BY <2>2
      <4> HIDE DEF y
      <4>3. (s2c \o y) \o <<>> = s2c \o y
        BY <2>5
      <4>4. QED BY <4>1, <4>2, <4>3, Zenon
    <3>3. PICK m : Flow(s2c, answered, n, m) /\ ReaderAt(client, rbuf, digits, answered, n, m)
      BY <3>1, <3>2, Zenon DEF ReaderIn
    <3> HIDE DEF n
    <3>4. Flow(s2c \o y, ps, n, m)
      BY <2>2, <2>3, <3>3, FlowAppend, SMT
    <3>5. ReaderAt(client, rbuf, digits, ps, n, m)
      BY <2>2, <2>4, <3>3, ReaderAtAppend, SMT
    <3> HIDE DEF y, ps
    <3>6. ReaderIn((s2c \o y) \o z, client, rbuf, digits, ps, n)
      BY <3>2, <3>4, <3>5, Zenon DEF ReaderIn
    <3>7. QED BY <3>1, <3>6, Zenon DEF Near
  <2>11. ReadInv'
    <3> HIDE DEF y, ps, n
    <3>1. s2c' = s2c \o y /\ answered' = ps /\ n = Len(cgot)
      BY <2>1, Zenon DEF y, ps, n
    <3>2. Truncated(cgot, ps, link, s2c \o y)
      BY <2>9, IntactTruncated, Zenon
    <3>3. QED BY <2>9, <2>10, <3>1, <3>2, Zenon DEF ReadInv
  <2>12. QED BY <2>6, <2>11, Zenon DEF AnsInv
<1>3. QED BY <1>1, <1>2, Zenon DEF Grows

\* The connection is lost: the bytes that had arrived may still be read.
LEMMA AnsLost ==
  ASSUME AnsInv, link = "up", link' = "cut", NEW k \in 0 .. Len(s2c), s2c' = First(s2c, k),
         UNCHANGED <<client, answered, cgot, rbuf, digits>>
  PROVE  AnsInv'
<1>1. s2c \in Seq(Byte)
  BY Zenon DEF AnsInv, BufInv
<1>2. First(s2c, k) \in Seq(Byte) /\ Rest(s2c, k) \in Seq(Byte) /\ First(s2c, k) \o Rest(s2c, k) = s2c
  BY <1>1, Halves, SplitAt, Zenon
<1>3. ~ Dead(link, s2c) /\ "cut" # "up" /\ "cut" \in {"up", "cut"}
  BY DEF Dead
<1>4. Intact(cgot, answered) /\ (client # "closed" => Near(link, s2c, client, rbuf, digits, answered, Len(cgot)))
  BY <1>3, Zenon DEF AnsInv, ReadInv
<1>5. BufInv'
  BY <1>2, <1>3, Zenon DEF AnsInv, BufInv
<1>6. ASSUME client # "closed"
      PROVE  Near("cut", s2c', client, rbuf, digits, answered, Len(cgot))
  <2>1. PICK z \in Seq(Byte) : (link = "up" => z = <<>>) /\ ReaderIn(s2c \o z, client, rbuf, digits, answered, Len(cgot))
    BY <1>4, <1>6, Zenon DEF Near
  <2>2. z = <<>> /\ s2c \o <<>> = s2c
    BY <1>1, <2>1
  <2>3. ReaderIn(s2c' \o Rest(s2c, k), client, rbuf, digits, answered, Len(cgot))
    BY <1>2, <2>1, <2>2, Zenon
  <2>4. QED BY <1>2, <1>3, <2>3, Zenon DEF Near
<1>7. Truncated(cgot, answered, "cut", s2c')
  BY <1>4, IntactTruncated, Zenon
<1>8. ReadInv'
  BY <1>4, <1>6, <1>7, Zenon DEF ReadInv
<1>9. QED BY <1>5, <1>8, Zenon DEF AnsInv

\* Where a client that has bytes to read is.
LEMMA ReaderPlace ==
  ASSUME AnsInv, s2c # <<>>, client # "closed"
  PROVE  /\ Intact(cgot, answered) /\ Len(cgot) < Len(answered)
         /\ \E z \in Seq(Byte) : \E m :
              /\ link = "up" => z = <<>>
              /\ Reads(s2c, z, answered, Len(cgot), m)
              /\ \/ client \in Quiet /\ m = 0
                 \/ InLength(client, rbuf, digits, Serialize(answered[Len(cgot) + 1]), m)
                 \/ InRest(client, rbuf, digits, Serialize(answered[Len(cgot) + 1]), m)
<1> DEFINE n == Len(cgot)
<1>1. ~ Dead(link, s2c)
  BY Zenon DEF Dead
<1>2. Intact(cgot, answered) /\ Near(link, s2c, client, rbuf, digits, answered, n)
  BY <1>1, Zenon DEF AnsInv, ReadInv
<1>3. PICK z \in Seq(Byte) : (link = "up" => z = <<>>) /\ ReaderIn(s2c \o z, client, rbuf, digits, answered, n)
  BY <1>2, Zenon DEF Near
<1>4. PICK m : Flow(s2c \o z, answered, n, m) /\ ReaderAt(client, rbuf, digits, answered, n, m)
  BY <1>3, Zenon DEF ReaderIn
<1>5. s2c \in Seq(Byte) /\ answered \in Seq(Sendable) /\ cgot \in Seq(Packets)
  BY Zenon DEF AnsInv, BufInv
<1>6. Len(answered) \in Nat /\ n \in Nat
  BY <1>5
<1>7. m \in Nat
  BY <1>4, Zenon DEF Flow
<1>8. n < Len(answered)
  <2>1. CASE m = 0
    <3> DEFINE q == s2c \o z
    <3>1. q # <<>>
      BY <1>5
    <3>2. Flow(q, answered, n, 0)
      BY <1>4, <2>1, Zenon
    <3> HIDE DEF q, n
    <3>3. QED BY <1>6, <3>1, <3>2, FlowNotDone, Zenon
  <2>2. CASE m # 0
    BY <1>4, <2>2, Zenon DEF ReaderAt
  <2>3. QED BY <2>1, <2>2
<1>9. Reads(s2c, z, answered, n, m)
  BY <1>4, <1>5, <1>6, <1>7, <1>8, Zenon DEF Reads
<1>10. QED BY <1>2, <1>3, <1>4, <1>8, <1>9, Zenon DEF ReaderAt

\* A step that moves the client to byte m of packet n + 1, here s.
ReaderMoves(n, z, s, m) ==
  /\ AnsInv /\ Intact(cgot, answered) /\ n = Len(cgot) /\ n < Len(answered) /\ ReadFrame /\ cgot' = cgot
  /\ z \in Seq(Byte) /\ (link = "up" => z = <<>>) /\ s2c' \in Seq(Byte) /\ Flow(s2c' \o z, answered, n, m)
  /\ s = Serialize(answered[n + 1]) /\ Wire(s)
  /\ InLength(client', rbuf', digits', s, m) \/ InRest(client', rbuf', digits', s, m)

\* Moving on inside a packet preserves the invariant.
LEMMA AnsAdvance ==
  ASSUME NEW n, NEW z, NEW s, NEW m, ReaderMoves(n, z, s, m)
  PROVE  AnsInv'
<1> USE DEF ReaderMoves
<1>1. link' = link /\ answered' = answered
  BY Zenon DEF ReadFrame, peerVars
<1>2. s \in Seq(Byte) /\ Fixed(s) \in 2 .. 5 /\ Fixed(s) <= Len(s) /\ Len(s) \in Nat
  BY WireShape, Zenon
<1>3. rbuf' \in Seq(Byte) /\ Len(rbuf') <= ReadBufSize /\ client' \notin Quiet \cup {"closed"}
  <2>1. CASE InLength(client', rbuf', digits', s, m)
    <3>1. client' = "length" /\ rbuf' = First(s, 1)
      BY <2>1, Zenon DEF InLength
    <3>2. First(s, 1) \in Seq(Byte) /\ Len(First(s, 1)) = 1
      <4>1. 1 \in 0 .. Len(s)
        BY <1>2
      <4>2. QED BY <1>2, <4>1, Halves, Zenon
    <3>3. 1 <= ReadBufSize
      BY SizesAssumption
    <3>4. "length" \notin Quiet \cup {"closed"}
      BY DEF Quiet
    <3>5. QED BY <3>1, <3>2, <3>3, <3>4, Zenon
  <2>2. CASE InRest(client', rbuf', digits', s, m)
    <3>1. client' = "body" /\ rbuf' = First(s, m) /\ m \in Fixed(s) .. Len(s) - 1 /\ Len(s) <= ReadBufSize
      BY <2>2, Zenon DEF InRest
    <3>2. m \in 0 .. Len(s) /\ m <= ReadBufSize
      BY <1>2, <3>1, SizesAssumption
    <3>3. First(s, m) \in Seq(Byte) /\ Len(First(s, m)) = m
      BY <1>2, <3>2, Halves, Zenon
    <3>4. "body" \notin Quiet \cup {"closed"}
      BY DEF Quiet
    <3>5. QED BY <3>1, <3>2, <3>3, <3>4, Zenon
  <2>3. QED BY <2>1, <2>2
<1>4. BufInv'
  BY <1>1, <1>3, Zenon DEF AnsInv, BufInv
<1>5. ReaderAt(client', rbuf', digits', answered, n, m)
  BY Zenon DEF ReaderAt
<1>6. ReaderIn(s2c' \o z, client', rbuf', digits', answered, n)
  BY <1>5, Zenon DEF ReaderIn
<1>7. Near(link, s2c', client', rbuf', digits', answered, n)
  BY <1>6, Zenon DEF Near
<1>8. Truncated(cgot, answered, link, s2c')
  BY IntactTruncated, Zenon
<1>9. ReadInv'
  BY <1>1, <1>7, <1>8, Zenon DEF ReadInv
<1>10. QED BY <1>4, <1>9, Zenon DEF AnsInv

\* A deserialiser returns one of its results.
LEMMA DeserializeIs ==
  ASSUME NEW d \in Seq(Byte)
  PROVE  Deserialize(d) \in Packets
  BY Zenon DEF Packets

\* A step in which the client takes packet n + 1, all of whose bytes it has.
ReaderCompletes(n, z, s) ==
  /\ AnsInv /\ Intact(cgot, answered) /\ n = Len(cgot) /\ n < Len(answered) /\ ReadFrame
  /\ z \in Seq(Byte) /\ (link = "up" => z = <<>>) /\ s2c' \in Seq(Byte) /\ Flow(s2c' \o z, answered, n + 1, 0)
  /\ s = Serialize(answered[n + 1]) /\ ClientGot(s)

\* The client's packet is the one that was sent, since its deserialiser gets it back.
LEMMA AnsGot ==
  ASSUME NEW n, NEW z, NEW s, ReaderCompletes(n, z, s)
  PROVE  AnsInv'
<1> USE DEF ReaderCompletes
<1>1. link' = link /\ answered' = answered
  BY Zenon DEF ReadFrame, peerVars
<1> DEFINE p == Deserialize(s)
           gs == Append(cgot, p)
           x == answered[n + 1]
<1>2. client' = "idle" /\ cgot' = gs /\ rbuf' = <<>> /\ digits' = <<>>
  BY Zenon DEF ClientGot
<1>3. answered \in Seq(Sendable) /\ cgot \in Seq(Packets)
  BY Zenon DEF AnsInv, BufInv
<1>4. n \in Nat /\ Len(answered) \in Nat /\ x \in Sendable
  BY <1>3
<1>5. p = AsRead(x) /\ s \in Seq(Byte)
  BY <1>4, SendableRoundTrip, Zenon
<1>6. p \in Packets
  BY <1>5, DeserializeIs, Zenon
<1>x. x = answered[n + 1]
  OBVIOUS
<1> HIDE DEF p, x
<1>7. gs \in Seq(Packets) /\ Len(gs) = n + 1 /\ n + 1 <= Len(answered)
      /\ \A i \in 1 .. n + 1 : gs[i] = IF i = n + 1 THEN p ELSE cgot[i]
  BY <1>3, <1>4, <1>6
<1> HIDE DEF gs
<1>8. Intact(gs, answered)
  <2>1. \A i \in 1 .. n + 1 : i # n + 1 => i \in 1 .. n
    BY <1>4
  <2>2. QED BY <1>5, <1>7, <1>x, <2>1, Zenon DEF Intact
<1>9. <<>> \in Seq(Byte) /\ Len(<<>>) <= ReadBufSize /\ "idle" \in Quiet
  BY SizesAssumption DEF Quiet
<1>10. BufInv'
  BY <1>1, <1>2, <1>7, <1>9, Zenon DEF AnsInv, BufInv
<1>11. ReaderAt("idle", <<>>, <<>>, answered, n + 1, 0)
  BY <1>9, Zenon DEF ReaderAt
<1>12. ReaderIn(s2c' \o z, "idle", <<>>, <<>>, answered, n + 1)
  BY <1>11, Zenon DEF ReaderIn
<1>13. Near(link, s2c', "idle", <<>>, <<>>, answered, n + 1)
  BY <1>12, Zenon DEF Near
<1>14. Truncated(gs, answered, link, s2c')
  BY <1>8, IntactTruncated, Zenon
<1>15. ReadInv'
  BY <1>1, <1>2, <1>7, <1>8, <1>13, <1>14, Zenon DEF ReadInv
<1>16. QED BY <1>10, <1>15, Zenon DEF AnsInv

\* The client gives the connection up.
LEMMA AnsClosed ==
  ASSUME AnsInv, Intact(cgot, answered), ReadFrame, s2c' \in Seq(Byte), cgot' = cgot,
         client' = "closed", rbuf' = <<>>, digits' = <<>>
  PROVE  AnsInv'
<1>1. link' = link /\ answered' = answered
  BY Zenon DEF ReadFrame, peerVars
<1>2. <<>> \in Seq(Byte) /\ Len(<<>>) <= ReadBufSize /\ "closed" # "length"
  BY SizesAssumption
<1>3. BufInv'
  BY <1>1, <1>2, Zenon DEF AnsInv, BufInv
<1>4. Truncated(cgot, answered, link, s2c')
  BY IntactTruncated, Zenon
<1>5. ReadInv'
  BY <1>1, <1>2, <1>4, Zenon DEF ReadInv
<1>6. QED BY <1>3, <1>5, Zenon DEF AnsInv

\* readPacket: the header byte.
LEMMA AnsReadHeader ==
  ASSUME AnsInv, ReadHeader
  PROVE  AnsInv'
<1> DEFINE n == Len(cgot)
           s == Serialize(answered[n + 1])
           m == 0
           k == 1
<1>1. client = "header" /\ s2c # <<>> /\ "header" # "closed" /\ "header" # "length" /\ "header" # "body"
  BY DEF ReadHeader
<1>2. client' = "length" /\ rbuf' = First(s2c, 1) /\ s2c' = Rest(s2c, 1) /\ ReadFrame /\ digits' = digits /\ cgot' = cgot
  BY Zenon DEF ReadHeader
<1>3. /\ Intact(cgot, answered) /\ n < Len(answered)
      /\ \E z \in Seq(Byte) : (link = "up" => z = <<>>) /\ Reads(s2c, z, answered, n, m)
  BY <1>1, ReaderPlace, Zenon DEF InLength, InRest
<1>4. PICK z \in Seq(Byte) : (link = "up" => z = <<>>) /\ Reads(s2c, z, answered, n, m)
  BY <1>3, Zenon
<1>d. digits = <<>>
  <2>1. "header" \in Quiet \cup {"closed"}
    BY DEF Quiet
  <2>2. QED BY <1>1, <2>1, Zenon DEF AnsInv, BufInv
<1>s. s = Serialize(answered[n + 1]) /\ n = Len(cgot)
  OBVIOUS
<1> HIDE DEF n, s
<1>5. Wire(s)
  BY <1>4, <1>s, FlowWire, SMT DEF Reads
<1>6. s \in Seq(Byte) /\ Fixed(s) \in 2 .. 5 /\ Fixed(s) <= Len(s) /\ Len(s) \in Nat
  BY <1>5, WireShape, Zenon
<1>7. s2c \in Seq(Byte)
  BY Zenon DEF AnsInv, BufInv
<1>8. Takes(s2c, z, answered, n, m, s, k)
  <2>1. 1 \in 0 .. Len(s2c) /\ 0 + 1 <= Len(s)
    BY <1>1, <1>6, <1>7
  <2>2. QED BY <1>4, <1>s, <2>1, Zenon DEF Takes
<1> HIDE DEF m, k
<1>9. First(s2c, k) = SubSeq(s, m + 1, m + k) /\ Flow(Rest(s2c, k) \o z, answered, n, m + k) /\ Rest(s2c, k) \in Seq(Byte)
  BY <1>8, ReadsBytes, SMT
<1>10. m + 1 = 1 /\ m + k = 1
  BY DEF m, k
<1>11. rbuf' = First(s, 1) /\ s2c' \in Seq(Byte) /\ Flow(s2c' \o z, answered, n, 1)
  BY <1>2, <1>9, <1>10, Zenon DEF First, k
<1>12. InLength(client', rbuf', digits', s, 1)
  <2>1. Len(<<>>) = 0 /\ 1 + 0 = 1 /\ 0 \in 0 .. Fixed(s) - 2 /\ SubSeq(s, 2, 1) = <<>>
    BY <1>6
  <2>2. QED BY <1>2, <1>11, <1>d, <2>1, Zenon DEF InLength
<1> DEFINE one == 1
<1>14. Flow(s2c' \o z, answered, n, one) /\ InLength(client', rbuf', digits', s, one)
  BY <1>11, <1>12, Zenon
<1> HIDE DEF one
<1>15. ReaderMoves(n, z, s, one)
  BY <1>2, <1>3, <1>4, <1>5, <1>11, <1>14, <1>s, Zenon DEF ReaderMoves
<1>16. QED BY <1>15, AnsAdvance, Zenon

\* The digits read so far, and one more.
LEMMA DigitAppended ==
  ASSUME NEW s \in Seq(Byte), NEW j \in Nat, j + 2 <= Len(s)
  PROVE  /\ Append(SubSeq(s, 2, 1 + j), s[j + 2]) = SubSeq(s, 2, j + 2)
         /\ Len(SubSeq(s, 2, 1 + j)) = j /\ Len(SubSeq(s, 2, j + 2)) = j + 1
<1> DEFINE a == Append(SubSeq(s, 2, 1 + j), s[j + 2])
           b == SubSeq(s, 2, j + 2)
<1>1. a \in Seq(Byte) /\ b \in Seq(Byte) /\ Len(a) = j + 1 /\ Len(b) = j + 1 /\ Len(SubSeq(s, 2, 1 + j)) = j
  OBVIOUS
<1>2. \A i \in 1 .. j + 1 : a[i] = s[i + 1] /\ b[i] = s[i + 1]
  OBVIOUS
<1> HIDE DEF a, b
<1>3. a = b
  BY <1>1, <1>2, SeqEq, Zenon
<1>4. QED BY <1>1, <1>3, Zenon DEF a, b

\* readPacket in decodePacket: a digit of the remaining length.
LEMMA AnsReadLength ==
  ASSUME AnsInv, ReadLength
  PROVE  AnsInv'
<1> DEFINE n == Len(cgot)
           s == Serialize(answered[n + 1])
           j == Len(digits)
           ds == Append(digits, s2c[1])
           d == rbuf \o MQTTPacket_encode(DigitsValue(ds))
<1>1. client = "length" /\ s2c # <<>> /\ "length" # "closed" /\ "length" \notin Quiet /\ "length" # "body"
  BY DEF ReadLength, Quiet
<1>2. /\ s2c' = Rest(s2c, 1) /\ ReadFrame
      /\ IF More(s2c[1]) /\ Len(ds) < MAX_NO_OF_REMAINING_LENGTH_BYTES
           THEN digits' = ds /\ UNCHANGED <<client, rbuf, cgot>> ELSE LengthRead(ds)
  BY Zenon DEF ReadLength
<1>3. /\ Intact(cgot, answered) /\ n < Len(answered)
      /\ \E z \in Seq(Byte) : \E m :
           (link = "up" => z = <<>>) /\ Reads(s2c, z, answered, n, m) /\ InLength(client, rbuf, digits, s, m)
  BY <1>1, ReaderPlace, Zenon DEF InRest
<1>4. PICK z, m :
        z \in Seq(Byte) /\ (link = "up" => z = <<>>) /\ Reads(s2c, z, answered, n, m)
        /\ InLength(client, rbuf, digits, s, m)
  BY <1>3, Zenon
<1>5. m = 1 + j /\ j \in 0 .. Fixed(s) - 2 /\ rbuf = First(s, 1) /\ digits = SubSeq(s, 2, 1 + j)
  BY <1>4, Zenon DEF InLength
<1>s. s = Serialize(answered[n + 1]) /\ n = Len(cgot)
  OBVIOUS
<1> HIDE DEF n, s, j
<1>6. /\ Wire(s) /\ Flow(Rest(s2c, 1) \o z, answered, n, m + 1) /\ Rest(s2c, 1) \in Seq(Byte)
      /\ m + 1 = Len(s) => Flow(Rest(s2c, 1) \o z, answered, n + 1, 0)
      /\ s2c[1] = s[j + 2] /\ (More(s2c[1]) <=> j + 2 < Fixed(s))
  <2>1. AtDigit(s2c, z, answered, n, m, s, j)
    BY <1>1, <1>4, <1>5, <1>s, Zenon DEF AtDigit
  <2>2. QED BY <2>1, LengthByte, SMT
<1>7. /\ s \in Seq(Byte) /\ Len(s) \in Nat /\ Fixed(s) \in 2 .. 5 /\ Fixed(s) <= Len(s) /\ Len(s) - Fixed(s) \in Nat
      /\ DigitsValue(Digits(s)) = Len(s) - Fixed(s)
  BY <1>6, WireShape, Zenon
<1> DEFINE f == Fixed(s)
           l == Len(s)
<1>8. j \in 0 .. f - 2 /\ f \in 2 .. 5 /\ f <= l /\ l \in Nat /\ l - f \in Nat /\ m = 1 + j
  BY <1>5, <1>7, Zenon
<1> HIDE DEF f, l
<1>9. j \in Nat /\ j + 2 <= l /\ 1 + (j + 1) = j + 2 /\ m + 1 = 1 + (j + 1)
  BY <1>8
<1>10. ds = SubSeq(s, 2, 1 + (j + 1)) /\ Len(ds) = j + 1
  <2>1. j + 2 <= Len(s)
    BY <1>9, Zenon DEF l
  <2>2. Append(SubSeq(s, 2, 1 + j), s[j + 2]) = SubSeq(s, 2, j + 2) /\ Len(SubSeq(s, 2, j + 2)) = j + 1
    BY <1>7, <1>9, <2>1, DigitAppended, Zenon
  <2> DEFINE w == SubSeq(s, 2, 1 + j)
             y == s[j + 2]
             u == SubSeq(s, 2, j + 2)
  <2>3. digits = w /\ s2c[1] = y /\ Append(w, y) = u /\ Len(u) = j + 1 /\ u = SubSeq(s, 2, 1 + (j + 1))
    BY <1>5, <1>6, <1>9, <2>2, Zenon
  <2> HIDE DEF w, y, u
  <2>4. ds = u
    BY <2>3, Zenon
  <2> HIDE DEF ds
  <2>5. QED BY <2>3, <2>4, Zenon
<1>11. s2c' \in Seq(Byte) /\ n = Len(cgot) /\ n < Len(answered)
  BY <1>2, <1>3, <1>6, <1>s, Zenon
<1> HIDE DEF ds
<1>12. CASE j + 2 < f
  <2>1. More(s2c[1]) /\ Len(ds) < MAX_NO_OF_REMAINING_LENGTH_BYTES
    <3>1. j + 1 < 4
      BY <1>8, <1>12
    <3>2. QED BY <1>6, <1>10, <1>12, <3>1, Zenon DEF MAX_NO_OF_REMAINING_LENGTH_BYTES, f
  <2>2. digits' = ds /\ UNCHANGED <<client, rbuf, cgot>>
    BY <1>2, <2>1, Zenon
  <2>3. j + 1 \in 0 .. f - 2
    BY <1>8, <1>12
  <2> DEFINE g == 1 + (j + 1)
  <2>4. InLength(client', rbuf', digits', s, g)
    BY <1>1, <1>5, <1>10, <2>2, <2>3, Zenon DEF InLength, f
  <2>5. Flow(s2c' \o z, answered, n, g)
    BY <1>2, <1>6, <1>9, Zenon
  <2> HIDE DEF g
  <2>6. cgot' = cgot
    BY <2>2, Zenon
  <2>7. ReaderMoves(n, z, s, g)
    BY <1>2, <1>3, <1>4, <1>6, <1>11, <1>s, <2>4, <2>5, <2>6, Zenon DEF ReaderMoves
  <2>8. QED BY <2>7, AnsAdvance, Zenon
<1>13. CASE ~ (j + 2 < f)
  <2>1. LengthRead(ds)
    BY <1>2, <1>6, <1>13, Zenon DEF f
  <2>2. 1 + (j + 1) = f /\ m + 1 = f
    BY <1>8, <1>9, <1>13
  <2>3. ds = Digits(s) /\ DigitsValue(ds) = l - f
    BY <1>7, <1>10, <2>2, Zenon DEF Digits, f, l
  <2>4. d = First(s, f) /\ Len(d) = f /\ First(s, l) = s
    BY <1>5, <1>6, <2>3, HeaderLength, Zenon DEF f, l
  <2> DEFINE v == DigitsValue(ds)
             ld == Len(d)
  <2>5. IF v > ReadBufSize - ld THEN client' = "closed" /\ rbuf' = <<>> /\ digits' = <<>> /\ UNCHANGED cgot
        ELSE IF v = 0 THEN ClientGot(d)
        ELSE client' = "body" /\ rbuf' = d /\ digits' = ds /\ UNCHANGED cgot
    BY <2>1, Zenon DEF LengthRead
  <2>6. v = l - f /\ ld = f
    BY <2>3, <2>4, Zenon
  <2> HIDE DEF v, ld, d
  <2>7. CASE v > ReadBufSize - ld
    <3>1. client' = "closed" /\ rbuf' = <<>> /\ digits' = <<>> /\ cgot' = cgot
      BY <2>5, <2>7, Zenon
    <3>2. QED BY <1>2, <1>3, <1>11, <3>1, AnsClosed, Zenon
  <2>8. CASE ~ (v > ReadBufSize - ld) /\ v = 0
    <3>1. ClientGot(d)
      BY <2>5, <2>8, Zenon
    <3>2. f = l
      BY <1>8, <2>6, <2>8
    <3>3. d = s
      BY <2>4, <3>2, Zenon
    <3>4. Flow(s2c' \o z, answered, n + 1, 0) /\ ClientGot(s)
      BY <1>2, <1>6, <2>2, <3>1, <3>2, <3>3, Zenon DEF l
    <3>5. ReaderCompletes(n, z, s)
      BY <1>2, <1>3, <1>4, <1>11, <1>s, <3>4, Zenon DEF ReaderCompletes
    <3>6. QED BY <3>5, AnsGot, Zenon
  <2>9. CASE ~ (v > ReadBufSize - ld) /\ v # 0
    <3>1. client' = "body" /\ rbuf' = d /\ digits' = ds /\ cgot' = cgot
      BY <2>5, <2>9, Zenon
    <3>2. f \in f .. l - 1 /\ l <= ReadBufSize
      <4>1. ReadBufSize \in Nat
        BY SizesAssumption
      <4>2. QED BY <1>8, <2>6, <2>9, <4>1
    <3>3. InRest(client', rbuf', digits', s, f)
      BY <2>3, <2>4, <3>1, <3>2, Zenon DEF InRest, f, l
    <3>4. Flow(s2c' \o z, answered, n, f)
      BY <1>2, <1>6, <2>2, Zenon
    <3>5. ReaderMoves(n, z, s, f)
      BY <1>2, <1>3, <1>4, <1>6, <1>11, <1>s, <3>1, <3>3, <3>4, Zenon DEF ReaderMoves
    <3>6. QED BY <3>5, AnsAdvance, Zenon
  <2>10. QED BY <2>7, <2>8, <2>9, Zenon
<1>14. QED BY <1>12, <1>13

\* readPacket's last read: a piece of the body.
LEMMA AnsReadBody ==
  ASSUME AnsInv, ReadBody
  PROVE  AnsInv'
<1> DEFINE n == Len(cgot)
           s == Serialize(answered[n + 1])
           m == Len(rbuf)
           left == 1 + Len(MQTTPacket_encode(DigitsValue(digits))) + DigitsValue(digits) - m
<1>1. client = "body" /\ s2c # <<>> /\ "body" # "closed" /\ "body" \notin Quiet /\ "body" # "length"
  BY DEF ReadBody, Quiet
<1>2. PICK k \in Piece(s2c, left) :
        /\ s2c' = Rest(s2c, k)
        /\ IF k = left THEN ClientGot(rbuf \o First(s2c, k))
           ELSE rbuf' = rbuf \o First(s2c, k) /\ UNCHANGED <<client, digits, cgot>>
  BY Zenon DEF ReadBody
<1>f. ReadFrame
  BY Zenon DEF ReadBody
<1>3. /\ Intact(cgot, answered) /\ n < Len(answered)
      /\ \E z \in Seq(Byte) : \E i :
           (link = "up" => z = <<>>) /\ Reads(s2c, z, answered, n, i) /\ InRest(client, rbuf, digits, s, i)
  BY <1>1, ReaderPlace, Zenon DEF InLength
<1>4. PICK z \in Seq(Byte) :
        (link = "up" => z = <<>>) /\ Reads(s2c, z, answered, n, m) /\ InRest(client, rbuf, digits, s, m)
  BY <1>3, Zenon DEF InRest
<1>5. m \in Fixed(s) .. Len(s) - 1 /\ rbuf = First(s, m) /\ digits = Digits(s) /\ Len(s) <= ReadBufSize
  BY <1>4, Zenon DEF InRest
<1>s. s = Serialize(answered[n + 1]) /\ n = Len(cgot)
  OBVIOUS
<1> HIDE DEF n, s, m
<1>6. Wire(s)
  BY <1>4, <1>s, FlowWire, SMT DEF Reads
<1>7. /\ s \in Seq(Byte) /\ Len(s) \in Nat /\ Fixed(s) \in 2 .. 5 /\ Fixed(s) <= Len(s)
      /\ MQTTPacket_encode(Len(s) - Fixed(s)) = Digits(s) /\ Len(Digits(s)) = Fixed(s) - 1
      /\ DigitsValue(Digits(s)) = Len(s) - Fixed(s)
  BY <1>6, WireShape, Zenon
<1> DEFINE f == Fixed(s)
           l == Len(s)
           b == Len(s2c)
<1>8. left = 1 + (f - 1) + (l - f) - m
  BY <1>5, <1>7, Zenon
<1>9. m \in f .. l - 1 /\ f \in 2 .. 5 /\ l \in Nat
  BY <1>5, <1>7, Zenon
<1> HIDE DEF f, l, b, left
<1>10. left = l - m /\ left \in Nat
  BY <1>8, <1>9
<1>11. s2c \in Seq(Byte)
  BY Zenon DEF AnsInv, BufInv
<1>12. k \in 0 .. b /\ k <= left
  BY <1>2, <1>10, <1>11, PieceIs, Zenon DEF b
<1>13. b \in Nat
  BY <1>11 DEF b
<1>14. m + k <= l /\ (k = left <=> m + k = l) /\ k \in Nat
  BY <1>9, <1>10, <1>12, <1>13
<1>15. Takes(s2c, z, answered, n, m, s, k)
  BY <1>4, <1>12, <1>14, <1>s, Zenon DEF Takes, b, l
<1>16. /\ First(s, m) \o First(s2c, k) = First(s, m + k)
       /\ Flow(Rest(s2c, k) \o z, answered, n, m + k) /\ Rest(s2c, k) \in Seq(Byte)
       /\ m + k = Len(s) => First(s, m) \o First(s2c, k) = s /\ Flow(Rest(s2c, k) \o z, answered, n + 1, 0)
  BY <1>15, ReadsBytes, SMT
<1>17. s2c' \in Seq(Byte) /\ n = Len(cgot) /\ n < Len(answered)
  BY <1>2, <1>3, <1>16, <1>s, Zenon
<1>18. CASE k = left
  <2>1. rbuf \o First(s2c, k) = s /\ Flow(s2c' \o z, answered, n + 1, 0)
    BY <1>2, <1>5, <1>14, <1>16, <1>18, Zenon DEF l
  <2>2. ClientGot(s)
    BY <1>2, <1>18, <2>1, Zenon
  <2>3. s = Serialize(answered[n + 1])
    BY <1>s, Zenon
  <2>4. ReaderCompletes(n, z, s)
    BY <1>3, <1>4, <1>f, <1>17, <2>1, <2>2, <2>3, Zenon DEF ReaderCompletes
  <2>5. QED BY <2>4, AnsGot, Zenon
<1>19. CASE k # left
  <2>1. rbuf' = rbuf \o First(s2c, k) /\ UNCHANGED <<client, digits, cgot>>
    BY <1>2, <1>19, Zenon
  <2> DEFINE g == m + k
  <2>2. rbuf' = First(s, g) /\ Flow(s2c' \o z, answered, n, g)
    BY <1>2, <1>5, <1>16, <2>1, Zenon
  <2> HIDE DEF g
  <2>3. g \in f .. l - 1 /\ g \in 0 .. l
    <3>1. m \in f .. l - 1 /\ f \in Nat /\ l \in Nat /\ k \in Nat /\ m + k <= l /\ m + k # l
      BY <1>9, <1>14, <1>19
    <3>2. QED BY ONLY <3>1 DEF g
  <2>4. Len(First(s, g)) = g
    BY <1>7, <2>3, Halves, Zenon DEF l
  <2>5. InRest(client', rbuf', digits', s, g)
    BY <1>1, <1>5, <2>1, <2>2, <2>3, <2>4, Zenon DEF InRest, f, l
  <2>6. s = Serialize(answered[n + 1]) /\ cgot' = cgot
    BY <1>s, <2>1, Zenon
  <2>7. ReaderMoves(n, z, s, g)
    BY <1>3, <1>4, <1>f, <1>6, <1>17, <2>2, <2>5, <2>6, Zenon DEF ReaderMoves
  <2>8. QED BY <2>7, AnsAdvance, Zenon
<1>20. QED BY <1>18, <1>19

\* A header byte with the length 0 behind it, as readPacket writes it when decodePacket read no digit.
LEMMA HeaderAlone ==
  ASSUME NEW s, Wire(s)
  PROVE  First(s, 1) \o MQTTPacket_encode(0) = <<s[1], 0>> /\ <<s[1], 0>> \in Seq(Byte)
<1>1. s \in Seq(Byte) /\ Fixed(s) \in 2 .. 5 /\ Fixed(s) <= Len(s) /\ Len(s) \in Nat
  BY WireShape, Zenon
<1>2. First(s, 1) = <<s[1]>> /\ s[1] \in Byte
  <2> DEFINE w == First(s, 1)
             h == s[1]
  <2>1. 1 \in 0 .. Len(s) /\ h \in Byte /\ 1 \in 1 .. 1
    BY <1>1
  <2>2. w \in Seq(Byte) /\ Len(w) = 1 /\ w[1] = h
    BY <1>1, <2>1, Halves, Zenon
  <2> HIDE DEF w, h
  <2>3. <<h>> \in Seq(Byte) /\ Len(<<h>>) = 1 /\ <<h>>[1] = h
    BY <2>1
  <2>4. \A i \in 1 .. Len(w) : w[i] = <<h>>[i]
    BY <2>2, <2>3
  <2>5. w = <<h>>
    BY <2>2, <2>3, <2>4, SeqEq
  <2>6. QED BY <2>1, <2>5, Zenon DEF w, h
<1>3. 0 \in Byte
  BY DEF Byte
<1>4. <<s[1]>> \o <<0>> = <<s[1], 0>>
  BY <1>2, <1>3, Pair, Zenon
<1> DEFINE h == s[1]
<1>5. h \in Byte
  BY <1>2
<1> HIDE DEF h
<1>6. <<h, 0>> \in Seq(Byte)
  BY <1>3, <1>5
<1>7. QED BY <1>2, <1>4, <1>6, EncodeZero, Zenon DEF h

\* A read that fails on a lost connection and gives no packet.
LEMMA AnsEnds ==
  ASSUME AnsInv, Dead(link, s2c), ReadFrame, s2c' = s2c, client' # "length", rbuf' \in Seq(Byte), Len(rbuf') <= ReadBufSize,
         client' \in Quiet \cup {"closed"} => rbuf' = <<>> /\ digits' = <<>>, cgot' = cgot
  PROVE  AnsInv'
<1>1. link' = link /\ answered' = answered
  BY Zenon DEF ReadFrame, peerVars
<1>2. BufInv'
  BY <1>1, Zenon DEF AnsInv, BufInv
<1>3. ReadInv'
  BY <1>1, Zenon DEF AnsInv, ReadInv
<1>4. QED BY <1>2, <1>3, Zenon DEF AnsInv

\* A read that fails on a lost connection right behind the header byte, and gives a packet of length 0: readPacket
\* does not look at decodePacket's result.
LEMMA AnsHeaderTaken ==
  ASSUME AnsInv, Dead(link, s2c), Intact(cgot, answered), ReadFrame, s2c' = s2c, NEW n, n = Len(cgot), n < Len(answered),
         NEW d, d = <<Serialize(answered[n + 1])[1], 0>>, d \in Seq(Byte), ClientGot(d)
  PROVE  AnsInv'
<1>1. link' = link /\ answered' = answered
  BY Zenon DEF ReadFrame, peerVars
<1> DEFINE p == Deserialize(d)
           gs == Append(cgot, p)
<1>2. client' = "idle" /\ cgot' = gs /\ rbuf' = <<>> /\ digits' = <<>>
  BY Zenon DEF ClientGot
<1>3. answered \in Seq(Sendable) /\ cgot \in Seq(Packets)
  BY Zenon DEF AnsInv, BufInv
<1>4. n \in Nat /\ Len(answered) \in Nat
  BY <1>3
<1>5. p \in Packets
  BY DeserializeIs, Zenon
<1>p. p = Deserialize(<<Serialize(answered[n + 1])[1], 0>>)
  BY Zenon
<1> HIDE DEF p
<1>6. gs \in Seq(Packets) /\ Len(gs) = n + 1 /\ n + 1 <= Len(answered)
      /\ \A i \in 1 .. n + 1 : gs[i] = IF i = n + 1 THEN p ELSE cgot[i]
  BY <1>3, <1>4, <1>5
<1> HIDE DEF gs
<1>7. Truncated(gs, answered, link, s2c)
  <2>1. \A i \in 1 .. n + 1 : i # n + 1 => i \in 1 .. n
    BY <1>4
  <2>2. \A i \in 1 .. n : cgot[i] = AsRead(answered[i])
    BY Zenon DEF Intact
  <2>3. QED BY <1>6, <1>p, <2>1, <2>2, Zenon DEF Truncated
<1>8. <<>> \in Seq(Byte) /\ Len(<<>>) <= ReadBufSize /\ "idle" # "length"
  BY SizesAssumption
<1>9. BufInv'
  BY <1>1, <1>2, <1>6, <1>8, Zenon DEF AnsInv, BufInv
<1>10. ReadInv'
  BY <1>1, <1>2, <1>7, <1>8, Zenon DEF ReadInv
<1>11. QED BY <1>9, <1>10, Zenon DEF AnsInv

\* A read that fails, in each part of a packet.
LEMMA AnsReadFails ==
  ASSUME AnsInv, ReadFails
  PROVE  AnsInv'
<1>1. Dead(link, s2c) /\ ReadFrame /\ s2c' = s2c
  BY Zenon DEF ReadFails, Dead
<1>2. <<>> \in Seq(Byte) /\ Len(<<>>) <= ReadBufSize /\ ReadBufSize \in Nat
  BY SizesAssumption
<1>3. CASE client = "header" /\ client' = "closed" /\ UNCHANGED readVars
  <2>1. UNCHANGED <<link, s2c, answered, cgot, rbuf, digits>>
    BY <1>1, <1>3, Zenon DEF ReadFrame, peerVars, readVars
  <2>2. client \in Quiet /\ client' \in Quiet \cup {"closed"}
    BY <1>3 DEF Quiet
  <2>3. QED BY <2>1, <2>2, AnsSame, Zenon
<1>4. CASE client = "body" /\ client' = "idle" /\ rbuf' = <<>> /\ digits' = <<>> /\ UNCHANGED cgot
  <2>1. client' # "length"
    BY <1>4
  <2>2. QED BY <1>1, <1>2, <1>4, <2>1, AnsEnds, Zenon
<1>5. CASE client = "length" /\ LengthRead(digits)
  <2> DEFINE n == Len(cgot)
             s == Serialize(answered[n + 1])
             j == Len(digits)
             v == DigitsValue(digits)
             d == rbuf \o MQTTPacket_encode(v)
  <2>1. "length" # "closed" /\ "length" \notin Quiet /\ "length" # "body"
    BY DEF Quiet
  <2>2. Intact(cgot, answered) /\ Near(link, s2c, client, rbuf, digits, answered, n)
    BY <1>5, <2>1, Zenon DEF AnsInv, ReadInv
  <2>3. PICK z, m : Flow(s2c \o z, answered, n, m) /\ ReaderAt(client, rbuf, digits, answered, n, m)
    BY <2>2, Zenon DEF Near, ReaderIn
  <2>4. n < Len(answered) /\ InLength(client, rbuf, digits, s, m)
    BY <1>5, <2>1, <2>3, Zenon DEF ReaderAt, InRest
  <2>5. j \in 0 .. Fixed(s) - 2 /\ rbuf = First(s, 1) /\ digits = SubSeq(s, 2, 1 + j)
    BY <2>4, Zenon DEF InLength
  <2>6. answered \in Seq(Sendable)
    BY Zenon DEF AnsInv, BufInv
  <2>7. Wire(s)
    <3>1. Len(answered) \in Nat
      BY <2>6
    <3> DEFINE q == s2c \o z
    <3>2. Flow(q, answered, n, m)
      BY <2>3, Zenon
    <3> HIDE DEF q, n, s
    <3>3. QED BY <2>4, <3>1, <3>2, FlowWire, SMT DEF s
  <2>s. s = Serialize(answered[n + 1]) /\ n = Len(cgot)
    OBVIOUS
  <2> HIDE DEF s, n, j
  <2>8. s \in Seq(Byte) /\ Fixed(s) \in 2 .. 5 /\ Fixed(s) <= Len(s) /\ Len(s) \in Nat
    BY <2>7, WireShape, Zenon
  <2>9. v \in 0 .. Limit - 1
    <3>1. j \in 0 .. Fixed(s) - 1
      BY <2>5, <2>8
    <3>2. DigitsValue(SubSeq(s, 2, 1 + j)) \in 0 .. Limit - 1
      BY <2>7, <3>1, DigitsSoFar, Zenon
    <3> DEFINE w == SubSeq(s, 2, 1 + j)
    <3>3. digits = w /\ DigitsValue(w) \in 0 .. Limit - 1
      BY <2>5, <3>2, Zenon
    <3> HIDE DEF w
    <3>4. QED BY <3>3, Zenon
  <2>10. IF v > ReadBufSize - Len(d) THEN client' = "closed" /\ rbuf' = <<>> /\ digits' = <<>> /\ UNCHANGED cgot
         ELSE IF v = 0 THEN ClientGot(d)
         ELSE client' = "body" /\ rbuf' = d /\ digits' = digits /\ UNCHANGED cgot
    BY <1>5, Zenon DEF LengthRead
  <2> HIDE DEF v
  <2>11. d \in Seq(Byte) /\ Len(d) \in Nat
    <3>1. MQTTPacket_encode(v) \in Seq(Byte)
      BY <2>9, EncodeDigits, Zenon
    <3>2. rbuf \in Seq(Byte)
      BY Zenon DEF AnsInv, BufInv
    <3>3. QED BY <3>1, <3>2
  <2>12. CASE v > ReadBufSize - Len(d)
    <3>1. client' = "closed" /\ rbuf' = <<>> /\ digits' = <<>> /\ UNCHANGED cgot
      BY <2>10, <2>12, Zenon
    <3>2. client' # "length"
      BY <3>1
    <3>3. QED BY <1>1, <1>2, <3>1, <3>2, AnsEnds, Zenon
  <2>13. CASE ~ (v > ReadBufSize - Len(d)) /\ v = 0
    <3>1. ClientGot(d)
      BY <2>10, <2>13, Zenon
    <3>2. d = <<s[1], 0>>
      BY <2>5, <2>7, <2>13, HeaderAlone, Zenon
    <3>3. d = <<Serialize(answered[n + 1])[1], 0>>
      BY <2>s, <3>2, Zenon
    <3>4. n = Len(cgot)
      BY <2>s, Zenon
    <3> HIDE DEF d
    <3>5. QED BY <1>1, <2>2, <2>4, <2>11, <3>1, <3>3, <3>4, AnsHeaderTaken, Zenon
  <2>14. CASE ~ (v > ReadBufSize - Len(d)) /\ v # 0
    <3>1. client' = "body" /\ rbuf' = d /\ digits' = digits /\ UNCHANGED cgot
      BY <2>10, <2>14, Zenon
    <3> DEFINE ld == Len(d)
    <3>2. ld \in Nat /\ ~ (v > ReadBufSize - ld) /\ v \in 0 .. Limit - 1
      BY <2>9, <2>11, <2>14, Zenon
    <3> HIDE DEF ld
    <3>3. ld <= ReadBufSize
      BY <1>2, <3>2, Powers
    <3>4. client' # "length" /\ client' \notin Quiet \cup {"closed"}
      BY <3>1 DEF Quiet
    <3>5. rbuf' \in Seq(Byte) /\ Len(rbuf') <= ReadBufSize /\ cgot' = cgot
      BY <2>11, <3>1, <3>3, Zenon DEF ld
    <3>6. QED BY <1>1, <3>4, <3>5, AnsEnds, Zenon
  <2>15. QED BY <2>12, <2>13, <2>14, Zenon
<1>6. QED BY <1>3, <1>4, <1>5, Zenon DEF ReadFails

-----------------------------------------------------------------------------
\* The inductive invariant.  RequestsIntact and AnswersIntact alone are not inductive: they say nothing of the bytes
\* that are on their way or of the reader's position in a packet.
StreamInv == ReqInv /\ AnsInv

\* It holds of a new connection.
LEMMA StreamInit ==
  Init => StreamInv
  BY ReqInit, AnsInit, Zenon DEF StreamInv

\* The client's steps that do not read preserve it.
LEMMA ClientStep ==
  ASSUME StreamInv, (\E p \in Requests : SendPacket(p)) \/ ClientSends \/ StartRead
  PROVE  StreamInv'
<1> USE DEF StreamInv
<1>q. /\ "idle" \in Quiet /\ "write" \in Quiet /\ "header" \in Quiet /\ "closed" \in Quiet \cup {"closed"} /\ "idle" # "write"
      /\ Quiet \subseteq Quiet \cup {"closed"}
  BY DEF Quiet
<1>1. CASE \E p \in Requests : SendPacket(p)
  <2>1. PICK p \in Requests : SendPacket(p)
    BY <1>1
  <2>2. ReqInv'
    BY <2>1, ReqSendPacket, Zenon
  <2>3. UNCHANGED <<link, s2c, answered, cgot, rbuf, digits>> /\ client = "idle"
    BY <2>1, Zenon DEF SendPacket, peerVars, readVars
  <2>4. client' = "write" \/ client' = "closed"
    BY <2>1, Zenon DEF SendPacket
  <2>5. client \in Quiet /\ client' \in Quiet \cup {"closed"}
    BY <1>q, <2>3, <2>4, Zenon
  <2>6. AnsInv'
    BY <2>3, <2>5, AnsSame, Zenon
  <2>7. QED BY <2>2, <2>6, Zenon
<1>2. CASE Write
  <2>1. ReqInv'
    BY <1>2, ReqWrite, Zenon
  <2>2. UNCHANGED <<link, client, s2c, answered, cgot, rbuf, digits>>
    BY <1>2, Zenon DEF Write, peerVars, readVars
  <2>3. AnsInv'
    BY <2>2, AnsSame, Zenon
  <2>4. QED BY <2>1, <2>3, Zenon
<1>3. CASE WriteEnds
  <2>1. ReqInv'
    BY <1>3, ReqWriteEnds, Zenon
  <2>2. UNCHANGED <<link, s2c, answered, cgot, rbuf, digits>> /\ client = "write"
    BY <1>3, Zenon DEF WriteEnds, peerVars, readVars
  <2>3. client' = "idle" \/ client' = "closed"
    BY <1>3, Zenon DEF WriteEnds
  <2>4. client \in Quiet /\ client' \in Quiet \cup {"closed"}
    BY <1>q, <2>2, <2>3, Zenon
  <2>5. AnsInv'
    BY <2>2, <2>4, AnsSame, Zenon
  <2>6. QED BY <2>1, <2>5, Zenon
<1>4. CASE StartRead
  <2>1. /\ UNCHANGED <<link, sent, out, c2s, trp, pbuf, pgot>> /\ UNCHANGED <<link, s2c, answered, cgot, rbuf, digits>>
        /\ client = "idle" /\ client' = "header"
    BY <1>4, Zenon DEF StartRead, sendVars, peerVars, readVars
  <2>2. out = <<>>
    BY <1>q, <2>1, Zenon DEF ReqInv, SendInv
  <2>3. ReqInv'
    BY <2>1, <2>2, ReqSame, Zenon
  <2>4. client \in Quiet /\ client' \in Quiet \cup {"closed"}
    BY <1>q, <2>1, Zenon
  <2>5. AnsInv'
    BY <2>1, <2>4, AnsSame, Zenon
  <2>6. QED BY <2>3, <2>5, Zenon
<1>5. QED BY <1>1, <1>2, <1>3, <1>4, Zenon DEF ClientSends

\* The client's reads preserve it.
LEMMA ReadStep ==
  ASSUME StreamInv, ClientReads
  PROVE  StreamInv'
<1>1. ReadFrame /\ client # "write"
  BY DEF ClientReads, ReadHeader, ReadLength, ReadBody, ReadFails
<1>2. UNCHANGED <<link, sent, out, c2s, trp, pbuf, pgot>>
  BY <1>1, Zenon DEF ReadFrame, sendVars, peerVars
<1>3. out = <<>>
  BY <1>1, Zenon DEF StreamInv, ReqInv, SendInv
<1>4. ReqInv'
  BY <1>2, <1>3, ReqSame, Zenon DEF StreamInv
<1>5. AnsInv'
  BY AnsReadHeader, AnsReadLength, AnsReadBody, AnsReadFails, Zenon DEF ClientReads, StreamInv
<1>6. QED BY <1>4, <1>5, Zenon DEF StreamInv

\* The peer's steps, and the loss of the connection, preserve it.
LEMMA PeerStep ==
  ASSUME StreamInv, PeerReads \/ (\E p \in Pushes : PeerPushes(p)) \/ Cut
  PROVE  StreamInv'
<1> USE DEF StreamInv
<1>t. s2c \in Seq(Byte) /\ answered \in Seq(Sendable)
  BY Zenon DEF AnsInv, BufInv
<1>c. c2s \in Seq(Byte)
  BY Zenon DEF ReqInv, SendInv
<1>e. Len(s2c) \in 0 .. Len(s2c) /\ First(s2c, Len(s2c)) = s2c
  BY <1>t DEF First
<1>1. CASE PeerHeader
  <2>1. ReqInv'
    BY <1>1, ReqPeerHeader, Zenon
  <2>2. UNCHANGED <<link, client, s2c, answered, cgot, rbuf, digits>>
    BY <1>1, Zenon DEF PeerHeader, PeerFrame, readVars
  <2>3. AnsInv'
    BY <2>2, AnsSame, Zenon
  <2>4. QED BY <2>1, <2>3, Zenon
<1>2. CASE PeerLength \/ PeerBody
  <2>1. ReqInv' /\ (Grows \/ UNCHANGED <<s2c, answered>>)
    BY <1>2, <1>t, ReqPeerLength, ReqPeerBody, Zenon
  <2>2. link = "up" /\ UNCHANGED <<client, cgot, rbuf, digits>>
    BY <1>2, Zenon DEF PeerLength, PeerBody, PeerFrame, readVars
  <2>3. UNCHANGED link \/ (link' = "cut" /\ UNCHANGED <<s2c, answered>>)
    <3>1. CASE PeerBody
      BY <3>1, Zenon DEF PeerBody, PeerGot
    <3>2. CASE PeerLength
      BY <3>2, SMT DEF PeerLength, PeerGot, PeerFails
    <3>3. QED BY <1>2, <3>1, <3>2
  <2>4. CASE UNCHANGED link
    <3>1. CASE Grows
      BY <2>2, <2>4, <3>1, AnsGrows, <2>1, Zenon
    <3>2. CASE UNCHANGED <<s2c, answered>>
      BY <2>1, <2>2, <2>4, <3>2, AnsSame, Zenon
    <3>3. QED BY <2>1, <3>1, <3>2, Zenon
  <2>5. CASE link' = "cut" /\ UNCHANGED <<s2c, answered>>
    <3>1. s2c' = First(s2c, Len(s2c))
      BY <1>e, <2>5, Zenon
    <3>2. AnsInv'
      BY <1>e, <2>2, <2>5, <3>1, AnsLost, Zenon
    <3>3. QED BY <2>1, <3>2, Zenon
  <2>6. QED BY <2>3, <2>4, <2>5, Zenon
<1>3. CASE \E p \in Pushes : PeerPushes(p)
  <2>1. PICK p \in Pushes : PeerPushes(p)
    BY <1>3
  <2>2. link = "up" /\ answered' = Append(answered, p) /\ s2c' = s2c \o Serialize(p)
    BY <2>1, Zenon DEF PeerPushes
  <2>3. UNCHANGED <<link, client, sent, out, c2s, trp, pbuf, pgot, cgot, rbuf, digits>>
    BY <2>1, Zenon DEF PeerPushes, sendVars, readVars
  <2>4. Grows
    BY <2>2, PushesSendable, Zenon DEF Grows
  <2>5. AnsInv'
    BY <2>2, <2>3, <2>4, AnsGrows, Zenon
  <2>6. ReqInv'
    BY <2>3, ReqSame, Zenon
  <2>7. QED BY <2>5, <2>6, Zenon
<1>4. CASE Cut
  <2>1. PICK k \in 0 .. Len(s2c) : s2c' = First(s2c, k)
    BY <1>4, Zenon DEF Cut
  <2>2. /\ link = "up" /\ link' = "cut" /\ c2s' = <<>> /\ trp' = Fresh /\ pbuf' = <<>>
        /\ UNCHANGED <<client, sent, out, pgot>> /\ UNCHANGED <<client, answered, cgot, rbuf, digits>>
    BY <1>4, Zenon DEF Cut, sendVars, readVars
  <2>3. c2s' \in Seq(Byte)
    BY <2>2
  <2>4. ReqInv'
    BY <2>2, <2>3, ReqLost, Zenon
  <2>5. AnsInv'
    BY <2>1, <2>2, AnsLost, Zenon
  <2>6. QED BY <2>4, <2>5, Zenon
<1>5. QED BY <1>1, <1>2, <1>3, <1>4, Zenon DEF PeerReads

\* Every step preserves it.
LEMMA StreamStep ==
  StreamInv /\ [Next]_vars => StreamInv'
<1> SUFFICES ASSUME StreamInv, [Next]_vars PROVE StreamInv'
  OBVIOUS
<1>1. CASE Next
  BY <1>1, ClientStep, ReadStep, PeerStep, Zenon DEF Next
<1>2. CASE UNCHANGED vars
  <2>1. UNCHANGED <<link, client, sent, out, c2s, trp, pbuf, pgot>> /\ UNCHANGED <<link, client, s2c, answered, cgot, rbuf, digits>>
    BY <1>2, Zenon DEF vars
  <2>2. QED BY <2>1, ReqSame, AnsSame, Zenon DEF StreamInv
<1>3. QED BY <1>1, <1>2

\* Every behaviour has it: for every radix, all sets of packets, all buffer sizes, and however the transport cuts
\* the bytes into pieces, the bytes on their way go on where the reader is.
THEOREM StreamInvariant ==
  Spec => []StreamInv
  BY StreamInit, StreamStep, PTL DEF Spec

\* The peer gets the packets the client sent, each once, in order and with every field as it was, a prefix of them
\* when the connection is lost (sendPacket and mqtt_network_write against MQTTPacket_readnb).
THEOREM RequestsArrive ==
  Spec => []RequestsIntact
<1>1. StreamInv => RequestsIntact
  <2> SUFFICES ASSUME StreamInv PROVE RequestsIntact
    OBVIOUS
  <2> DEFINE n == Len(pgot)
             ps == First(sent, n)
  <2>1. sent \in Seq(Fitting) /\ pgot \in Seq(Fitting) /\ n <= Len(sent) /\ \A i \in 1 .. n : pgot[i] = sent[i]
    BY Zenon DEF StreamInv, ReqInv, SendInv, GotInv
  <2>2. n \in Nat /\ Len(sent) \in Nat
    BY <2>1
  <2> HIDE DEF n
  <2>3. ps \in Seq(Fitting) /\ Len(ps) = n /\ \A i \in 1 .. n : ps[i] = sent[i]
    BY <2>1, <2>2 DEF First
  <2> HIDE DEF ps
  <2>4. Len(pgot) = Len(ps) /\ \A i \in 1 .. Len(pgot) : pgot[i] = ps[i]
    BY <2>1, <2>3, Zenon DEF n
  <2>5. pgot = ps
    BY <2>1, <2>3, <2>4, SeqEq, SMT
  <2>6. QED BY <2>1, <2>5, Zenon DEF RequestsIntact, ps, n
<1>2. QED BY <1>1, StreamInvariant, PTL

\* The client gets the packets the peer sent, likewise, with the one exception that AnswersIntact names: a
\* connection lost within a fixed header (readPacket and decodePacket).
THEOREM AnswersArrive ==
  Spec => []AnswersIntact
<1>1. StreamInv => AnswersIntact
  <2> SUFFICES ASSUME StreamInv PROVE AnswersIntact
    OBVIOUS
  <2>1. cgot \in Seq(Packets) /\ Len(cgot) <= Len(answered) /\ Truncated(cgot, answered, link, s2c)
    BY Zenon DEF StreamInv, AnsInv, BufInv, ReadInv
  <2>2. DOMAIN cgot = 1 .. Len(cgot)
    BY <2>1
  <2>3. QED BY <2>1, <2>2, Zenon DEF AnswersIntact, Truncated, Dead
<1>2. QED BY <1>1, StreamInvariant, PTL

\* No serialiser and neither reader goes beyond its buffer, and a body is begun only where all of it fits.
THEOREM BuffersSuffice ==
  Spec => []WithinBuffers
<1>1. StreamInv => WithinBuffers
  <2> SUFFICES ASSUME StreamInv PROVE WithinBuffers
    OBVIOUS
  <2>1. Len(out) <= BufSize /\ Len(rbuf) <= ReadBufSize
    BY Zenon DEF StreamInv, ReqInv, SendInv, AnsInv, BufInv
  <2>z. Len(<<>>) <= PeerBufSize /\ 0 # 2 /\ 1 # 2 /\ 1 <= PeerBufSize /\ PeerBufSize \in Nat
    BY SizesAssumption
  <2>2. CASE trp.state = 0 /\ pbuf = <<>>
    BY <2>1, <2>2, <2>z, Zenon DEF WithinBuffers
  <2>3. CASE link = "up"
    <3> DEFINE n == Len(pgot)
               s == Serialize(sent[n + 1])
    <3>1. PICK m : Flow(c2s \o out, sent, n, m) /\ PeerAt(trp, pbuf, sent, n, m)
      BY <2>3, Zenon DEF StreamInv, ReqInv, PeerInv, PeerIn
    <3>2. CASE n < Len(sent)
      <4>1. Wire(s)
        <5> DEFINE q == c2s \o out
        <5>1. Flow(q, sent, n, m) /\ sent \in Seq(Fitting)
          BY <3>1, Zenon DEF StreamInv, ReqInv, SendInv
        <5>2. Len(sent) \in Nat
          BY <5>1
        <5> HIDE DEF q, n
        <5>3. QED BY <3>2, <5>1, <5>2, FlowWire, SMT
      <4>2. s \in Seq(Byte) /\ Fixed(s) \in 2 .. 5 /\ Fixed(s) <= Len(s) /\ Len(s) \in Nat
        BY <4>1, WireShape, Zenon
      <4>3. CASE InHeader(trp, pbuf, s, m)
        <5>1. trp.state = 1 /\ pbuf = First(s, 1)
          BY <4>3, Zenon DEF InHeader
        <5> HIDE DEF s
        <5>2. Len(First(s, 1)) = 1
          BY <4>2, FirstOfFirst
        <5>3. QED BY <2>1, <2>z, <5>1, <5>2, Zenon DEF WithinBuffers
      <4>4. CASE InBody(trp, pbuf, s, m)
        <5> DEFINE t == trp.len
                   l == Len(s)
        <5>1. t \in Fixed(s) .. l - 1 /\ trp.rem_len = l - t /\ pbuf = First(s, t) /\ l <= PeerBufSize
          BY <4>4, Zenon DEF InBody
        <5>n. l \in Nat /\ Fixed(s) \in Nat
          BY <4>2
        <5> HIDE DEF t, l, s
        <5>2. t \in 0 .. l /\ t + (l - t) <= PeerBufSize /\ t <= PeerBufSize
          BY <5>1, <5>n, <2>z
        <5>3. Len(First(s, t)) = t
          BY <4>2, <5>2, Halves, Zenon DEF l
        <5>4. QED BY <2>1, <5>1, <5>2, <5>3, Zenon DEF WithinBuffers, t
      <4>5. CASE trp.state = 0 /\ pbuf = <<>>
        BY <2>2, <4>5
      <4>6. QED BY <3>1, <4>3, <4>4, <4>5, Zenon DEF PeerAt
    <3>3. CASE ~ (n < Len(sent))
      BY <2>2, <3>1, <3>3, Zenon DEF PeerAt
    <3>4. QED BY <3>2, <3>3
  <2>4. link = "up" \/ link = "cut"
    BY DEF StreamInv, ReqInv, PeerInv
  <2>5. link = "cut" => trp.state = 0 /\ pbuf = <<>>
    BY Zenon DEF StreamInv, ReqInv, PeerInv
  <2>6. QED BY <2>2, <2>3, <2>4, <2>5, Zenon
<1>2. QED BY <1>1, StreamInvariant, PTL
=============================================================================
