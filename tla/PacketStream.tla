---------------------------- MODULE PacketStream ----------------------------
(***************************************************************************)
(* The client library and a peer at the two ends of a byte stream: one     *)
(* call of the client serialises a packet and sends it (sendPacket,        *)
(* mqtt_network_write), another reads one (readPacket, decodePacket,       *)
(* mqtt_network_read); the peer reads with MQTTPacket_readnb and answers   *)
(* with the serialisers of the library's server half.  The stream carries  *)
(* bytes in pieces and may be cut at any point.                            *)
(***************************************************************************)
EXTENDS PacketCodec

CONSTANTS Requests,           \* the packets the client may send
          Codes,              \* the SUBACK codes the peer may answer with
          Pushes,             \* the packets the peer sends on its own
          MaxSent, MaxPushed, \* bounds on their number
          BufSize, ReadBufSize, PeerBufSize,
          Pieces              \* the sizes a read or a write may stop at

ASSUME PacketsAssumption ==
  /\ Requests \subseteq ClientPackets /\ Codes \subseteq Byte
  /\ Pushes \subseteq PublishPackets /\ \A p \in Pushes : publishLength(p) < Limit

ASSUME SizesAssumption ==
  /\ BufSize \in 0 .. Limit /\ ReadBufSize \in Nat \ {0} /\ PeerBufSize \in Nat \ {0}
  /\ Pieces \subseteq Nat

VARIABLES link,               \* "up" or "cut"
          client,             \* what the client does: "idle", "write", "closed",
                              \* or the part of a packet it reads
          sent,               \* the packets it has serialised
          out,                \* the bytes mqtt_network_write has yet to write
          c2s, s2c,           \* the bytes in the stream
          trp, pbuf, pgot,    \* the peer's MQTTTransport, its buffer, the packets it got
          answered, pushed,   \* the packets the peer has sent, the number of pushes
          rbuf, digits,       \* readbuf, and the length bytes of the packet being read
          cgot                \* the packets the client got

vars == <<link, client, sent, out, c2s, s2c, trp, pbuf, pgot, answered, pushed, rbuf, digits, cgot>>
peerVars == <<trp, pbuf, pgot, answered, pushed>>
readVars == <<rbuf, digits, cgot>>
sendVars == <<sent, out>>

Fresh == [state |-> 0, len |-> 0, rem_len |-> 0, multiplier |-> 1]

Init ==
  /\ link = "up" /\ client = "idle"
  /\ sent = <<>> /\ out = <<>> /\ c2s = <<>> /\ s2c = <<>>
  /\ trp = Fresh /\ pbuf = <<>> /\ pgot = <<>>
  /\ answered = <<>> /\ pushed = 0
  /\ rbuf = <<>> /\ digits = <<>> /\ cgot = <<>>

\* A piece of b that a read or write of up to n bytes takes.
Least(m, n) == IF m <= n THEN m ELSE n
Piece(b, n) == {Least(k, Least(n, Len(b))) : k \in Pieces \cup {n}}
Rest(b, k) == SubSeq(b, k + 1, Len(b))
First(b, k) == SubSeq(b, 1, k)

-----------------------------------------------------------------------------
\* The client sends.

\* A call serialises p into buf and starts to send it; when p does not fit the
\* session is closed.  Before anything else comes CONNECT, and its answer.
SendPacket(p) ==
  /\ client = "idle" /\ Len(sent) < MaxSent
  /\ IF p.type = CONNECT THEN sent = <<>> ELSE cgot # <<>>
  /\ IF Needs(p) > BufSize
       THEN client' = "closed" /\ UNCHANGED <<sent, out>>
       ELSE out' = Serialize(p) /\ sent' = Append(sent, p) /\ client' = "write"
  /\ UNCHANGED <<link, c2s, s2c, peerVars, readVars>>

\* SSL_write is given all of the packet again.
WriteAgain ==
  /\ client = "write" /\ out # <<>> /\ link = "up"
  /\ \E k \in Piece(out, Len(out)) :
       /\ c2s' = c2s \o First(out, k)
       /\ out' = IF k = Len(out) THEN <<>> ELSE Rest(out, k - 1)
  /\ UNCHANGED <<link, client, sent, s2c, peerVars, readVars>>

\* SSL_write takes some or all of the bytes left.
Write ==
  /\ client = "write" /\ out # <<>> /\ link = "up"
  /\ \E k \in Piece(out, Len(out)) : c2s' = c2s \o First(out, k) /\ out' = Rest(out, k)
  /\ UNCHANGED <<link, client, sent, s2c, peerVars, readVars>>

\* sendPacket has sent all, or SSL_write failed and the session is closed, as
\* it is after a DISCONNECT.
WriteEnds ==
  /\ client = "write"
  /\ \/ out = <<>> /\ client' = IF sent[Len(sent)].type = DISCONNECT THEN "closed" ELSE "idle"
     \/ out # <<>> /\ link = "cut" /\ client' = "closed"
  /\ out' = <<>>
  /\ UNCHANGED <<link, sent, c2s, s2c, peerVars, readVars>>

-----------------------------------------------------------------------------
\* The peer: MQTTPacket_readnb, one call of getfn at a time.  While there is
\* no byte it returns 0 and keeps its place.

PeerFrame == UNCHANGED <<client, sendVars, readVars>>

\* rc -1: the peer closes the connection.
PeerFails == link' = "cut" /\ trp' = Fresh /\ pbuf' = <<>> /\ UNCHANGED <<s2c, pgot, answered, pushed>>

Answers(p) ==
  CASE p.type = CONNECT -> {<<[type |-> CONNACK, sessionPresent |-> 0, rc |-> 0]>>}
    [] p.type = PUBLISH /\ p.qos > 0 -> {<<[type |-> IF p.qos = 1 THEN PUBACK ELSE PUBREC, dup |-> 0, id |-> p.id]>>}
    [] p.type = PUBREC -> {<<[type |-> PUBREL, dup |-> 0, id |-> p.id]>>}
    [] p.type = PUBREL -> {<<[type |-> PUBCOMP, dup |-> 0, id |-> p.id]>>}
    [] p.type = SUBSCRIBE -> {<<[type |-> SUBACK, id |-> p.id, granted |-> [i \in DOMAIN p.filters |-> c]]>> : c \in Codes}
    [] p.type = UNSUBSCRIBE -> {<<[type |-> UNSUBACK, dup |-> 0, id |-> p.id]>>}
    [] p.type = PINGREQ -> {<<[type |-> PINGRESP]>>}
    [] OTHER -> {<<>>}

\* A packet is complete in d: the peer takes it and answers.
PeerGot(d) ==
  /\ trp' = Fresh
  /\ pbuf' = <<>>
  /\ \E p \in {Deserialize(d)} :
       /\ pgot' = Append(pgot, p)
       /\ \E a \in Answers(p) :
            answered' = answered \o a /\ s2c' = s2c \o Joined([i \in DOMAIN a |-> Serialize(a[i])])
  /\ UNCHANGED <<link, pushed>>

PeerHeader ==
  /\ trp.state = 0 /\ c2s # <<>> /\ link = "up"
  /\ pbuf' = First(c2s, 1) /\ c2s' = Rest(c2s, 1)
  /\ trp' = [Fresh EXCEPT !.state = 1]
  /\ PeerFrame /\ UNCHANGED <<link, s2c, pgot, answered, pushed>>

\* A packet of length 0 waits for a body.
PeerLengthWaits ==
  /\ trp.state = 1 /\ c2s # <<>> /\ link = "up"
  /\ c2s' = Rest(c2s, 1) /\ PeerFrame
  /\ LET len == trp.len + 1
         rem_len == trp.rem_len + (c2s[1] % Radix) * trp.multiplier
         d == First(pbuf, 1) \o MQTTPacket_encode(rem_len)
     IN CASE \/ More(c2s[1]) /\ len = MAX_NO_OF_REMAINING_LENGTH_BYTES
             \/ ~ More(c2s[1]) /\ rem_len + Len(d) > PeerBufSize -> PeerFails
          [] More(c2s[1]) /\ len < MAX_NO_OF_REMAINING_LENGTH_BYTES ->
               /\ trp' = [trp EXCEPT !.len = len, !.rem_len = rem_len, !.multiplier = @ * Radix]
               /\ UNCHANGED <<link, s2c, pbuf, pgot, answered, pushed>>
          [] OTHER -> /\ trp' = [Fresh EXCEPT !.state = 2, !.len = Len(d), !.rem_len = rem_len] /\ pbuf' = d
                      /\ UNCHANGED <<link, s2c, pgot, answered, pushed>>

\* MQTTPacket_decodenb and, after the last digit, the check of the buffer.
PeerLength ==
  /\ trp.state = 1 /\ c2s # <<>> /\ link = "up"
  /\ c2s' = Rest(c2s, 1) /\ PeerFrame
  /\ LET len == trp.len + 1
         rem_len == trp.rem_len + (c2s[1] % Radix) * trp.multiplier
         d == First(pbuf, 1) \o MQTTPacket_encode(rem_len)
     IN CASE \/ More(c2s[1]) /\ len = MAX_NO_OF_REMAINING_LENGTH_BYTES
             \/ ~ More(c2s[1]) /\ rem_len + Len(d) > PeerBufSize -> PeerFails
          [] More(c2s[1]) /\ len < MAX_NO_OF_REMAINING_LENGTH_BYTES ->
               /\ trp' = [trp EXCEPT !.len = len, !.rem_len = rem_len, !.multiplier = @ * Radix]
               /\ UNCHANGED <<link, s2c, pbuf, pgot, answered, pushed>>
          [] ~ More(c2s[1]) /\ rem_len = 0 /\ Len(d) <= PeerBufSize -> PeerGot(d)
          [] OTHER -> /\ trp' = [Fresh EXCEPT !.state = 2, !.len = Len(d), !.rem_len = rem_len] /\ pbuf' = d
                      /\ UNCHANGED <<link, s2c, pgot, answered, pushed>>

\* getfn gives what there is, up to the rest of the packet.
PeerBody ==
  /\ trp.state = 2 /\ c2s # <<>> /\ link = "up"
  /\ PeerFrame
  /\ LET k == Least(Len(c2s), trp.rem_len)
     IN /\ c2s' = Rest(c2s, k)
        /\ IF k = trp.rem_len THEN \E d \in {pbuf \o First(c2s, k)} : PeerGot(d)
           ELSE /\ trp' = [trp EXCEPT !.rem_len = @ - k, !.len = @ + k]
                /\ pbuf' = pbuf \o First(c2s, k)
                /\ UNCHANGED <<link, s2c, pgot, answered, pushed>>

PeerPushes(p) ==
  /\ link = "up" /\ pgot # <<>> /\ pushed < MaxPushed
  /\ pushed' = pushed + 1 /\ answered' = Append(answered, p) /\ s2c' = s2c \o Serialize(p)
  /\ UNCHANGED <<link, client, sendVars, c2s, trp, pbuf, pgot, readVars>>

-----------------------------------------------------------------------------
\* The client reads: readPacket.

StartRead ==
  /\ client = "idle" /\ client' = "header"
  /\ UNCHANGED <<link, sendVars, c2s, s2c, peerVars, readVars>>

ReadFrame == UNCHANGED <<link, sendVars, c2s, peerVars>>

\* A packet is complete in d.
ClientGot(d) ==
  client' = "idle" /\ cgot' = Append(cgot, Deserialize(d)) /\ rbuf' = <<>> /\ digits' = <<>>

ReadHeader ==
  /\ client = "header" /\ s2c # <<>>
  /\ client' = "length" /\ rbuf' = First(s2c, 1) /\ s2c' = Rest(s2c, 1)
  /\ ReadFrame /\ UNCHANGED <<digits, cgot>>

\* The bytes of the header are not counted.
LengthReadAlone(ds) ==
  LET rem_len == DigitsValue(ds)
      d == rbuf \o MQTTPacket_encode(rem_len)
  IN IF rem_len > ReadBufSize THEN client' = "closed" /\ rbuf' = <<>> /\ digits' = <<>> /\ UNCHANGED cgot
     ELSE IF rem_len = 0 THEN ClientGot(d)
     ELSE client' = "body" /\ rbuf' = d /\ digits' = ds /\ UNCHANGED cgot

\* decodePacket has returned with the digits ds, put back into readbuf.
LengthRead(ds) ==
  LET rem_len == DigitsValue(ds)
      d == rbuf \o MQTTPacket_encode(rem_len)
  IN IF rem_len > ReadBufSize - Len(d) THEN client' = "closed" /\ rbuf' = <<>> /\ digits' = <<>> /\ UNCHANGED cgot
     ELSE IF rem_len = 0 THEN ClientGot(d)
     ELSE client' = "body" /\ rbuf' = d /\ digits' = ds /\ UNCHANGED cgot

\* The value of the last digit only.
ReadLengthLast ==
  /\ client = "length" /\ s2c # <<>>
  /\ s2c' = Rest(s2c, 1)
  /\ LET ds == Append(digits, s2c[1])
     IN IF More(s2c[1]) /\ Len(ds) < MAX_NO_OF_REMAINING_LENGTH_BYTES
          THEN digits' = ds /\ UNCHANGED <<client, rbuf, cgot>>
          ELSE LengthRead(<<s2c[1]>>)
  /\ ReadFrame

ReadLength ==
  /\ client = "length" /\ s2c # <<>>
  /\ s2c' = Rest(s2c, 1)
  /\ LET ds == Append(digits, s2c[1])
     IN IF More(s2c[1]) /\ Len(ds) < MAX_NO_OF_REMAINING_LENGTH_BYTES
          THEN digits' = ds /\ UNCHANGED <<client, rbuf, cgot>>
          ELSE LengthRead(ds)
  /\ ReadFrame

\* mqtt_network_read: SSL_read gives some or all of the bytes asked for.
ReadBody ==
  /\ client = "body" /\ s2c # <<>>
  /\ LET left == 1 + Len(MQTTPacket_encode(DigitsValue(digits))) + DigitsValue(digits) - Len(rbuf)
     IN \E k \in Piece(s2c, left) :
          /\ s2c' = Rest(s2c, k)
          /\ IF k = left THEN ClientGot(rbuf \o First(s2c, k))
             ELSE rbuf' = rbuf \o First(s2c, k) /\ UNCHANGED <<client, digits, cgot>>
  /\ ReadFrame

\* SSL_read fails: the call ends without a packet, -1 closing the session and
\* 0 being taken for a time-out.  A failure within the length goes unnoticed.
ReadFails ==
  /\ link = "cut" /\ s2c = <<>>
  /\ \/ client = "header" /\ client' = "closed" /\ UNCHANGED readVars
     \/ client = "length" /\ LengthRead(digits)
     \/ client = "body" /\ client' = "idle" /\ rbuf' = <<>> /\ digits' = <<>> /\ UNCHANGED cgot
  /\ ReadFrame /\ UNCHANGED s2c

\* The connection is lost, with the last of the bytes for the client and those
\* the peer has not read; MQTTPacket_readnb fails and will start anew.
Cut ==
  /\ link = "up" /\ link' = "cut" /\ c2s' = <<>>
  /\ trp' = Fresh /\ pbuf' = <<>>
  /\ \E k \in 0 .. Len(s2c) : s2c' = First(s2c, k)
  /\ UNCHANGED <<client, sendVars, pgot, answered, pushed, readVars>>

-----------------------------------------------------------------------------
PeerReads == PeerHeader \/ PeerLength \/ PeerBody
ClientSends == Write \/ WriteEnds
ClientReads == ReadHeader \/ ReadLength \/ ReadBody \/ ReadFails

Next ==
  \/ \E p \in Requests : SendPacket(p)
  \/ ClientSends \/ StartRead \/ ClientReads
  \/ PeerReads \/ \E p \in Pushes : PeerPushes(p)
  \/ Cut

Spec == Init /\ [][Next]_vars

\* A client that sends goes on while it can; so does the peer.
FairSpec == Spec /\ WF_vars(ClientSends) /\ WF_vars(PeerReads)

-----------------------------------------------------------------------------
\* No serialiser of the client writes behind buf, and neither reader behind
\* its buffer, nor does MQTTPacket_readnb begin a body that it has no room for:
\* MQTTPacket_len never asks for too little, and the readers count the header.
WithinBuffers ==
  /\ Len(out) <= BufSize /\ Len(rbuf) <= ReadBufSize /\ Len(pbuf) <= PeerBufSize
  /\ trp.state = 2 => trp.len = Len(pbuf) /\ trp.len + trp.rem_len <= PeerBufSize

\* The peer gets the packets the client sent, each once, in order and with
\* every field as it was, however the bytes are cut into pieces; of a
\* connection that is lost, it gets a prefix of them.
RequestsIntact == Len(pgot) <= Len(sent) /\ pgot = First(sent, Len(pgot))

\* The client gets the packets the peer sent, likewise, up to that conversion.
\* A connection lost within a fixed header is the one exception: readPacket
\* does not look at decodePacket's result and takes the header for a packet of
\* length 0, of which the type alone is right.  No other packet cut short is
\* taken for a packet, and nothing is read after this one.
AnswersIntact ==
  /\ Len(cgot) <= Len(answered)
  /\ \A i \in DOMAIN cgot :
       \/ cgot[i] = AsRead(answered[i])
       \/ /\ i = Len(cgot) /\ link = "cut" /\ s2c = <<>>
          /\ cgot[i] = Deserialize(<<Serialize(answered[i])[1], 0>>)

\* Whatever the client has begun to send reaches the peer in the end, unless
\* the connection is lost.
Delivered == []<>(Len(pgot) = Len(sent) \/ link = "cut")
=============================================================================
