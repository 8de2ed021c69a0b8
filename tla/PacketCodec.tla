---------------------------- MODULE PacketCodec ----------------------------
(***************************************************************************)
(* The packet library of mqtt/MQTTPacket: how a packet becomes bytes and   *)
(* bytes become a packet.  A packet is a record with the arguments of its  *)
(* serialiser; strings are sequences of bytes, optional ones have length 0 *)
(* or 1; a position in a buffer counts from 1.                             *)
(***************************************************************************)
EXTENDS Integers, Sequences

CONSTANT Radix                \* 128: base of the remaining length's digits

ASSUME RadixAssumption == Radix \in 3 .. 128

CONNECT == 1
CONNACK == 2
PUBLISH == 3
PUBACK == 4
PUBREC == 5
PUBREL == 6
PUBCOMP == 7
SUBSCRIBE == 8
SUBACK == 9
UNSUBSCRIBE == 10
UNSUBACK == 11
PINGREQ == 12
PINGRESP == 13
DISCONNECT == 14

\* The bit fields of MQTTHeader: qos keeps two bits of its value.
HeaderByte(type, dup, qos, retain) == 16 * type + 8 * dup + 2 * (qos % 4) + retain
TypeOf(b) == b \div 16
DupOf(b) == (b \div 8) % 2
QosOf(b) == (b \div 2) % 4
RetainOf(b) == b % 2

\* writeInt and readInt; writeMQTTString, and readMQTTLenString with its tests.
Int16(n) == <<(n \div 256) % 256, n % 256>>
IntAt(d, at) == 256 * d[at] + d[at + 1]
MQTTString(s) == Int16(Len(s)) \o s
StringFits(d, at, end) == end - at > 1 /\ at + 2 + IntAt(d, at) <= end
StringAt(d, at) == SubSeq(d, at + 2, at + 1 + IntAt(d, at))
Past(d, at) == at + 2 + IntAt(d, at)

\* readChar gives a char: it is signed.
CharAt(d, at) == IF d[at] > 127 THEN d[at] - 256 ELSE d[at]

-----------------------------------------------------------------------------
\* The remaining length: digits, least significant first, all but the last
\* with the top bit set.

MQTTPacket_encode(n) ==
  LET e[k \in 0 .. n] == IF k < Radix THEN <<k>> ELSE <<Radix + (k % Radix)>> \o e[k \div Radix]
  IN e[n]

MAX_NO_OF_REMAINING_LENGTH_BYTES == 4

More(b) == b >= Radix

\* The value of the digits read so far.
DigitsValue(ds) ==
  LET loop[j \in 0 .. Len(ds)] ==
        IF j = 0 THEN [value |-> 0, multiplier |-> 1]
        ELSE [value |-> loop[j - 1].value + (ds[j] % Radix) * loop[j - 1].multiplier,
              multiplier |-> loop[j - 1].multiplier * Radix]
  IN loop[Len(ds)].value

\* MQTTPacket_decodeBuf: the digits at a position.
DigitsAt(d, at) ==
  LET n == CHOOSE k \in 1 .. MAX_NO_OF_REMAINING_LENGTH_BYTES :
             /\ k = MAX_NO_OF_REMAINING_LENGTH_BYTES \/ ~ More(d[at + k - 1])
             /\ \A j \in 1 .. k - 1 : More(d[at + j - 1])
  IN SubSeq(d, at, at + n - 1)

\* The header byte is not counted.
LenWithoutHeader(rem_len) ==
  rem_len + (IF rem_len < Radix THEN 1
             ELSE IF rem_len < Radix * Radix THEN 2
             ELSE IF rem_len < Radix * Radix * Radix THEN 3 ELSE 4)

\* The header byte is counted before the thresholds are looked at.
MQTTPacket_len(rem_len) ==
  LET n == rem_len + 1
  IN n + (IF n < Radix THEN 1
          ELSE IF n < Radix * Radix THEN 2
          ELSE IF n < Radix * Radix * Radix - 1 THEN 3 ELSE 4)

-----------------------------------------------------------------------------
\* The serialisers.

Flag(s) == Len(s)             \* of an optional string

OptLength(s) == IF s = <<>> THEN 0 ELSE Len(s[1]) + 2
OptString(s) == IF s = <<>> THEN <<>> ELSE MQTTString(s[1])

\* The loops over filters: lengths added up, strings written one after another.
Total(s) ==
  LET len[i \in 0 .. Len(s)] == IF i = 0 THEN 0 ELSE len[i - 1] + s[i]
  IN len[Len(s)]
Joined(s) ==
  LET ptr[i \in 0 .. Len(s)] == IF i = 0 THEN <<>> ELSE ptr[i - 1] \o s[i]
  IN ptr[Len(s)]

\* The outcome of a serialiser: the room it asks for and the bytes it writes.
Written(needs, header, rem_len, body) ==
  [needs |-> needs, bytes |-> <<header>> \o MQTTPacket_encode(rem_len) \o body]

connectLength(p) ==
  (IF p.version = 4 THEN 10 ELSE 12)
  + Len(p.clientID) + 2 + OptLength(p.willTopic) + OptLength(p.willMessage)
  + OptLength(p.username) + OptLength(p.password)

Protocol(version) == IF version = 4 THEN <<77, 81, 84, 84>> ELSE <<77, 81, 73, 115, 100, 112>>

connectFlags(p) ==
  128 * Flag(p.username) + 64 * Flag(p.password)
  + Flag(p.willTopic) * (32 * p.willRetain + 8 * p.willQos + 4) + 2 * p.clean

MQTTSerialize_connect(p) ==
  LET len == connectLength(p)
  IN Written(MQTTPacket_len(len), HeaderByte(CONNECT, 0, 0, 0), len,
             MQTTString(Protocol(p.version)) \o <<p.version, connectFlags(p)>>
             \o Int16(p.keepAlive) \o MQTTString(p.clientID) \o OptString(p.willTopic) \o OptString(p.willMessage)
             \o OptString(p.username) \o OptString(p.password))

MQTTSerialize_zero(type) == Written(2, HeaderByte(type, 0, 0, 0), 0, <<>>)

publishLength(p) == 2 + Len(p.topic) + Len(p.payload) + (IF p.qos > 0 THEN 2 ELSE 0)

MQTTSerialize_publish(p) ==
  LET rem_len == publishLength(p)
  IN Written(MQTTPacket_len(rem_len), HeaderByte(PUBLISH, p.dup, p.qos, p.retained), rem_len,
             MQTTString(p.topic) \o (IF p.qos > 0 THEN Int16(p.id) ELSE <<>>) \o p.payload)

MQTTSerialize_ack(p) ==
  Written(4, HeaderByte(p.type, p.dup, IF p.type = PUBREL THEN 1 ELSE 0, 0), 2, Int16(p.id))

subscribeLength(p) == 2 + Total([i \in DOMAIN p.filters |-> 2 + Len(p.filters[i][1]) + 1])

MQTTSerialize_subscribe(p) ==
  LET rem_len == subscribeLength(p)
  IN Written(MQTTPacket_len(rem_len), HeaderByte(SUBSCRIBE, p.dup, 1, 0), rem_len,
             Int16(p.id) \o Joined([i \in DOMAIN p.filters |-> Append(MQTTString(p.filters[i][1]), p.filters[i][2])]))

unsubscribeLength(p) == 2 + Total([i \in DOMAIN p.filters |-> 2 + Len(p.filters[i])])

MQTTSerialize_unsubscribe(p) ==
  LET rem_len == unsubscribeLength(p)
  IN Written(MQTTPacket_len(rem_len), HeaderByte(UNSUBSCRIBE, p.dup, 1, 0), rem_len,
             Int16(p.id) \o Joined([i \in DOMAIN p.filters |-> MQTTString(p.filters[i])]))

\* The server's serialisers ask for less room than they take.
MQTTSerialize_connack(p) == Written(2, HeaderByte(CONNACK, 0, 0, 0), 2, <<p.sessionPresent, p.rc>>)
MQTTSerialize_suback(p) ==
  Written(2 + Len(p.granted), HeaderByte(SUBACK, 0, 0, 0), 2 + Len(p.granted), Int16(p.id) \o p.granted)
MQTTSerialize_unsuback(p) == Written(2, HeaderByte(UNSUBACK, 0, 0, 0), 2, Int16(p.id))

\* The serialiser of a packet's type.
Serializer(p) ==
  CASE p.type = CONNECT -> MQTTSerialize_connect(p)
    [] p.type = CONNACK -> MQTTSerialize_connack(p)
    [] p.type = PUBLISH -> MQTTSerialize_publish(p)
    [] p.type \in PUBACK .. PUBCOMP -> MQTTSerialize_ack(p)
    [] p.type = SUBSCRIBE -> MQTTSerialize_subscribe(p)
    [] p.type = SUBACK -> MQTTSerialize_suback(p)
    [] p.type = UNSUBSCRIBE -> MQTTSerialize_unsubscribe(p)
    [] p.type = UNSUBACK -> MQTTSerialize_unsuback(p)
    [] OTHER -> MQTTSerialize_zero(p.type)

Serialize(p) == Serializer(p).bytes
Needs(p) == Serializer(p).needs

-----------------------------------------------------------------------------
\* The packets that are serialised.  A text's length is written as two bytes; a
\* user name or password that is given is not empty, and a password comes with
\* a user name (what the server half refuses otherwise); MQTTClient.c never
\* sets dup, and subscribes and unsubscribes one filter at a time.

Byte == {n \in Nat : n < 256}
UShort == {n \in Nat : n < 65536}
Text == {s \in Seq(Byte) : Len(s) < 65536}
Optional(S) == {s \in Seq(S) : Len(s) <= 1}

ConnectPackets ==
  {p \in [type : {CONNECT}, version : {3, 4}, clean : {0, 1}, keepAlive : UShort, clientID : Text,
          willTopic : Optional(Text), willMessage : Optional(Text), willQos : 0 .. 2, willRetain : {0, 1},
          username : Optional(Text \ {<<>>}), password : Optional(Text \ {<<>>})] :
     /\ Len(p.willTopic) = Len(p.willMessage)
     /\ p.willTopic = <<>> => p.willQos = 0 /\ p.willRetain = 0
     /\ p.username = <<>> => p.password = <<>>}

PublishPackets ==
  {p \in [type : {PUBLISH}, dup : {0, 1}, qos : 0 .. 2, retained : {0, 1}, id : UShort, topic : Text,
          payload : Seq(Byte)] : p.qos = 0 => p.id = 0}

AckPackets(types) == [type : types, dup : {0}, id : UShort]

OneFilter(S) == {s \in Seq(S) : Len(s) = 1}
SubscribePackets == [type : {SUBSCRIBE}, dup : {0}, id : UShort, filters : OneFilter(Text \X (0 .. 2))]
UnsubscribePackets == [type : {UNSUBSCRIBE}, dup : {0}, id : UShort, filters : OneFilter(Text)]

ClientPackets ==
  ConnectPackets \cup PublishPackets \cup AckPackets(PUBACK .. PUBCOMP)
  \cup SubscribePackets \cup UnsubscribePackets \cup [type : {PINGREQ, DISCONNECT}]

\* The packets of a server.
ServerPackets ==
  [type : {CONNACK}, sessionPresent : {0, 1}, rc : Byte] \cup PublishPackets
  \cup AckPackets((PUBACK .. PUBCOMP) \cup {UNSUBACK})
  \cup [type : {SUBACK}, id : UShort, granted : OneFilter(Byte)] \cup [type : {PINGRESP}]

\* The lengths that four digits can carry.
Limit == Radix * Radix * Radix * Radix

-----------------------------------------------------------------------------
\* The deserialisers.  d is the buffer; its length byte or bytes tell where
\* the packet ends.

\* The outcome of a deserialiser that failed: "1 is success, 0 is failure".
Bad == [type |-> 0]

\* A packet whose fields do not fit: most deserialisers then return the number
\* of length bytes, which may be 1, and leave their results unset.
Short(d) == IF Len(DigitsAt(d, 2)) = 1 THEN [type |-> TypeOf(d[1]), unset |-> TRUE] ELSE Bad

Start(d) == 2 + Len(DigitsAt(d, 2))
End(d) == Start(d) + DigitsValue(DigitsAt(d, 2))

MQTTDeserialize_connack(d) ==
  IF End(d) - Start(d) < 2 THEN Short(d)
  ELSE [type |-> CONNACK, sessionPresent |-> d[Start(d)] % 2, rc |-> d[Start(d) + 1]]

\* The packet id is taken as part of the payload.
DeserializePublishNoId(d) ==
  IF ~ StringFits(d, Start(d), End(d)) THEN Short(d)
  ELSE [type |-> PUBLISH, dup |-> DupOf(d[1]), qos |-> QosOf(d[1]), retained |-> RetainOf(d[1]), id |-> 0,
        topic |-> StringAt(d, Start(d)), payload |-> SubSeq(d, Past(d, Start(d)), End(d) - 1)]

MQTTDeserialize_publish(d) ==
  LET qos == QosOf(d[1])
      body == Past(d, Start(d)) + (IF qos > 0 THEN 2 ELSE 0)
  IN IF ~ StringFits(d, Start(d), End(d)) THEN Short(d)
     ELSE [type |-> PUBLISH, dup |-> DupOf(d[1]), qos |-> qos, retained |-> RetainOf(d[1]),
           id |-> IF qos > 0 THEN IntAt(d, Past(d, Start(d))) ELSE 0,
           topic |-> StringAt(d, Start(d)), payload |-> SubSeq(d, body, End(d) - 1)]

MQTTDeserialize_ack(d) ==
  IF End(d) - Start(d) < 2 THEN Short(d)
  ELSE [type |-> TypeOf(d[1]), dup |-> DupOf(d[1]), id |-> IntAt(d, Start(d))]

MQTTDeserialize_unsuback(d) == [MQTTDeserialize_ack(d) EXCEPT !.type = UNSUBACK]

\* MQTTSubscribeWithResults gives room for one code.
maxcount == 1

\* The codes are stored as chars, one more than there is room for included.
MQTTDeserialize_suback(d) ==
  LET count == End(d) - Start(d) - 2
  IN CASE count < 0 -> Short(d)
       [] count > maxcount + 1 -> Bad
       [] OTHER -> [type |-> SUBACK, id |-> IntAt(d, Start(d)),
                    granted |-> [i \in 1 .. count |-> CharAt(d, Start(d) + 1 + i)]]

\* The loop over the filters of a packet, each with extra bytes behind it: where
\* they start.  It ends at a filter that does not fit, for which there is a 0.
FiltersFrom(d, extra) ==
  LET f[at \in 1 .. End(d) + 2] ==
        IF at >= End(d) THEN <<>>
        ELSE IF StringFits(d, at, End(d)) /\ Past(d, at) + extra <= End(d)
               THEN <<at>> \o f[Past(d, at) + extra]
        ELSE <<0>>
  IN f[Start(d) + 2]
FiltersFit(d, extra) == \A i \in DOMAIN FiltersFrom(d, extra) : FiltersFrom(d, extra)[i] # 0

MQTTDeserialize_subscribe(d) ==
  IF ~ FiltersFit(d, 1) THEN Short(d)
  ELSE [type |-> SUBSCRIBE, dup |-> DupOf(d[1]), id |-> IntAt(d, Start(d)),
        filters |-> [i \in DOMAIN FiltersFrom(d, 1) |->
                       LET at == FiltersFrom(d, 1)[i] IN <<StringAt(d, at), CharAt(d, Past(d, at))>>]]

MQTTDeserialize_unsubscribe(d) ==
  IF ~ FiltersFit(d, 0) THEN Short(d)
  ELSE [type |-> UNSUBSCRIBE, dup |-> DupOf(d[1]), id |-> IntAt(d, Start(d)),
        filters |-> [i \in DOMAIN FiltersFrom(d, 0) |-> StringAt(d, FiltersFrom(d, 0)[i])]]

MQTTPacket_checkVersion(name, version) ==
  /\ version \in {3, 4}
  /\ \A i \in DOMAIN name \cap DOMAIN Protocol(version) : name[i] = Protocol(version)[i]

\* The strings follow one another, the optional ones as their flags say; a
\* user name or password takes at least three bytes, a password a user name.
\* Where the packet ends, its caller says.
MQTTDeserialize_connect(d) ==
  LET end == End(d)
      version == d[Past(d, Start(d))]
      flags == d[Past(d, Start(d)) + 1]
      Bit(n) == (flags \div n) % 2 = 1
      cid == Past(d, Start(d)) + 4
      will == Past(d, cid)
      message == IF Bit(4) THEN Past(d, will) ELSE will
      user == IF Bit(4) THEN Past(d, message) ELSE will
      pass == IF Bit(128) THEN Past(d, user) ELSE user
      Opt(bit, at) == IF bit THEN <<StringAt(d, at)>> ELSE <<>>
      Num(bit) == IF bit THEN 1 ELSE 0
      ok == /\ StringFits(d, Start(d), end)
            /\ MQTTPacket_checkVersion(StringAt(d, Start(d)), version)
            /\ StringFits(d, cid, end)
            /\ Bit(4) => StringFits(d, will, end) /\ StringFits(d, message, end)
            /\ Bit(128) => end - user >= 3 /\ StringFits(d, user, end)
            /\ Bit(64) => Bit(128) /\ end - pass >= 3 /\ StringFits(d, pass, end)
  IN IF ~ ok THEN Bad
     ELSE [type |-> CONNECT, version |-> version, clean |-> Num(Bit(2)), keepAlive |-> IntAt(d, cid - 2),
           clientID |-> StringAt(d, cid),
           willTopic |-> Opt(Bit(4), will), willMessage |-> Opt(Bit(4), message),
           willQos |-> Num(Bit(4)) * ((flags \div 8) % 4), willRetain |-> Num(Bit(4) /\ Bit(32)),
           username |-> Opt(Bit(128), user), password |-> Opt(Bit(64), pass)]

\* What the receiver of a packet makes of it.
Deserialize(d) ==
  LET type == TypeOf(d[1])
  IN CASE type = CONNECT -> MQTTDeserialize_connect(d)
       [] type = CONNACK -> MQTTDeserialize_connack(d)
       [] type = PUBLISH -> MQTTDeserialize_publish(d)
       [] type = SUBSCRIBE -> MQTTDeserialize_subscribe(d)
       [] type = SUBACK -> MQTTDeserialize_suback(d)
       [] type = UNSUBSCRIBE -> MQTTDeserialize_unsubscribe(d)
       [] type = UNSUBACK -> MQTTDeserialize_unsuback(d)
       [] type \in PUBACK .. PUBCOMP -> MQTTDeserialize_ack(d)
       [] OTHER -> [type |-> type]

\* The codes of a SUBACK pass through a char: 0x80 is read as -128.
AsRead(p) ==
  IF p.type # SUBACK THEN p
  ELSE [p EXCEPT !.granted = [i \in DOMAIN p.granted |-> IF p.granted[i] > 127 THEN p.granted[i] - 256 ELSE p.granted[i]]]
=============================================================================
