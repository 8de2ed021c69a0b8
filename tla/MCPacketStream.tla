--------------------------- MODULE MCPacketStream ---------------------------
(***************************************************************************)
(* PacketStream with packets of every length that matters.  With Radix = 4 *)
(* the remaining length gets its second digit at 4, its third at 16 and    *)
(* its fourth at 64.                                                       *)
(***************************************************************************)
EXTENDS PacketStream

Pub(dup, qos, retained, id, topic, n) ==
  [type |-> PUBLISH, dup |-> dup, qos |-> qos, retained |-> retained, id |-> IF qos = 0 THEN 0 ELSE id,
   topic |-> topic, payload |-> [i \in 1 .. n |-> (85 * i) % 256]]

Connect(version, clean, keepAlive, will, willQos, user, pass) ==
  [type |-> CONNECT, version |-> version, clean |-> clean, keepAlive |-> keepAlive, clientID |-> <<98>>,
   willTopic |-> will, willMessage |-> will, willQos |-> Len(will) * willQos, willRetain |-> Len(will),
   username |-> user, password |-> pass]

MCRequests ==
  {Connect(4, 1, 60, <<>>, 0, <<>>, <<>>),
   Pub(0, 0, 1, 0, <<97>>, 0), Pub(0, 2, 0, 3, <<97>>, 11), Pub(0, 0, 0, 0, <<97>>, 14), Pub(0, 0, 0, 0, <<97>>, 15),
   [type |-> SUBSCRIBE, dup |-> 0, id |-> 5, filters |-> <<<<<<97>>, 1>>>>],
   [type |-> PINGREQ], [type |-> DISCONNECT]}

MCPushes == {Pub(0, 1, 0, 9, <<97>>, 1), Pub(0, 0, 0, 0, <<97>>, 16)}

MCCodes == {0, 128}

-----------------------------------------------------------------------------
Ids == {1, 255, 256, 65535}
Bit == {0, 1}
Texts == {<<>>, <<97>>, <<97, 47, 98>>}
Opt == {<<>>, <<<<100>>>>, <<<<100, 101>>>>}

\* Packets for the codec alone, up to four length bytes long.
Packets ==
  {Pub(dup, qos, retained, id, topic, n) :
     dup \in Bit, qos \in 0 .. 2, retained \in Bit, id \in {1, 65535}, topic \in Texts, n \in 0 .. 70}
  \cup {Connect(v, clean, k, will, q, user, pass) :
     v \in {3, 4}, clean \in Bit, k \in Ids, will \in Opt, q \in 0 .. 2, user \in Opt \ {<<>>}, pass \in Opt}
  \cup {Connect(v, 1, 60, will, 1, <<>>, <<>>) : v \in {3, 4}, will \in Opt}
  \cup {[type |-> SUBSCRIBE, dup |-> dup, id |-> id, filters |-> fs] :
     dup \in Bit, id \in Ids, fs \in UNION {[1 .. n -> Texts \X (0 .. 2)] : n \in 1 .. 2}}
  \cup {[type |-> UNSUBSCRIBE, dup |-> dup, id |-> id, filters |-> fs] :
     dup \in Bit, id \in Ids, fs \in UNION {[1 .. n -> Texts] : n \in 1 .. 3}}
  \cup {[type |-> t, dup |-> dup, id |-> id] : t \in (PUBACK .. PUBCOMP) \cup {UNSUBACK}, dup \in {0}, id \in Ids}
  \cup {[type |-> SUBACK, id |-> id, granted |-> <<c>>] : id \in Ids, c \in {0, 1, 2, 128}}
  \cup {[type |-> CONNACK, sessionPresent |-> sp, rc |-> rc] : sp \in Bit, rc \in 0 .. 5}
  \cup {[type |-> t] : t \in {PINGREQ, PINGRESP, DISCONNECT}}

\* Every packet comes out of its deserialiser as it went into its serialiser.
\* What does not depend on the state is stated of the initial one.
RoundTrip == Init => \A p \in Packets : Deserialize(Serialize(p)) = AsRead(p)

\* The client's serialisers ask for the room they take: never for less, and
\* for one byte more only where the header byte moves MQTTPacket_len over a
\* threshold, so that no packet shorter than buf is refused.
RoomAsked ==
  Init => \A p \in Packets : p.type \notin {CONNACK, SUBACK, UNSUBACK} =>
            Needs(p) - Len(Serialize(p)) \in {0, 1}
=============================================================================
