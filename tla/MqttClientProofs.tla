-------------------------- MODULE MqttClientProofs --------------------------
(***************************************************************************)
(* Theorems about MqttClient: first for any number of threads in the       *)
(* library, then for one thread.                                           *)
(***************************************************************************)
EXTENDS MqttClient, TLAPS

\* Only one thread connects, as only mqtt_pub_task does.
OneConnector ==
  \A s, t \in Threads : "connect" \in Calls[s] /\ "connect" \in Calls[t] => s = t

\* Before the broker has accepted the CONNECT, nothing comes from it but a
\* refusal, and that is the end of the connection.  A call of MQTTConnect that
\* has read a CONNACK has read that one, and no other thread can have put
\* another packet over it.
AcceptInv ==
  /\ isconnected = 1 => accepted = 1
  /\ accepted = 0 => inq = <<>> \/ (inq = <<Packet("CONNACK", 0, 5)>> /\ link # "up")
  /\ \A t \in Threads : th[t].call = "connect" =>
       /\ "connect" \in Calls[t]
       /\ th[t].pc = "decode" => th[t].got = "CONNACK"
       /\ accepted = 0 /\ th[t].got = "CONNACK" => inq = <<>> /\ link # "up" /\ ~ ConnackAccepted

-----------------------------------------------------------------------------
\* Type correctness

PC == {"idle", "send", "wait", "decode", "failed"} \cup InCycle

\* The type of a thread's locals and of th, as TypeOK has them.
Locals == [pc : PC, call : CallNames \cup {"none"}, got : PacketTypes \cup {"timeout"},
           id : 0 .. MAX_PACKET_ID, qos : {0, 1, 2}]
ThType == [Threads -> Locals]

\* A packet made of a type, an id and an argument is a packet.
LEMMA PacketIsPacket ==
  ASSUME NEW type \in PacketTypes, NEW id \in 0 .. MAX_PACKET_ID, NEW arg \in {0, 1, 2, 5, 128, Oversize}
  PROVE  Packet(type, id, arg) \in Packets
BY DEF Packet, Packets

\* The client may send it unless it is a PUBLISH that lacks an id.
LEMMA PacketIsOutPacket ==
  ASSUME NEW type \in PacketTypes, NEW id \in 0 .. MAX_PACKET_ID, NEW arg \in {0, 1, 2, 5, 128, Oversize},
         type = "PUBLISH" /\ arg # 0 => id # 0
  PROVE  Packet(type, id, arg) \in OutPackets
BY DEF Packet, Packets, OutPackets

\* A queue of packets keeps its type when its head is taken or a packet is
\* appended, and its head is a packet.
LEMMA InQueueType ==
  ASSUME NEW q \in Seq(Packets)
  PROVE  /\ <<>> \in Seq(Packets)
         /\ \A p \in Packets : Append(q, p) \in Seq(Packets)
         /\ q # <<>> => Head(q) \in Packets /\ Tail(q) \in Seq(Packets)
OBVIOUS

\* The same of the queue to the broker.
LEMMA OutQueueType ==
  ASSUME NEW q \in Seq(OutPackets)
  PROVE  /\ <<>> \in Seq(OutPackets)
         /\ \A p \in OutPackets : Append(q, p) \in Seq(OutPackets)
         /\ q # <<>> => Head(q) \in OutPackets /\ Tail(q) \in Seq(OutPackets)
OBVIOUS

\* Moving a thread within its call keeps the type of th.
LEMMA GotoType ==
  ASSUME TypeOK, NEW t \in Threads, NEW l \in PC, Goto(t, l)
  PROVE  th' \in ThType
<1>1. Idle \in Locals
  BY ClientAssumption DEF Idle, Locals, PC
<1>2. th \in [Threads -> Locals]
  BY DEF TypeOK, Locals, PC
<1>3. [th[t] EXCEPT !.pc = l] \in Locals
  BY <1>2 DEF Locals
<1> QED BY <1>1, <1>2, <1>3 DEF Goto, ThType

\* So does entering a call.
LEMMA EnterType ==
  ASSUME TypeOK, NEW t \in Threads, NEW c \in CallNames, NEW l \in PC,
         NEW id \in 0 .. MAX_PACKET_ID, NEW q \in {0, 1, 2}, Enter(t, c, l, id, q)
  PROVE  th' \in ThType
<1>1. th \in [Threads -> Locals]
  BY DEF TypeOK, Locals, PC
<1>2. [Idle EXCEPT !.pc = l, !.call = c, !.id = id, !.qos = q] \in Locals
  BY Zenon DEF Idle, Locals
<1> QED BY <1>1, <1>2 DEF Enter, ThType


\* The ids getNextPacketId gives are valid.
LEMMA NextIdType == TypeOK => getNextPacketId \in PacketId
BY ClientAssumption DEF TypeOK, getNextPacketId, PacketId

\* The ways a cycle ends keep the type of th.
LEMMA CycleType ==
  ASSUME TypeOK, NEW t \in Threads
  PROVE  /\ \A type : CycleReturns(t, type) => th' \in ThType
         /\ CycleFails(t) => /\ th' \in ThType
                             /\ isconnected' \in {0, 1} /\ ping_outstanding' \in {0, 1} /\ handler' \in {0, 1}
<1>1. /\ \A l \in PC : Goto(t, l) => th' \in ThType
      /\ {"read", "idle", "decode", "wait", "failed"} \subseteq PC
  BY GotoType DEF PC, InCycle
<1> QED BY <1>1 DEF CycleReturns, CycleFails, CloseSession, TypeOK

\* Sending keeps the types of the queue and of the timer.
LEMMA SendType ==
  ASSUME TypeOK, SendOk \/ SendFails
  PROVE  outq' \in Seq(OutPackets) /\ sentExpired' \in {0, 1}
BY OutQueueType, Zenon DEF TypeOK, SendOk, SendFails

\* MQTTClientInit sets every field.
LEMMA InitType == Init => TypeOK
<1> SUFFICES ASSUME Init PROVE TypeOK
  OBVIOUS
<1>1. Idle \in Locals
  BY ClientAssumption DEF Idle, Locals, PC
<1>2. th \in ThType
  BY <1>1 DEF Init, ThType
<1>3. NoPacket \in Packets /\ NoPacket \in OutPackets
  BY PacketIsPacket, PacketIsOutPacket, ClientAssumption DEF NoPacket, PacketTypes
<1> QED BY <1>2, <1>3, ClientAssumption DEF Init, TypeOK, PacketId, ThType, Locals, PC

\* The calls of the library begin.
LEMMA CallsType ==
  ASSUME TypeOK, NEW t \in Threads,
         Connect(t) \/ Subscribe(t) \/ Unsubscribe(t) \/ Publish(t) \/ Disconnect(t) \/ Yield(t)
  PROVE  TypeOK'
<1> USE ClientAssumption
<1>1. /\ PacketId \subseteq 0 .. MAX_PACKET_ID /\ 1 \in PacketId /\ 0 \in 0 .. MAX_PACKET_ID
      /\ {"send", "failed", "read"} \subseteq PC
  BY DEF PacketId, PC, InCycle
<1>2. ASSUME NEW c \in CallNames, NEW type \in PacketTypes, NEW id \in PacketId \cup {0}, NEW q \in {0, 1, 2},
             type = "PUBLISH" /\ q # 0 => id # 0,
             Request(t, c, type, id, q)
      PROVE  TypeOK'
  <2>1. th' \in ThType
    <3>1. Enter(t, c, "failed", 0, 0) \/ Enter(t, c, "send", id, q)
      BY <1>2 DEF Request
    <3>2. id \in 0 .. MAX_PACKET_ID
      BY <1>1
    <3> QED BY <1>1, <3>1, <3>2, EnterType
  <2>2. Packet(type, id, q) \in OutPackets
    BY <1>1, <1>2, PacketIsOutPacket
  <2>3. buf' \in OutPackets /\ next_packetid' \in PacketId
    BY <1>2, <2>2 DEF Request, TypeOK
  <2> QED BY <1>2, <2>1, <2>3 DEF Request, TypeOK, timers, net, broker, ThType, Locals, PC
<1>3. CASE Connect(t)
  <2>1. th' \in ThType
    BY <1>1, <1>3, EnterType DEF Connect, CallNames
  <2>2. buf' \in OutPackets
    BY <1>1, <1>3, PacketIsOutPacket DEF Connect, PacketTypes
  <2> QED BY <1>1, <1>3, <2>1, <2>2 DEF Connect, TypeOK, ThType, Locals, PC
<1>4. CASE Subscribe(t)
  BY <1>2, <1>4, NextIdType DEF Subscribe, CallNames, PacketTypes
<1>5. CASE Unsubscribe(t)
  BY <1>2, <1>5, NextIdType DEF Unsubscribe, CallNames, PacketTypes
<1>6. CASE Publish(t)
  BY <1>2, <1>6, NextIdType DEF Publish, CallNames, PacketTypes, PacketId
<1>7. CASE Disconnect(t)
  <2>1. th' \in ThType
    BY <1>1, <1>7, EnterType DEF Disconnect, CallNames
  <2>2. buf' \in OutPackets
    BY <1>1, <1>7, PacketIsOutPacket DEF Disconnect, PacketTypes
  <2> QED BY <1>7, <2>1, <2>2 DEF Disconnect, TypeOK, client, timers, net, broker, ThType, Locals, PC
<1>8. CASE Yield(t)
  <2>1. th' \in ThType
    BY <1>1, <1>8, EnterType DEF Yield, CallNames
  <2> QED BY <1>8, <2>1 DEF Yield, TypeOK, client, bufs, timers, net, broker, ThType, Locals, PC
<1> QED BY <1>3, <1>4, <1>5, <1>6, <1>7, <1>8

\* A call in progress takes a step.
LEMMA StepsType ==
  ASSUME TypeOK, NEW t \in Threads,
         \/ SendRequest(t) \/ WaitFor(t) \/ Failed(t) \/ ReadPacket(t) \/ Handle(t)
         \/ SendAck(t) \/ KeepAlive(t) \/ SendPing(t) \/ Decode(t)
  PROVE  TypeOK'
<1> USE DEF client, bufs, timers, net, broker
<1>1. /\ \A l \in PC : Goto(t, l) => th' \in ThType
      /\ {"idle", "wait", "decode", "failed", "read", "handle", "ack", "keepalive", "ping"} \subseteq PC
  BY GotoType DEF PC, InCycle
<1>2. CASE SendRequest(t)
  <2>1. th' \in ThType
    BY <1>1, <1>2 DEF SendRequest
  <2>2. outq' \in Seq(OutPackets) /\ sentExpired' \in {0, 1}
    BY <1>2, SendType DEF SendRequest
  <2> QED BY <1>2, <2>1, <2>2 DEF SendRequest, TypeOK, ThType, Locals, PC
<1>3. CASE WaitFor(t)
  <2>1. th' \in ThType
    BY <1>1, <1>3 DEF WaitFor
  <2> QED BY <1>3, <2>1 DEF WaitFor, TypeOK, ThType, Locals, PC
<1>4. CASE Failed(t)
  <2>1. th' \in ThType
    BY <1>1, <1>4 DEF Failed
  <2>2. outq' \in Seq(OutPackets) /\ inq' \in Seq(Packets) /\ link' \in {"none", "up", "lost"}
    BY <1>4, InQueueType, OutQueueType, Zenon DEF Failed, TypeOK
  <2> QED BY <1>4, <2>1, <2>2 DEF Failed, CloseSession, TypeOK, ThType, Locals, PC
<1>5. CASE ReadPacket(t)
  <2>1. inq # <<>> => Head(inq) \in Packets /\ Head(inq).type \in PacketTypes
    BY InQueueType, Zenon DEF TypeOK, Packets
  <2>2. inq' \in Seq(Packets)
    BY <1>5, InQueueType, Zenon DEF ReadPacket, TypeOK
  <2>3. readbuf' \in Packets
    <3>1. 0 \in 0 .. MAX_PACKET_ID
      BY ClientAssumption
    <3>2. inq # <<>> => Packet(Head(inq).type, 0, 0) \in Packets
      BY <2>1, <3>1, PacketIsPacket
    <3>3. \/ inq # <<>> /\ readbuf' \in {Head(inq), Packet(Head(inq).type, 0, 0)}
          \/ readbuf' = readbuf
      BY <1>5 DEF ReadPacket
    <3> QED BY <2>1, <3>2, <3>3 DEF TypeOK
  <2>4. th' \in ThType
    <3>1. CASE CycleFails(t)
      BY <3>1, CycleType
    <3>2. ASSUME NEW g \in PacketTypes \cup {"timeout"}, NEW l \in PC,
                 th' = [th EXCEPT ![t].got = g, ![t].pc = l]
          PROVE  th' \in ThType
      <4>1. th \in [Threads -> Locals]
        BY DEF TypeOK, Locals, PC
      <4>2. [th[t] EXCEPT !.got = g, !.pc = l] \in Locals
        BY <4>1, Zenon DEF Locals
      <4> QED BY <3>2, <4>1, <4>2 DEF ThType
    <3> QED BY <1>1, <1>5, <2>1, <3>1, <3>2 DEF ReadPacket
  <2>5. /\ isconnected' \in {0, 1} /\ ping_outstanding' \in {0, 1} /\ handler' \in {0, 1}
        /\ next_packetid' \in PacketId /\ recvExpired' \in {0, 1}
    BY <1>5, CycleType DEF ReadPacket, TypeOK
  <2> QED BY <1>5, <2>2, <2>3, <2>4, <2>5 DEF ReadPacket, TypeOK, ThType, Locals, PC
<1>6. CASE Handle(t)
  <2>1. th' \in ThType
    BY <1>1, <1>6, CycleType DEF Handle
  <2>2. buf' \in OutPackets
    <3>1. readbuf.id \in 0 .. MAX_PACKET_ID /\ AckOf(th[t].got, readbuf.arg) \in PacketTypes \ {"PUBLISH"}
      BY DEF TypeOK, Packets, AckOf, PacketTypes
    <3>2. Packet(AckOf(th[t].got, readbuf.arg), readbuf.id, 0) \in OutPackets
      BY <3>1, PacketIsOutPacket
    <3> QED BY <1>6, <3>2 DEF Handle, TypeOK
  <2>3. ping_outstanding' \in {0, 1}
    BY <1>6 DEF Handle, PingAfter, TypeOK
  <2> QED BY <1>6, <2>1, <2>2, <2>3 DEF Handle, TypeOK, ThType, Locals, PC
<1>7. CASE SendAck(t)
  <2>1. outq' \in Seq(OutPackets) /\ sentExpired' \in {0, 1}
    BY <1>7, SendType DEF SendAck
  <2>2. th' \in ThType /\ isconnected' \in {0, 1} /\ ping_outstanding' \in {0, 1} /\ handler' \in {0, 1}
    BY <1>1, <1>7, CycleType DEF SendAck, TypeOK
  <2> QED BY <1>7, <2>1, <2>2 DEF SendAck, TypeOK, ThType, Locals, PC
<1>8. CASE KeepAlive(t)
  <2>1. th' \in ThType /\ isconnected' \in {0, 1} /\ ping_outstanding' \in {0, 1} /\ handler' \in {0, 1}
    BY <1>1, <1>8, CycleType DEF KeepAlive, TypeOK
  <2>2. Packet("PINGREQ", 0, 0) \in OutPackets
    BY PacketIsOutPacket, ClientAssumption DEF PacketTypes
  <2>3. buf' \in OutPackets /\ next_packetid' \in PacketId
    BY <1>8, <2>2 DEF KeepAlive, TypeOK
  <2> QED BY <1>8, <2>1, <2>3 DEF KeepAlive, TypeOK, ThType, Locals, PC
<1>9. CASE SendPing(t)
  <2>1. outq' \in Seq(OutPackets) /\ sentExpired' \in {0, 1}
    BY <1>9, SendType DEF SendPing
  <2>2. th' \in ThType /\ isconnected' \in {0, 1} /\ ping_outstanding' \in {0, 1} /\ handler' \in {0, 1}
    BY <1>9, CycleType DEF SendPing, TypeOK
  <2> QED BY <1>9, <2>1, <2>2 DEF SendPing, TypeOK, ThType, Locals, PC
<1>10. CASE Decode(t)
  <2>1. th' \in ThType
    BY <1>1, <1>10 DEF Decode
  <2>2. isconnected' \in {0, 1} /\ ping_outstanding' \in {0, 1} /\ handler' \in {0, 1}
    BY <1>10 DEF Decode, TypeOK
  <2> QED BY <1>10, <2>1, <2>2 DEF Decode, TypeOK, ThType, Locals, PC
<1> QED BY <1>2, <1>3, <1>4, <1>5, <1>6, <1>7, <1>8, <1>9, <1>10

\* The broker, the network and the clock.
LEMMA BrokerType ==
  ASSUME TypeOK, Broker \/ BrokerPublish \/ LinkLost \/ Tick
  PROVE  TypeOK'
<1> USE DEF client, bufs, timers, net, broker
<1>1. outq # <<>> => Head(outq) \in OutPackets /\ Tail(outq) \in Seq(OutPackets)
  BY OutQueueType DEF TypeOK
<1>2. \A p \in Packets : Append(inq, p) \in Seq(Packets)
  BY InQueueType DEF TypeOK
<1>3. 0 \in 0 .. MAX_PACKET_ID /\ 1 \in 0 .. MAX_PACKET_ID
  BY ClientAssumption
<1>4. CASE BrokerConnect
  <2>1. Packet("CONNACK", 0, 0) \in Packets /\ Packet("CONNACK", 0, 5) \in Packets
    BY <1>3, PacketIsPacket DEF PacketTypes
  <2> QED BY <1>1, <1>2, <1>4, <2>1, Zenon DEF BrokerConnect, TypeOK
<1>5. CASE BrokerReply
  <2>1. PICK r \in Replies(Head(outq)) :
          /\ inq' = IF r = NoPacket THEN inq ELSE Append(inq, r)
          /\ subscribed' = CASE r.type = "SUBACK" -> IF r.arg # 128 THEN 1 ELSE subscribed
                             [] r.type = "UNSUBACK" -> 0
                             [] OTHER -> subscribed
    BY <1>5 DEF BrokerReply
  <2>2. Head(outq) \in OutPackets /\ Head(outq).id \in 0 .. MAX_PACKET_ID
    BY <1>1, <1>5 DEF BrokerReply, Packets, OutPackets
  <2>3. r \in Packets
    <3>1. \A type \in PacketTypes, arg \in {0, 128} : Packet(type, Head(outq).id, arg) \in Packets
      BY <2>2, PacketIsPacket
    <3>2. Packet("PINGRESP", 0, 0) \in Packets /\ NoPacket \in Packets
      BY <1>3, PacketIsPacket DEF PacketTypes, NoPacket
    <3> QED BY <3>1, <3>2 DEF Replies, PacketTypes
  <2>4. inq' \in Seq(Packets) /\ subscribed' \in {0, 1}
    BY <1>2, <2>1, <2>3 DEF TypeOK
  <2>5. received' \subseteq PacketId
    BY <1>5, <2>2 DEF BrokerReply, TypeOK, PacketId, OutPackets
  <2> QED BY <1>1, <1>5, <2>4, <2>5 DEF BrokerReply, TypeOK
<1>6. CASE BrokerReject
  BY <1>1, <1>6 DEF BrokerReject, TypeOK
<1>7. CASE BrokerPublish
  <2>1. \A q \in InQos : Packet("PUBLISH", IF q \in {1, 2} THEN 1 ELSE 0, q) \in Packets
    BY <1>3, PacketIsPacket, ClientAssumption DEF PacketTypes
  <2> QED BY <1>2, <1>7, <2>1 DEF BrokerPublish, TypeOK
<1>8. CASE LinkLost \/ Tick
  BY <1>8 DEF LinkLost, Tick, TypeOK
<1> QED BY <1>4, <1>5, <1>6, <1>7, <1>8 DEF Broker

\* The types hold in every behaviour, for any threads, calls and bounds:
\* packet ids wrap to 1 and never leave 1 .. MAX_PACKET_ID, and no PUBLISH of
\* QoS 1 or 2 is sent without one (getNextPacketId, MQTTPublish).
THEOREM TypeCorrect == Spec => []TypeOK
<1>1. TypeOK /\ [Next]_vars => TypeOK'
  <2> SUFFICES ASSUME TypeOK, [Next]_vars PROVE TypeOK'
    OBVIOUS
  <2>1. CASE UNCHANGED vars
    BY <2>1 DEF vars, client, bufs, timers, net, broker, TypeOK
  <2>2. ASSUME NEW t \in Threads, Step(t) PROVE TypeOK'
    BY <2>2, CallsType, StepsType DEF Step
  <2>3. CASE Broker \/ BrokerPublish \/ LinkLost \/ Tick
    BY <2>3, BrokerType
  <2> QED BY <2>1, <2>2, <2>3 DEF Next
<1> QED BY InitType, <1>1, PTL DEF Spec

-----------------------------------------------------------------------------
\* The session is accepted

\* No call becomes a connecting one, and none gets to the end of waitfor
\* without a CONNACK.
ThQuiet ==
  \A u \in Threads : th'[u].call = "connect" =>
    /\ th[u].call = "connect" /\ th'[u].got = th[u].got
    /\ th'[u].pc = "decode" => th[u].got = "CONNACK"

\* What most steps are to AcceptInv: they accept nothing, open no session and
\* no connection, leave readbuf and the packets to the client alone or drop
\* them unless the session is accepted.
Quiet ==
  /\ accepted' = accepted /\ isconnected' \in {0, isconnected}
  /\ link # "up" => link' # "up"
  /\ accepted = 1 \/ (readbuf' = readbuf /\ inq' \in {inq, <<>>})
  /\ ThQuiet

\* A quiet step preserves AcceptInv.
LEMMA QuietAccept == AcceptInv /\ Quiet => AcceptInv'
<1> SUFFICES ASSUME AcceptInv, Quiet PROVE AcceptInv'
  OBVIOUS
<1>1. isconnected' = 1 => accepted' = 1
  BY DEF AcceptInv, Quiet
<1>2. accepted' = 0 => inq' = <<>> \/ (inq' = <<Packet("CONNACK", 0, 5)>> /\ link' # "up")
  BY DEF AcceptInv, Quiet
<1>3. ASSUME NEW t \in Threads, th'[t].call = "connect"
      PROVE  /\ "connect" \in Calls[t]
             /\ th'[t].pc = "decode" => th'[t].got = "CONNACK"
             /\ accepted' = 0 /\ th'[t].got = "CONNACK" => inq' = <<>> /\ link' # "up" /\ ~ ConnackAccepted'
  <2>1. th[t].call = "connect" /\ th'[t].got = th[t].got /\ (th'[t].pc = "decode" => th[t].got = "CONNACK")
    BY <1>3 DEF Quiet, ThQuiet
  <2>2. /\ "connect" \in Calls[t]
        /\ accepted = 0 /\ th[t].got = "CONNACK" => inq = <<>> /\ link # "up" /\ ~ ConnackAccepted
    BY <2>1 DEF AcceptInv
  <2>3. accepted' = 0 => readbuf' = readbuf /\ inq' \in {inq, <<>>} /\ (link # "up" => link' # "up") /\ accepted = 0
    BY DEF Quiet
  <2> QED BY <2>1, <2>2, <2>3 DEF ConnackAccepted
<1> QED BY <1>1, <1>2, <1>3 DEF AcceptInv

\* Moving within a call is quiet for the threads if it does not lead a
\* connecting call to the end of waitfor without a CONNACK.
LEMMA GotoQuiet ==
  ASSUME TypeOK, AcceptInv, NEW t \in Threads, NEW l \in PC, Goto(t, l),
         l = "decode" /\ th[t].call = "connect" => th[t].got = "CONNACK"
  PROVE  ThQuiet
<1>1. th \in [Threads -> Locals]
  BY DEF TypeOK, Locals, PC
<1>2. \A u \in Threads : th'[u] = IF u # t THEN th[u] ELSE IF l = "idle" THEN Idle ELSE [th[u] EXCEPT !.pc = l]
  BY <1>1 DEF Goto
<1>3. ASSUME NEW u \in Threads, u # t, th'[u].call = "connect"
      PROVE  th[u].call = "connect" /\ th'[u].got = th[u].got /\ (th'[u].pc = "decode" => th[u].got = "CONNACK")
  BY <1>2, <1>3, Zenon DEF AcceptInv
<1>4. ASSUME th'[t].call = "connect"
      PROVE  th[t].call = "connect" /\ th'[t].got = th[t].got /\ (th'[t].pc = "decode" => th[t].got = "CONNACK")
  <2>1. th'[t] = [th[t] EXCEPT !.pc = l]
    BY <1>2, <1>4 DEF Idle
  <2> QED BY <1>1, <1>4, <2>1 DEF Locals
<1> QED BY <1>3, <1>4 DEF ThQuiet

\* So is entering any other call.
LEMMA EnterQuiet ==
  ASSUME TypeOK, AcceptInv, NEW t \in Threads, NEW c, c # "connect", NEW l, NEW id, NEW q, Enter(t, c, l, id, q)
  PROVE  ThQuiet
<1>1. th \in [Threads -> Locals]
  BY DEF TypeOK, Locals, PC
<1>2. th'[t].call = c /\ \A u \in Threads : u # t => th'[u] = th[u]
  BY <1>1 DEF Enter, Idle
<1> QED BY <1>2 DEF AcceptInv, ThQuiet

\* The ways a cycle ends are quiet, and open no session.
LEMMA CycleQuiet ==
  ASSUME TypeOK, AcceptInv, NEW t \in Threads
  PROVE  /\ CycleReturns(t, th[t].got) => ThQuiet
         /\ CycleFails(t) => ThQuiet /\ isconnected' \in {0, isconnected}
<1>1. {"read", "idle", "decode", "wait", "failed"} \subseteq PC
  BY DEF PC, InCycle
<1>2. \A l \in PC \ {"decode"} : Goto(t, l) => ThQuiet
  BY GotoQuiet
<1>3. ASSUME CycleReturns(t, th[t].got) PROVE ThQuiet
  <2>1. CASE th[t].call = "connect" /\ th[t].got = "CONNACK"
    <3>1. Goto(t, "decode") \/ Goto(t, "wait")
      BY <1>3, <2>1 DEF CycleReturns
    <3> QED BY <1>1, <1>2, <2>1, <3>1, GotoQuiet
  <2>2. CASE th[t].call = "connect" /\ th[t].got # "CONNACK"
    <3>1. Goto(t, "wait")
      BY <1>3, <2>2 DEF CycleReturns, Awaited
    <3> QED BY <1>1, <1>2, <3>1
  <2>3. CASE th[t].call # "connect"
    <3>1. Goto(t, "decode") \/ Goto(t, "wait") \/ Goto(t, "read") \/ Goto(t, "idle")
      BY <1>3 DEF CycleReturns
    <3> QED BY <1>1, <1>2, <2>3, <3>1, GotoQuiet
  <2> QED BY <2>1, <2>2, <2>3
<1>4. ASSUME CycleFails(t) PROVE ThQuiet /\ isconnected' \in {0, isconnected}
  BY <1>1, <1>2, <1>4 DEF CycleFails, CloseSession
<1> QED BY <1>3, <1>4

\* Every step of a thread is quiet but Connect, ReadPacket and Decode.
LEMMA StepsQuiet ==
  ASSUME TypeOK, AcceptInv, NEW t \in Threads,
         \/ Subscribe(t) \/ Unsubscribe(t) \/ Publish(t) \/ Disconnect(t) \/ Yield(t)
         \/ SendRequest(t) \/ WaitFor(t) \/ Failed(t) \/ Handle(t) \/ SendAck(t)
         \/ KeepAlive(t) \/ SendPing(t)
  PROVE  Quiet
<1> USE DEF client, bufs, timers, net, broker
<1>1. /\ \A l \in PC \ {"decode"} : Goto(t, l) => ThQuiet
      /\ {"idle", "wait", "failed", "read", "handle", "ack", "keepalive", "ping"} \subseteq PC \ {"decode"}
  BY GotoQuiet DEF PC, InCycle
<1>2. ASSUME NEW c, c # "connect", NEW type, NEW id, NEW q, Request(t, c, type, id, q)
      PROVE  Quiet
  <2>1. Enter(t, c, "failed", 0, 0) \/ Enter(t, c, "send", id, q)
    BY <1>2 DEF Request
  <2>2. ThQuiet
    BY <1>2, <2>1, EnterQuiet
  <2> QED BY <1>2, <2>2 DEF Request, Quiet
<1>3. CASE Subscribe(t) \/ Unsubscribe(t)
  BY <1>2, <1>3 DEF Subscribe, Unsubscribe
<1>4. CASE Publish(t)
  BY <1>2, <1>4 DEF Publish
<1>5. CASE Disconnect(t)
  BY <1>5, EnterQuiet DEF Disconnect, Quiet
<1>6. CASE Yield(t)
  BY <1>6, EnterQuiet DEF Yield, Quiet
<1>7. CASE SendRequest(t)
  BY <1>1, <1>7 DEF SendRequest, Quiet
<1>8. CASE WaitFor(t)
  BY <1>1, <1>8 DEF WaitFor, Quiet
<1>9. CASE Failed(t)
  BY <1>1, <1>9 DEF Failed, CloseSession, Quiet
<1>10. CASE Handle(t)
  <2>1. ThQuiet
    BY <1>1, <1>10, CycleQuiet DEF Handle
  <2> QED BY <1>10, <2>1 DEF Handle, Quiet
<1>11. CASE SendAck(t)
  <2>1. ThQuiet /\ isconnected' \in {0, isconnected}
    BY <1>1, <1>11, CycleQuiet DEF SendAck
  <2> QED BY <1>11, <2>1 DEF SendAck, Quiet
<1>12. CASE KeepAlive(t)
  <2>1. ThQuiet /\ isconnected' \in {0, isconnected}
    BY <1>1, <1>12, CycleQuiet DEF KeepAlive
  <2> QED BY <1>12, <2>1 DEF KeepAlive, Quiet
<1>13. CASE SendPing(t)
  <2>1. ThQuiet /\ isconnected' \in {0, isconnected}
    BY <1>13, CycleQuiet DEF SendPing
  <2> QED BY <1>13, <2>1 DEF SendPing, Quiet
<1> QED BY <1>3, <1>4, <1>5, <1>6, <1>7, <1>8, <1>9, <1>10, <1>11, <1>12, <1>13

\* So are the steps of the broker, the network and the clock but
\* BrokerConnect: without an accepted session the broker sends nothing.
LEMMA BrokerQuiet ==
  ASSUME TypeOK, AcceptInv, BrokerReply \/ BrokerReject \/ BrokerPublish \/ LinkLost \/ Tick \/ UNCHANGED vars
  PROVE  Quiet
<1> USE DEF client, bufs, timers, net, broker
<1>1. th' = th /\ isconnected' = isconnected /\ accepted' = accepted /\ readbuf' = readbuf
  BY DEF BrokerReply, BrokerReject, BrokerPublish, LinkLost, Tick, vars
<1>2. ThQuiet
  BY <1>1 DEF ThQuiet, AcceptInv
<1>3. (link # "up" => link' # "up") /\ (accepted = 1 \/ inq' = inq)
  BY DEF BrokerReply, BrokerReject, BrokerPublish, LinkLost, Tick, vars
<1> QED BY <1>1, <1>2, <1>3 DEF Quiet

\* MQTTConnect begins: no other call of it is under way.
LEMMA ConnectAccept ==
  ASSUME OneConnector, TypeOK, AcceptInv, NEW t \in Threads, Connect(t)
  PROVE  AcceptInv'
<1>1. th \in [Threads -> Locals]
  BY DEF TypeOK, Locals, PC
<1>2. /\ th'[t].pc = "send" /\ th'[t].got = "timeout"
      /\ \A u \in Threads : u # t => th'[u] = th[u]
  BY <1>1 DEF Connect, Enter, Idle
<1>3. ASSUME NEW u \in Threads, th'[u].call = "connect" PROVE u = t
  <2>1. CASE u # t
    <3>1. "connect" \in Calls[u]
      BY <1>2, <1>3, <2>1 DEF AcceptInv
    <3> QED BY <3>1 DEF OneConnector, Connect
  <2> QED BY <2>1
<1>4. "connect" \in Calls[t] /\ isconnected' = 0 /\ inq' = <<>>
  BY DEF Connect
<1> QED BY <1>2, <1>3, <1>4 DEF AcceptInv

\* The broker answers a CONNECT: nothing is on its way to the client yet, and
\* no call has read a CONNACK.
LEMMA BrokerConnectAccept ==
  ASSUME TypeOK, AcceptInv, BrokerConnect
  PROVE  AcceptInv'
<1> USE DEF client, bufs, timers
<1>1. inq = <<>> /\ isconnected = 0 /\ \A u \in Threads : th[u].call = "connect" => th[u].got # "CONNACK"
  BY DEF AcceptInv, BrokerConnect, TypeOK
<1>2. th' = th /\ isconnected' = 0
  BY <1>1 DEF BrokerConnect
<1>3. accepted' = 0 => inq' = <<Packet("CONNACK", 0, 5)>> /\ link' = "lost"
  BY <1>1 DEF BrokerConnect
<1> QED BY <1>1, <1>2, <1>3 DEF AcceptInv

\* cycle reads a packet.  On a connection that is not accepted that is the
\* refusal, whole or cut short.
LEMMA ReadAccept ==
  ASSUME TypeOK, AcceptInv, NEW t \in Threads, ReadPacket(t)
  PROVE  AcceptInv'
<1> USE DEF client, broker
<1>1. th \in [Threads -> Locals]
  BY DEF TypeOK, Locals, PC
<1>2. accepted' = accepted /\ link' = link /\ accepted \in {0, 1}
  BY DEF ReadPacket, TypeOK
<1>3. ASSUME NEW g \in PacketTypes \cup {"timeout"}, NEW l \in {"handle", "keepalive"},
             th' = [th EXCEPT ![t].got = g, ![t].pc = l]
      PROVE  /\ th'[t].pc = l /\ th'[t].got = g /\ th'[t].call = th[t].call
             /\ \A u \in Threads : u # t => th'[u] = th[u]
  BY <1>1, <1>3 DEF Locals
<1>4. inq # <<>> /\ accepted = 0 =>
        /\ Head(inq) = Packet("CONNACK", 0, 5) /\ Tail(inq) = <<>> /\ link # "up"
        /\ \A u \in Threads : th[u].call = "connect" => th[u].got # "CONNACK"
  <2> DEFINE refusal == Packet("CONNACK", 0, 5)
  <2>1. Head(<<refusal>>) = refusal /\ Tail(<<refusal>>) = <<>>
    <3> HIDE DEF refusal
    <3> QED OBVIOUS
  <2>2. inq # <<>> /\ accepted = 0 => inq = <<refusal>> /\ link # "up"
    BY DEF AcceptInv
  <2>3. inq # <<>> /\ accepted = 0 => \A u \in Threads : th[u].call = "connect" => th[u].got # "CONNACK"
    BY DEF AcceptInv
  <2> HIDE DEF refusal
  <2>4. inq # <<>> /\ accepted = 0 => Head(inq) = refusal /\ Tail(inq) = <<>>
    BY <2>1, <2>2, Zenon
  <2> QED BY <2>2, <2>3, <2>4 DEF refusal
<1>5. CASE /\ inq # <<>> /\ Head(inq).arg # Oversize
           /\ readbuf' = Head(inq) /\ inq' = Tail(inq)
           /\ th' = [th EXCEPT ![t].got = Head(inq).type, ![t].pc = "handle"]
           /\ UNCHANGED isconnected
  <2>1. Head(inq).type \in PacketTypes
    BY <1>5, InQueueType, Zenon DEF TypeOK, Packets
  <2>2. /\ th'[t].pc = "handle" /\ th'[t].call = th[t].call
        /\ \A u \in Threads : u # t => th'[u] = th[u]
    BY <1>3, <1>5, <2>1, Zenon
  <2>3. accepted = 0 => inq' = <<>> /\ link' # "up" /\ ~ ConnackAccepted'
    BY <1>2, <1>4, <1>5 DEF ConnackAccepted, Packet
  <2> QED BY <1>2, <1>5, <2>2, <2>3, Zenon DEF AcceptInv
<1>6. CASE /\ inq # <<>> /\ inq' = <<>>
           /\ th' = [th EXCEPT ![t].got = "timeout", ![t].pc = "keepalive"]
           /\ UNCHANGED isconnected
  <2>1. /\ th'[t].pc = "keepalive" /\ th'[t].got = "timeout" /\ th'[t].call = th[t].call
        /\ \A u \in Threads : u # t => th'[u] = th[u]
    BY <1>3, <1>6, Zenon
  <2>2. ASSUME NEW u \in Threads, th'[u].call = "connect"
        PROVE  /\ "connect" \in Calls[u]
               /\ th'[u].pc = "decode" => th'[u].got = "CONNACK"
               /\ accepted = 0 => th'[u].got # "CONNACK"
    <3>1. th[u].call = "connect" /\ (u # t => th'[u] = th[u])
      BY <2>1, <2>2
    <3> QED BY <1>4, <1>6, <2>1, <3>1, Zenon DEF AcceptInv
  <2>3. isconnected' = 1 => accepted' = 1
    BY <1>2, <1>6 DEF AcceptInv
  <2> QED BY <1>2, <1>6, <2>2, <2>3, Zenon DEF AcceptInv
<1>7. CASE /\ IF inq = <<>> THEN UNCHANGED inq ELSE Head(inq).arg = Oversize
           /\ CycleFails(t) /\ UNCHANGED readbuf
  <2>1. ThQuiet /\ isconnected' \in {0, isconnected}
    BY <1>7, CycleQuiet
  <2>2. accepted = 1 \/ inq' = inq
    BY <1>2, <1>4, <1>7 DEF Packet, Oversize
  <2> QED BY <1>2, <1>7, <2>1, <2>2, QuietAccept DEF Quiet
<1> QED BY <1>5, <1>6, <1>7 DEF ReadPacket

\* A call returns from waitfor.  MQTTConnect opens the session if readbuf has
\* a CONNACK with code 0; then the broker has accepted, for otherwise the
\* CONNACK it got would be the refusal.
LEMMA DecodeAccept ==
  ASSUME TypeOK, AcceptInv, NEW t \in Threads, Decode(t)
  PROVE  AcceptInv'
<1> USE DEF bufs, net, broker
<1>1. ThQuiet
  <2>1. {"idle", "failed"} \subseteq PC \ {"decode"} /\ \A l \in PC \ {"decode"} : Goto(t, l) => ThQuiet
    BY GotoQuiet DEF PC, InCycle
  <2> QED BY <2>1 DEF Decode
<1>2. accepted' = accepted /\ link' = link /\ inq' = inq /\ readbuf' = readbuf
  BY DEF Decode
<1>3. CASE isconnected' = isconnected
  BY <1>1, <1>2, <1>3, QuietAccept DEF Quiet
<1>4. CASE isconnected' # isconnected
  <2>1. th[t].call = "connect" /\ th[t].pc = "decode" /\ ConnackAccepted /\ isconnected' = 1
    BY <1>4 DEF Decode
  <2>2. accepted = 1
    BY <2>1 DEF AcceptInv, TypeOK
  <2>3. \A u \in Threads : th'[u].call = "connect" =>
          "connect" \in Calls[u] /\ (th'[u].pc = "decode" => th'[u].got = "CONNACK")
    BY <1>1 DEF AcceptInv, ThQuiet
  <2> QED BY <1>2, <2>2, <2>3 DEF AcceptInv
<1> QED BY <1>3, <1>4

\* Whatever the threads do meanwhile, MQTTConnect opens no session that the
\* broker has not accepted, provided only one thread connects.  mqtt_pub_task
\* is the only one that calls MQTTConnect.
THEOREM SessionAccepted ==
  ASSUME OneConnector
  PROVE  Spec => []ConnectedMeansAccepted
<1>1. Init => AcceptInv
  <2>1. Idle.call # "connect"
    BY DEF Idle
  <2>2. Init => \A t \in Threads : th[t] = Idle
    BY Zenon DEF Init
  <2>3. Init => isconnected = 0 /\ inq = <<>>
    BY DEF Init
  <2> QED BY <2>1, <2>2, <2>3 DEF AcceptInv
<1>2. TypeOK /\ AcceptInv /\ [Next]_vars => AcceptInv'
  <2> SUFFICES ASSUME TypeOK, AcceptInv, [Next]_vars PROVE AcceptInv'
    OBVIOUS
  <2>1. ASSUME NEW t \in Threads, Step(t) PROVE AcceptInv'
    <3>1. CASE Connect(t)
      BY <3>1, ConnectAccept
    <3>2. CASE ReadPacket(t)
      BY <3>2, ReadAccept
    <3>3. CASE Decode(t)
      BY <3>3, DecodeAccept
    <3>4. CASE ~ (Connect(t) \/ ReadPacket(t) \/ Decode(t))
      BY <2>1, <3>4, StepsQuiet, QuietAccept DEF Step
    <3> QED BY <3>1, <3>2, <3>3, <3>4
  <2>2. CASE BrokerConnect
    BY <2>2, BrokerConnectAccept
  <2>3. CASE BrokerReply \/ BrokerReject \/ BrokerPublish \/ LinkLost \/ Tick \/ UNCHANGED vars
    BY <2>3, BrokerQuiet, QuietAccept
  <2> QED BY <2>1, <2>2, <2>3 DEF Next, Broker
<1>3. AcceptInv => ConnectedMeansAccepted
  BY DEF AcceptInv, ConnectedMeansAccepted
<1> QED BY <1>1, <1>2, <1>3, TypeCorrect, PTL DEF Spec

-----------------------------------------------------------------------------
(***************************************************************************)
(* Theorems about MqttClient with one thread in the library, the use       *)
(* MQTTClient.h describes: a call that waits gets the acknowledgement of   *)
(* its own request.  For every set of calls, QoS, number of packet ids and *)
(* length of the queues.                                                   *)
(*                                                                         *)
(* The argument is one of a single token.  A call that waits has one       *)
(* request under way, and at any time it is either on its way to the       *)
(* broker, or its answer is on its way back, or the call has the answer in *)
(* its hands.  A call that ends in success has consumed the answer, and    *)
(* one that fails gives up the connection, so none is left for the next.   *)
(***************************************************************************)

\* The thread and its locals.
App == CHOOSE t \in Threads : TRUE
Solo == Threads = {App}
Me == th[App]

\* Where a call waits for an acknowledgement or looks at it.
Waiting == {"wait", "decode"} \cup InCycle

\* The packets that ask the broker for an acknowledgement, and those it
\* answers with.
Requests == {p \in Packets : \/ p.type \in {"CONNECT", "SUBSCRIBE", "UNSUBSCRIBE", "PUBREL"}
                             \/ p.type = "PUBLISH" /\ p.arg # 0}
Answers == {p \in Packets : p.type \in {"CONNACK", "SUBACK", "UNSUBACK", "PUBACK", "PUBREC", "PUBCOMP"}}

\* Those of the call in progress.  A PUBREL or the answer to a publication
\* means that the broker has the publication.
Asks == {p \in Requests :
           /\ p.id = CallId(App)
           /\ \/ Me.call = "connect" /\ p.type = "CONNECT"
              \/ Me.call = "subscribe" /\ p.type = "SUBSCRIBE"
              \/ Me.call = "unsubscribe" /\ p.type = "UNSUBSCRIBE"
              \/ Me.call = "publish" /\ p.type = "PUBLISH" /\ p.arg = Me.qos
              \/ Me.call = "publish" /\ Me.qos = 2 /\ p.type = "PUBREL" /\ p.id \in received}
Mine == {p \in Answers :
           /\ p.id = CallId(App)
           /\ p.type = Awaited(App) \/ (p.type = "PUBREC" /\ Me.call = "publish" /\ Me.qos = 2)
           /\ Me.call = "publish" => p.id \in received}

\* No packet of q is in T; just one is, and that is in U.
None(q, T) == \A i \in DOMAIN q : q[i] \notin T
One(q, T, U) == \E i \in DOMAIN q : q[i] \in U /\ \A j \in DOMAIN q : q[j] \in T => j = i

\* The call has read its answer, or a PUBREC that it goes on from.
InHand ==
  \/ /\ Me.pc \in {"handle", "keepalive", "ping", "decode"} /\ Me.got = Awaited(App)
     /\ readbuf \in Mine /\ readbuf.type = Me.got
  \/ Me.pc = "handle" /\ Me.got = "PUBREC" /\ readbuf \in Mine
  \/ Me.pc = "ack" /\ Me.got = "PUBREC" /\ buf \in Asks /\ buf.type = "PUBREL"

\* It has not.
EmptyHand ==
  /\ Me.pc # "decode"
  /\ Me.pc \in {"handle", "ack", "keepalive", "ping"} => Me.got # Awaited(App)
  /\ Me.pc = "handle" => Me.got # "PUBREC"
  /\ Me.pc = "ack" => buf \notin Requests

AskSent == One(outq, Requests, Asks) /\ None(inq, Answers) /\ EmptyHand
AnswerSent == None(outq, Requests) /\ One(inq, Answers, Mine) /\ EmptyHand
AnswerRead == None(outq, Requests) /\ None(inq, Answers) /\ InHand
Nothing == None(outq, Requests) /\ None(inq, Answers) /\ EmptyHand

\* A waiting call has its one request or answer under way, unless it is gone
\* with the connection; otherwise there is none.
TokenInv ==
  /\ Me.pc \in Waiting /\ Me.call # "yield" => AskSent \/ AnswerSent \/ AnswerRead \/ (link # "up" /\ Nothing)
  /\ Me.pc \in {"idle", "send"} \/ Me.call \in {"yield", "disconnect"} => Nothing

\* What a place in a call says of the buffers and of the session.
ShapeInv ==
  /\ Me.pc = "idle" => Me = Idle
  /\ Me.pc # "idle" => Me.call \in CallNames
  /\ Me.pc \in Waiting /\ Me.call # "yield" => Awaited(App) # "nothing"
  /\ Me.call = "yield" => Me.pc \in InCycle
  /\ Me.pc = "handle" => readbuf.type = Me.got
  /\ Me.pc = "ping" => buf = Packet("PINGREQ", 0, 0)
  /\ Me.pc = "ack" => buf.type \in {"PUBACK", "PUBREC", "PUBREL", "PUBCOMP"}
  /\ Me.pc = "send" /\ Me.call = "disconnect" => buf = Packet("DISCONNECT", 0, 0)
  /\ Me.pc = "send" /\ Me.call # "disconnect" =>
        IF Awaited(App) = "nothing" THEN buf.type = "PUBLISH" /\ buf.arg = 0 ELSE buf \in Asks /\ buf.type # "PUBREL"
  /\ Me.call = "connect" => isconnected = 0
  /\ Me.pc \in Waiting \cup {"send"} /\ Me.call \notin {"connect", "disconnect"} => isconnected = 1

-----------------------------------------------------------------------------
\* The locals of the thread

\* The call is the same.
SameCall == Me'.call = Me.call /\ Me'.id = Me.id /\ Me'.qos = Me.qos

\* The locals of the one thread are typed.
LEMMA MeType ==
  ASSUME Solo, TypeOK
  PROVE  App \in Threads /\ th \in [Threads -> Locals] /\ Me \in Locals
<1>1. App \in Threads
  BY DEF Solo
<1>2. th \in [Threads -> Locals]
  BY DEF TypeOK, Locals, PC
<1> QED
  BY <1>1, <1>2 DEF Me

\* What a step to l does to the thread's locals: only its place changes, or the call is over.
LEMMA GotoMe ==
  ASSUME Solo, TypeOK, NEW l, Goto(App, l)
  PROVE  /\ l = "idle" => Me' = Idle
         /\ l # "idle" => Me'.pc = l /\ Me'.got = Me.got /\ SameCall
<1>1. App \in Threads /\ th \in [Threads -> Locals] /\ Me \in Locals
  BY MeType
<1>2. Me' = IF l = "idle" THEN Idle ELSE [Me EXCEPT !.pc = l]
  BY <1>1 DEF Goto, Me
<1> QED
  BY <1>1, <1>2 DEF Locals, SameCall

\* What the entry of a call does to them.
LEMMA EnterMe ==
  ASSUME Solo, TypeOK, NEW c, NEW l, NEW id, NEW q, Enter(App, c, l, id, q)
  PROVE  Me'.pc = l /\ Me'.call = c /\ Me'.id = id /\ Me'.qos = q /\ Me'.got = "timeout"
<1>1. App \in Threads /\ th \in [Threads -> Locals]
  BY MeType
<1>2. Me' = [Idle EXCEPT !.pc = l, !.call = c, !.id = id, !.qos = q]
  BY <1>1 DEF Enter, Me
<1> QED
  BY <1>2 DEF Idle

\* What the call waits for depends on the call only.
LEMMA SameAwaited ==
  ASSUME SameCall
  PROVE  Awaited(App)' = Awaited(App) /\ CallId(App)' = CallId(App)
BY DEF SameCall, Awaited, CallId, Me

\* Its packets stay its packets while the broker gets more publications.
LEMMA SamePackets ==
  ASSUME SameCall, received \subseteq received'
  PROVE  Asks \subseteq Asks' /\ Mine \subseteq Mine'
<1>1. Awaited(App)' = Awaited(App) /\ CallId(App)' = CallId(App)
  BY SameAwaited
<1>2. Asks \subseteq Asks'
  BY <1>1 DEF SameCall, Asks
<1>3. Mine \subseteq Mine'
  BY <1>1 DEF SameCall, Mine
<1> QED
  BY <1>2, <1>3

\* What is awaited is an answer that is not acknowledged, or nothing.
LEMMA AwaitedIs ==
  Awaited(App) \in {"CONNACK", "SUBACK", "UNSUBACK", "PUBACK", "PUBCOMP", "nothing"}
BY DEF Awaited

-----------------------------------------------------------------------------
\* The packets in the queues

\* The stream to the broker is a sequence of packets.
LEMMA OutqIsQueue == TypeOK => outq \in Seq(Packets)
<1>1. OutPackets \subseteq Packets
  BY DEF OutPackets
<1> QED
  BY <1>1 DEF TypeOK

\* None and One of a queue a packet is appended to.
LEMMA WhenAppended ==
  ASSUME NEW q \in Seq(Packets), NEW p \in Packets, NEW T, NEW U \in SUBSET T
  PROVE  /\ None(q, T) /\ p \notin T => None(Append(q, p), T)
         /\ None(q, T) /\ p \in U => One(Append(q, p), T, U)
         /\ One(q, T, U) /\ p \notin T => One(Append(q, p), T, U)
<1> DEFINE r == Append(q, p)
<1>1. Len(q) \in Nat /\ DOMAIN q = 1 .. Len(q) /\ DOMAIN r = 1 .. Len(q) + 1
  OBVIOUS
<1>2. r[Len(q) + 1] = p /\ \A i \in 1 .. Len(q) : r[i] = q[i]
  OBVIOUS
<1> HIDE DEF r
<1>3. None(q, T) /\ p \notin T => None(r, T)
  BY <1>1, <1>2 DEF None
<1>4. ASSUME None(q, T), p \in U PROVE One(r, T, U)
  <2>1. Len(q) + 1 \in DOMAIN r /\ r[Len(q) + 1] \in U
    BY <1>1, <1>2, <1>4
  <2>2. \A j \in DOMAIN r : r[j] \in T => j = Len(q) + 1
    BY <1>1, <1>2, <1>4 DEF None
  <2> QED
    BY <2>1, <2>2 DEF One
<1>5. ASSUME One(q, T, U), p \notin T PROVE One(r, T, U)
  <2>1. PICK i \in DOMAIN q : q[i] \in U /\ \A j \in DOMAIN q : q[j] \in T => j = i
    BY <1>5 DEF One
  <2>2. i \in DOMAIN r /\ r[i] \in U
    BY <1>1, <1>2, <2>1
  <2>3. \A j \in DOMAIN r : r[j] \in T => j = i
    BY <1>1, <1>2, <1>5, <2>1
  <2> QED
    BY <2>2, <2>3 DEF One
<1> QED
  BY <1>3, <1>4, <1>5 DEF r

\* None and One of a queue whose head is taken.
LEMMA WhenTaken ==
  ASSUME NEW q \in Seq(Packets), q # <<>>, NEW T, NEW U \in SUBSET T
  PROVE  /\ None(q, T) => None(Tail(q), T) /\ Head(q) \notin T
         /\ One(q, T, U) /\ Head(q) \notin T => One(Tail(q), T, U)
         /\ One(q, T, U) /\ Head(q) \in T => None(Tail(q), T) /\ Head(q) \in U
<1> DEFINE r == Tail(q)
           h == Head(q)
<1>1. Len(q) \in Nat \ {0} /\ DOMAIN q = 1 .. Len(q) /\ DOMAIN r = 1 .. Len(q) - 1
  OBVIOUS
<1>2. h = q[1] /\ \A i \in 1 .. Len(q) - 1 : r[i] = q[i + 1]
  OBVIOUS
<1> HIDE DEF r, h
<1>3. None(q, T) => None(r, T) /\ h \notin T
  <2> SUFFICES ASSUME None(q, T) PROVE None(r, T) /\ h \notin T
    OBVIOUS
  <2>1. 1 \in DOMAIN q /\ \A i \in DOMAIN r : i + 1 \in DOMAIN q /\ r[i] = q[i + 1]
    BY <1>1, <1>2
  <2> QED
    BY <1>2, <2>1 DEF None
<1>4. ASSUME One(q, T, U), h \notin T PROVE One(r, T, U)
  <2>1. PICK i \in DOMAIN q : q[i] \in U /\ \A j \in DOMAIN q : q[j] \in T => j = i
    BY <1>4 DEF One
  <2>2. i # 1
    BY <1>2, <1>4, <2>1
  <2> DEFINE k == i - 1
  <2>3. k \in DOMAIN r /\ k + 1 = i
    BY <1>1, <2>2
  <2> HIDE DEF k
  <2>4. r[k] \in U
    BY <1>1, <1>2, <2>1, <2>3
  <2>5. ASSUME NEW j \in DOMAIN r, r[j] \in T PROVE j = k
    <3>1. j + 1 \in DOMAIN q /\ q[j + 1] \in T
      BY <1>1, <1>2, <2>5
    <3>2. j + 1 = i
      BY <2>1, <3>1
    <3> QED
      BY <1>1, <2>3, <3>2
  <2> QED
    BY <2>3, <2>4, <2>5 DEF One
<1>5. ASSUME One(q, T, U), h \in T PROVE None(r, T) /\ h \in U
  <2>1. PICK i \in DOMAIN q : q[i] \in U /\ \A j \in DOMAIN q : q[j] \in T => j = i
    BY <1>5 DEF One
  <2>2. i = 1
    BY <1>1, <1>2, <1>5, <2>1
  <2>3. ASSUME NEW j \in DOMAIN r, r[j] \in T PROVE FALSE
    <3>1. j + 1 \in DOMAIN q /\ q[j + 1] \in T /\ j + 1 # 1
      BY <1>1, <1>2, <2>3
    <3> QED
      BY <2>1, <2>2, <3>1
  <2> QED
    BY <1>2, <2>1, <2>2, <2>3 DEF None
<1> QED
  BY <1>3, <1>4, <1>5 DEF r, h

\* Nothing is in an empty stream.
LEMMA WhenEmpty == \A T : None(<<>>, T)
BY DEF None

\* A greater set of one's own packets.
LEMMA WhenMore ==
  ASSUME NEW q, NEW T, NEW U, NEW V, U \subseteq V, One(q, T, U)
  PROVE  One(q, T, V)
BY DEF One

-----------------------------------------------------------------------------
\* Places and buffers

\* The ways a cycle ends.
LEMMA CycleFailsMe ==
  ASSUME Solo, TypeOK, CycleFails(App)
  PROVE  /\ isconnected' = 0 /\ (isconnected = 1 => handler' = 0 /\ ping_outstanding' = 0)
         /\ Me.call = "yield" => Me' = Idle
         /\ Me.call # "yield" => Me'.pc = "failed" /\ SameCall
<1>1. isconnected' = 0 /\ (isconnected = 1 => handler' = 0 /\ ping_outstanding' = 0)
  BY DEF CycleFails, CloseSession, TypeOK
<1>2. CASE Me.call = "yield"
  <2>1. Goto(App, "idle")
    BY <1>2 DEF CycleFails, Me
  <2> QED
    BY <1>1, <1>2, <2>1, GotoMe
<1>3. CASE Me.call # "yield"
  <2>1. Goto(App, "failed")
    BY <1>3 DEF CycleFails, Me
  <2> QED
    BY <1>1, <1>3, <2>1, GotoMe
<1> QED
  BY <1>2, <1>3

\* Where cycle returns to: MQTTYield, or the waitfor that called it.
LEMMA CycleReturnsMe ==
  ASSUME Solo, TypeOK, NEW type, CycleReturns(App, type)
  PROVE  /\ Me.call = "yield" => Me' = Idle \/ (Me'.pc = "read" /\ SameCall)
         /\ Me.call # "yield" => Me'.pc = (IF type = Awaited(App) THEN "decode" ELSE "wait") /\ Me'.got = Me.got /\ SameCall
<1>1. CASE Me.call = "yield"
  <2>1. Goto(App, "idle") \/ Goto(App, "read")
    BY <1>1 DEF CycleReturns, Me
  <2> QED
    BY <1>1, <2>1, GotoMe
<1>2. CASE Me.call # "yield"
  <2>1. Goto(App, IF type = Awaited(App) THEN "decode" ELSE "wait")
    BY <1>2 DEF CycleReturns, Me
  <2> QED
    BY <1>2, <2>1, GotoMe
<1> QED
  BY <1>1, <1>2

\* The call returns, fails or goes on.
LEMMA ShapeIdle == Me' = Idle => ShapeInv'
BY DEF ShapeInv, Idle, Waiting, InCycle

\* The failure exit has the shape of its call.
LEMMA ShapeFailed ==
  ASSUME ShapeInv, Me'.pc = "failed", SameCall, Me.pc # "idle", Me.call # "yield", isconnected' \in {0, isconnected}
  PROVE  ShapeInv'
BY DEF ShapeInv, SameCall, Waiting, InCycle

\* A step inside the wait of a call keeps the shape when the packet buffers fit the next place.
LEMMA ShapeGoesOn ==
  ASSUME ShapeInv, Me'.pc \in Waiting, SameCall, Me.pc \in Waiting, isconnected' = isconnected,
         Me.call = "yield" => Me'.pc \in InCycle,
         Me'.pc = "handle" => readbuf'.type = Me'.got,
         Me'.pc = "ping" => buf' = Packet("PINGREQ", 0, 0),
         Me'.pc = "ack" => buf'.type \in {"PUBACK", "PUBREC", "PUBREL", "PUBCOMP"}
  PROVE  ShapeInv'
<1>1. Awaited(App)' = Awaited(App)
  BY SameAwaited
<1>2. Me.pc # "idle" /\ Me'.pc \notin {"idle", "send"}
  BY DEF Waiting, InCycle
<1> QED
  BY <1>1, <1>2 DEF ShapeInv, SameCall

\* A call begins.
LEMMA ShapeRequest ==
  ASSUME Solo, TypeOK, ShapeInv, NEW c \in {"subscribe", "unsubscribe", "publish"}, NEW type, NEW id \in 0 .. MAX_PACKET_ID,
         NEW q \in {0, 1, 2},
         \/ c = "subscribe" /\ type = "SUBSCRIBE"
         \/ c = "unsubscribe" /\ type = "UNSUBSCRIBE"
         \/ c = "publish" /\ type = "PUBLISH",
         Request(App, c, type, id, q)
  PROVE  ShapeInv'
<1>1. isconnected' = isconnected /\ isconnected \in {0, 1} /\ c \in CallNames
  BY DEF Request, TypeOK, CallNames
<1>2. CASE isconnected = 0
  <2>1. Me'.pc = "failed" /\ Me'.call = c
    BY <1>2, EnterMe DEF Request
  <2> QED
    BY <1>1, <2>1 DEF ShapeInv, Waiting, InCycle
<1>3. CASE isconnected # 0
  <2>1. Me'.pc = "send" /\ Me'.call = c /\ Me'.id = id /\ Me'.qos = q
    BY <1>3, EnterMe DEF Request
  <2>2. buf' = Packet(type, id, q) /\ buf'.type = type /\ buf'.id = id /\ buf'.arg = q
    BY <1>3 DEF Request, Packet
  <2>3. buf' \in Packets
    <3>1. type \in PacketTypes /\ q \in {0, 1, 2, 5, 128, Oversize}
      BY DEF PacketTypes
    <3> QED
      BY <2>2, <3>1, PacketIsPacket
  <2>4. Awaited(App)' = CASE c = "subscribe" -> "SUBACK" [] c = "unsubscribe" -> "UNSUBACK"
                          [] c = "publish" /\ q = 1 -> "PUBACK" [] c = "publish" /\ q = 2 -> "PUBCOMP"
                          [] OTHER -> "nothing"
    BY <2>1 DEF Awaited, Me
  <2>5. CallId(App)' = id
    BY <2>1 DEF CallId, Me
  <2>6. Awaited(App)' = "nothing" => buf'.type = "PUBLISH" /\ buf'.arg = 0
    BY <2>2, <2>4
  <2>7. Awaited(App)' # "nothing" => buf' \in Asks' /\ buf'.type # "PUBREL"
    BY <2>1, <2>2, <2>3, <2>4, <2>5 DEF Asks, Requests
  <2> QED
    BY <1>1, <1>3, <2>1, <2>6, <2>7 DEF ShapeInv, Waiting, InCycle
<1> QED
  BY <1>2, <1>3

\* Every API function starts in shape.
LEMMA ShapeCalls ==
  ASSUME Solo, TypeOK, ShapeInv,
         Connect(App) \/ Subscribe(App) \/ Unsubscribe(App) \/ Publish(App) \/ Disconnect(App) \/ Yield(App)
  PROVE  ShapeInv'
<1>1. getNextPacketId \in 0 .. MAX_PACKET_ID /\ 0 \in 0 .. MAX_PACKET_ID
  BY NextIdType, ClientAssumption DEF PacketId
<1>2. CASE Connect(App)
  <2>1. Me'.pc = "send" /\ Me'.call = "connect"
    BY <1>2, EnterMe DEF Connect
  <2>2. buf' = Packet("CONNECT", 0, 0) /\ isconnected' = 0
    BY <1>2 DEF Connect
  <2>3. buf' \in Packets /\ buf'.type = "CONNECT" /\ buf'.id = 0
    <3>1. "CONNECT" \in PacketTypes
      BY DEF PacketTypes
    <3>2. buf' \in Packets
      BY <1>1, <2>2, <3>1, PacketIsPacket
    <3> QED
      BY <2>2, <3>2 DEF Packet
  <2>4. Awaited(App)' = "CONNACK" /\ CallId(App)' = 0
    BY <2>1 DEF Awaited, CallId, Me
  <2>5. buf' \in Asks'
    BY <2>1, <2>3, <2>4 DEF Asks, Requests
  <2> QED
    BY <2>1, <2>2, <2>3, <2>4, <2>5 DEF ShapeInv, Waiting, InCycle, CallNames
<1>3. CASE Subscribe(App)
  <2>1. Request(App, "subscribe", "SUBSCRIBE", getNextPacketId, 0) /\ 0 \in {0, 1, 2}
    BY <1>3 DEF Subscribe
  <2> QED
    BY <1>1, <2>1, ShapeRequest
<1>4. CASE Unsubscribe(App)
  <2>1. Request(App, "unsubscribe", "UNSUBSCRIBE", getNextPacketId, 0) /\ 0 \in {0, 1, 2}
    BY <1>4 DEF Unsubscribe
  <2> QED
    BY <1>1, <2>1, ShapeRequest
<1>5. CASE Publish(App)
  <2>1. PICK q \in PubQos : Request(App, "publish", "PUBLISH", IF q = 0 THEN 0 ELSE getNextPacketId, q)
    BY <1>5 DEF Publish
  <2>2. q \in {0, 1, 2}
    BY ClientAssumption
  <2> QED
    BY <1>1, <2>1, <2>2, ShapeRequest
<1>6. CASE Disconnect(App)
  <2>1. Me'.pc = "send" /\ Me'.call = "disconnect" /\ buf' = Packet("DISCONNECT", 0, 0)
    BY <1>6, EnterMe, Zenon DEF Disconnect
  <2> QED
    BY <2>1 DEF ShapeInv, Waiting, InCycle, CallNames
<1>7. CASE Yield(App)
  <2>1. Me'.pc = "read" /\ Me'.call = "yield" /\ isconnected' = 1
    BY <1>7, EnterMe DEF Yield, client
  <2> QED
    BY <2>1 DEF ShapeInv, Waiting, InCycle, CallNames
<1> QED
  BY <1>2, <1>3, <1>4, <1>5, <1>6, <1>7

\* A call in progress takes a step.
LEMMA ShapeSends ==
  ASSUME Solo, TypeOK, ShapeInv, SendRequest(App)
  PROVE  ShapeInv'
<1>1. Me.pc = "send" /\ isconnected' = isconnected /\ Me.call # "yield"
  BY DEF SendRequest, ShapeInv, Me, client, InCycle
<1>2. CASE Goto(App, "failed")
  BY <1>1, <1>2, GotoMe, ShapeFailed
<1>3. CASE Goto(App, "idle")
  BY <1>3, GotoMe, ShapeIdle
<1>4. CASE Goto(App, "wait") /\ Me.call # "disconnect" /\ Awaited(App) # "nothing"
  <2>1. Me'.pc = "wait" /\ SameCall
    BY <1>4, GotoMe
  <2>2. Awaited(App)' # "nothing"
    BY <1>4, <2>1, SameAwaited
  <2> QED
    BY <1>1, <1>4, <2>1, <2>2 DEF ShapeInv, SameCall, Waiting, InCycle
<1> QED
  BY <1>2, <1>3, <1>4 DEF SendRequest, Me

\* readPacket brings a packet, nothing, or an error.
LEMMA ShapeReads ==
  ASSUME Solo, TypeOK, ShapeInv, ReadPacket(App)
  PROVE  ShapeInv'
<1>1. Me.pc = "read" /\ Me.pc \in Waiting /\ Me.pc # "idle"
  BY DEF ReadPacket, Me, Waiting, InCycle
<1>2. ASSUME NEW g, NEW l \in {"handle", "keepalive"}, th' = [th EXCEPT ![App].got = g, ![App].pc = l]
      PROVE  Me'.pc = l /\ Me'.got = g /\ SameCall
  BY <1>2, MeType DEF Me, Locals, SameCall
<1>3. CASE /\ readbuf' = Head(inq) /\ th' = [th EXCEPT ![App].got = Head(inq).type, ![App].pc = "handle"]
           /\ UNCHANGED client
  <2>1. Me'.pc = "handle" /\ Me'.got = Head(inq).type /\ SameCall
    BY <1>2, <1>3, Zenon
  <2>2. Me'.pc \in Waiting /\ Me'.pc \in InCycle /\ isconnected' = isconnected /\ readbuf'.type = Me'.got
    BY <1>3, <2>1 DEF Waiting, InCycle, client
  <2> QED
    BY <1>1, <2>1, <2>2, ShapeGoesOn
<1>4. CASE th' = [th EXCEPT ![App].got = "timeout", ![App].pc = "keepalive"] /\ UNCHANGED client
  <2>1. Me'.pc = "keepalive" /\ Me'.got = "timeout" /\ SameCall
    BY <1>2, <1>4, Zenon
  <2>2. Me'.pc \in Waiting /\ Me'.pc \in InCycle /\ isconnected' = isconnected
    BY <1>4, <2>1 DEF Waiting, InCycle, client
  <2> QED
    BY <1>1, <2>1, <2>2, ShapeGoesOn
<1>5. CASE CycleFails(App)
  BY <1>1, <1>5, CycleFailsMe, ShapeIdle, ShapeFailed
<1> QED
  BY <1>3, <1>4, <1>5 DEF ReadPacket

\* A cycle that returns keeps the places right.
LEMMA ShapeReturns ==
  ASSUME Solo, TypeOK, ShapeInv, NEW type, CycleReturns(App, type), Me.pc \in Waiting, isconnected' = isconnected
  PROVE  ShapeInv'
<1>1. CASE Me' = Idle
  BY <1>1, ShapeIdle
<1>2. CASE Me' # Idle
  <2>1. SameCall /\ Me'.pc \in {"read", "decode", "wait"} /\ (Me.call = "yield" => Me'.pc = "read")
    BY <1>2, CycleReturnsMe
  <2>2. Me'.pc \in Waiting /\ (Me.call = "yield" => Me'.pc \in InCycle)
    BY <2>1 DEF Waiting, InCycle
  <2> QED
    BY <2>1, <2>2, ShapeGoesOn
<1> QED
  BY <1>1, <1>2

\* Every step of a call keeps the shape.
LEMMA ShapeSteps ==
  ASSUME Solo, TypeOK, ShapeInv,
         \/ SendRequest(App) \/ WaitFor(App) \/ Failed(App) \/ ReadPacket(App) \/ Handle(App)
         \/ SendAck(App) \/ KeepAlive(App) \/ SendPing(App) \/ Decode(App)
  PROVE  ShapeInv'
<1> USE DEF Waiting, InCycle
<1>1. CASE SendRequest(App)
  BY <1>1, ShapeSends
<1>2. CASE WaitFor(App)
  <2>1. Me.pc = "wait" /\ isconnected' = isconnected /\ Me.call # "yield"
    BY <1>2, Zenon DEF WaitFor, Me, client, ShapeInv
  <2>2. CASE Goto(App, "read")
    <3>1. Me'.pc = "read" /\ SameCall
      BY <2>2, GotoMe
    <3> QED
      BY <2>1, <3>1, ShapeGoesOn
  <2>3. CASE Goto(App, "failed")
    BY <2>1, <2>3, GotoMe, ShapeFailed
  <2> QED
    BY <1>2, <2>2, <2>3 DEF WaitFor
<1>3. CASE Failed(App)
  BY <1>3, GotoMe, ShapeIdle DEF Failed
<1>4. CASE ReadPacket(App)
  BY <1>4, ShapeReads
<1>5. CASE Handle(App)
  <2> DEFINE ack == AckOf(Me.got, readbuf.arg)
  <2>1. Me.pc = "handle" /\ isconnected' = isconnected /\ readbuf' = readbuf
    BY <1>5, Zenon DEF Handle, Me
  <2>2. ack \in {"PUBACK", "PUBREC", "PUBREL", "PUBCOMP", "none"}
    BY DEF AckOf
  <2>3. CASE CycleReturns(App, Me.got)
    BY <2>1, <2>3, ShapeReturns
  <2>4. CASE Goto(App, "keepalive")
    <3>1. Me'.pc = "keepalive" /\ SameCall
      BY <2>4, GotoMe
    <3> QED
      BY <2>1, <3>1, ShapeGoesOn
  <2>5. CASE Goto(App, "ack") /\ buf' = Packet(ack, readbuf.id, 0) /\ ack # "none"
    <3>1. buf'.type \in {"PUBACK", "PUBREC", "PUBREL", "PUBCOMP"}
      BY <2>2, <2>5 DEF Packet
    <3>2. Me'.pc = "ack" /\ SameCall
      BY <2>5, GotoMe
    <3> QED
      BY <2>1, <3>1, <3>2, ShapeGoesOn
  <2> QED
    BY <1>5, <2>3, <2>4, <2>5, Zenon DEF Handle, Me
<1>6. CASE SendAck(App)
  <2>1. Me.pc = "ack"
    BY <1>6 DEF SendAck, Me
  <2>2. CASE Goto(App, "keepalive") /\ UNCHANGED client
    <3>1. Me'.pc = "keepalive" /\ SameCall
      BY <2>2, GotoMe
    <3> QED
      BY <2>1, <2>2, <3>1, ShapeGoesOn DEF client
  <2>3. CASE CycleFails(App)
    BY <2>1, <2>3, CycleFailsMe, ShapeIdle, ShapeFailed
  <2> QED
    BY <1>6, <2>2, <2>3, Zenon DEF SendAck
<1>7. CASE KeepAlive(App)
  <2>1. Me.pc = "keepalive"
    BY <1>7 DEF KeepAlive, Me
  <2>2. CASE CycleReturns(App, Me.got) /\ UNCHANGED client
    BY <2>1, <2>2, ShapeReturns DEF client
  <2>3. CASE CycleFails(App)
    BY <2>1, <2>3, CycleFailsMe, ShapeIdle, ShapeFailed
  <2>4. CASE buf' = Packet("PINGREQ", 0, 0) /\ Goto(App, "ping") /\ UNCHANGED client
    <3>1. Me'.pc = "ping" /\ SameCall
      BY <2>4, GotoMe
    <3> QED
      BY <2>1, <2>4, <3>1, ShapeGoesOn DEF client
  <2> QED
    BY <1>7, <2>2, <2>3, <2>4 DEF KeepAlive, Me
<1>8. CASE SendPing(App)
  <2>1. Me.pc = "ping"
    BY <1>8, Zenon DEF SendPing, Me
  <2>2. CASE CycleReturns(App, Me.got) /\ UNCHANGED isconnected
    BY <2>1, <2>2, ShapeReturns
  <2>3. CASE CycleFails(App)
    BY <2>1, <2>3, CycleFailsMe, ShapeIdle, ShapeFailed
  <2> QED
    BY <1>8, <2>2, <2>3 DEF SendPing, Me
<1>9. CASE Decode(App)
  <2>1. Me.pc = "decode" /\ Me.call # "yield"
    BY <1>9 DEF Decode, Me, ShapeInv
  <2>2. CASE Goto(App, "idle")
    BY <2>2, GotoMe, ShapeIdle
  <2>3. CASE Goto(App, "failed") /\ isconnected' = isconnected
    BY <2>1, <2>3, GotoMe, ShapeFailed
  <2> QED
    BY <1>9, <2>2, <2>3 DEF Decode
<1> QED
  BY <1>1, <1>2, <1>3, <1>4, <1>5, <1>6, <1>7, <1>8, <1>9

\* The broker, the network and the clock leave the thread alone.
Outside == Broker \/ BrokerPublish \/ LinkLost \/ Tick \/ UNCHANGED vars

\* The broker, the link and the timer leave the client's memory alone.
LEMMA OutsideMe ==
  ASSUME Outside
  PROVE  /\ Me' = Me /\ SameCall /\ UNCHANGED <<buf, readbuf, isconnected, handler, ping_outstanding>>
         /\ received \subseteq received' /\ Awaited(App)' = Awaited(App) /\ CallId(App)' = CallId(App)
<1>1. th' = th /\ UNCHANGED <<buf, readbuf, isconnected, handler, ping_outstanding>> /\ received \subseteq received'
  <2> USE DEF client, bufs, timers, net, broker
  <2>1. CASE BrokerConnect
    BY <2>1 DEF BrokerConnect
  <2>2. CASE BrokerReply
    BY <2>2 DEF BrokerReply
  <2>3. CASE BrokerReject
    BY <2>3 DEF BrokerReject
  <2>4. CASE BrokerPublish
    BY <2>4 DEF BrokerPublish
  <2>5. CASE LinkLost \/ Tick
    BY <2>5 DEF LinkLost, Tick
  <2>6. CASE UNCHANGED vars
    BY <2>6 DEF vars
  <2> QED
    BY <2>1, <2>2, <2>3, <2>4, <2>5, <2>6 DEF Outside, Broker
<1>2. Me' = Me /\ SameCall
  BY <1>1 DEF Me, SameCall
<1> QED
  BY <1>1, <1>2, SameAwaited

\* So they keep the shape.
LEMMA ShapeOutside ==
  ASSUME ShapeInv, Outside
  PROVE  ShapeInv'
<1>1. /\ Me' = Me /\ SameCall /\ UNCHANGED <<buf, readbuf, isconnected>>
      /\ received \subseteq received' /\ Awaited(App)' = Awaited(App)
  BY OutsideMe
<1>2. Asks \subseteq Asks'
  BY <1>1, SamePackets
<1> QED
  BY <1>1, <1>2 DEF ShapeInv

-----------------------------------------------------------------------------
\* One request or answer

\* The types the token argument uses.
LEMMA TokenFacts ==
  TypeOK => /\ outq \in Seq(Packets) /\ inq \in Seq(Packets) /\ buf \in Packets /\ readbuf \in Packets
            /\ Asks \in SUBSET Requests /\ Mine \in SUBSET Answers
<1>1. Asks \in SUBSET Requests /\ Mine \in SUBSET Answers
  BY DEF Asks, Mine
<1>2. TypeOK => inq \in Seq(Packets) /\ buf \in Packets /\ readbuf \in Packets
  BY DEF TypeOK, OutPackets
<1> QED
  BY <1>1, <1>2, OutqIsQueue

\* The packets that are no requests, and what is awaited.
LEMMA NoRequest ==
  ASSUME NEW p \in Packets,
         \/ p.type \in {"PUBACK", "PUBREC", "PUBCOMP", "PINGREQ", "DISCONNECT"}
         \/ p.type = "PUBLISH" /\ p.arg = 0
  PROVE  p \notin Requests
BY DEF Requests

\* Between calls, before the request is sent and after a failure.
LEMMA TokenIdle ==
  ASSUME None(outq', Requests), None(inq', Answers), Me'.pc \in {"idle", "send", "failed"}
  PROVE  TokenInv'
<1>1. Me'.pc \notin Waiting /\ EmptyHand'
  BY DEF Waiting, InCycle, EmptyHand
<1> QED
  BY <1>1 DEF TokenInv, Nothing

\* A failed call owes no answer.
LEMMA TokenFailed ==
  ASSUME Me'.pc = "failed", Me'.call \notin {"yield", "disconnect"}
  PROVE  TokenInv'
BY DEF TokenInv, Waiting, InCycle

\* A cycle fails: MQTTYield had no request under way.
LEMMA TokenFails ==
  ASSUME Solo, TypeOK, ShapeInv, TokenInv, Me.pc \in InCycle, CycleFails(App), outq' = outq,
         None(inq, Answers) => None(inq', Answers)
  PROVE  TokenInv'
<1>1. CASE Me.call = "yield"
  <2>1. None(outq', Requests) /\ None(inq', Answers)
    BY <1>1 DEF TokenInv, Nothing
  <2>2. Me'.pc = "idle"
    BY <1>1, CycleFailsMe DEF Idle
  <2> QED
    BY <2>1, <2>2, TokenIdle
<1>2. CASE Me.call # "yield"
  <2>1. Me'.pc = "failed" /\ Me'.call = Me.call
    BY <1>2, CycleFailsMe DEF SameCall
  <2>2. CASE Me.call = "disconnect"
    <3>1. Me.pc \in Waiting /\ Awaited(App) # "nothing"
      BY <1>2 DEF Waiting, ShapeInv
    <3> QED
      BY <2>2, <3>1 DEF Awaited, Me
  <2> QED
    BY <1>2, <2>1, <2>2, TokenFailed
<1> QED
  BY <1>1, <1>2

\* A call starts with no request and no answer of an earlier call under way.
LEMMA TokenCalls ==
  ASSUME Solo, TypeOK, ShapeInv, TokenInv,
         Connect(App) \/ Subscribe(App) \/ Unsubscribe(App) \/ Publish(App) \/ Disconnect(App) \/ Yield(App)
  PROVE  TokenInv'
<1>1. Me.pc = "idle"
  BY DEF Connect, Subscribe, Unsubscribe, Publish, Disconnect, Yield, Request, Me
<1>2. None(outq, Requests) /\ None(inq, Answers)
  BY <1>1 DEF TokenInv, Nothing
<1>3. CASE Connect(App)
  <2>1. Me'.pc = "send"
    BY <1>3, EnterMe, Zenon DEF Connect
  <2>2. outq' = <<>> /\ inq' = <<>>
    BY <1>3, Zenon DEF Connect
  <2> QED
    BY <2>1, <2>2, WhenEmpty, TokenIdle
<1>4. ASSUME NEW c, NEW type, NEW id, NEW q, Request(App, c, type, id, q)
      PROVE  TokenInv'
  <2>1. Me'.pc \in {"send", "failed"}
    BY <1>4, EnterMe DEF Request
  <2>2. outq' = outq /\ inq' = inq
    BY <1>4, Zenon DEF Request, net
  <2> QED
    BY <1>2, <2>1, <2>2, TokenIdle
<1>5. CASE Disconnect(App)
  <2>1. Me'.pc = "send"
    BY <1>5, EnterMe DEF Disconnect
  <2>2. outq' = outq /\ inq' = inq
    BY <1>5 DEF Disconnect, net
  <2> QED
    BY <1>2, <2>1, <2>2, TokenIdle
<1>6. CASE Yield(App)
  <2>1. Me'.pc = "read" /\ Me'.call = "yield"
    BY <1>6, EnterMe DEF Yield
  <2>2. outq' = outq /\ inq' = inq
    BY <1>6 DEF Yield, net
  <2>3. Nothing'
    BY <1>2, <2>1, <2>2 DEF Nothing, EmptyHand
  <2> QED
    BY <2>1, <2>3 DEF TokenInv
<1> QED
  BY <1>3, <1>4, <1>5, <1>6 DEF Subscribe, Unsubscribe, Publish

\* sendPacket puts the call's one request into the stream, or the call fails.
LEMMA TokenSends ==
  ASSUME Solo, TypeOK, ShapeInv, TokenInv, SendRequest(App)
  PROVE  TokenInv'
<1>1. Me.pc = "send" /\ Me.call # "yield" /\ inq' = inq /\ received' = received
  BY DEF SendRequest, Me, ShapeInv, InCycle, broker
<1>2. None(outq, Requests) /\ None(inq, Answers)
  BY <1>1 DEF TokenInv, Nothing
<1>3. outq \in Seq(Packets) /\ buf \in Packets /\ Asks \in SUBSET Requests
  BY TokenFacts
<1>4. CASE SendFails /\ Goto(App, "failed")
  <2>1. outq' = outq /\ Me'.pc = "failed"
    BY <1>4, GotoMe DEF SendFails
  <2> QED
    BY <1>1, <1>2, <2>1, TokenIdle
<1>5. CASE SendOk /\ Goto(App, "failed") /\ Me.call = "disconnect"
  <2>1. buf \notin Requests
    BY <1>1, <1>3, <1>5, NoRequest DEF ShapeInv, Packet
  <2>2. None(outq', Requests)
    BY <1>2, <1>3, <1>5, <2>1, WhenAppended DEF SendOk
  <2>3. Me'.pc = "failed"
    BY <1>5, GotoMe
  <2> QED
    BY <1>1, <1>2, <2>2, <2>3, TokenIdle
<1>6. CASE SendOk /\ Goto(App, "idle") /\ Me.call # "disconnect" /\ Awaited(App) = "nothing"
  <2>1. buf \notin Requests
    BY <1>1, <1>3, <1>6, NoRequest DEF ShapeInv
  <2>2. None(outq', Requests)
    BY <1>2, <1>3, <1>6, <2>1, WhenAppended DEF SendOk
  <2>3. Me'.pc = "idle"
    BY <1>6, GotoMe DEF Idle
  <2> QED
    BY <1>1, <1>2, <2>2, <2>3, TokenIdle
<1>7. CASE SendOk /\ Goto(App, "wait") /\ Me.call # "disconnect" /\ Awaited(App) # "nothing"
  <2>1. Me'.pc = "wait" /\ SameCall
    BY <1>7, GotoMe
  <2>2. buf \in Asks
    BY <1>1, <1>7 DEF ShapeInv
  <2>3. One(outq', Requests, Asks)
    BY <1>2, <1>3, <1>7, <2>2, WhenAppended DEF SendOk
  <2>4. One(outq', Requests, Asks')
    BY <1>1, <2>1, <2>3, SamePackets, WhenMore
  <2>5. AskSent'
    BY <1>1, <1>2, <2>1, <2>4 DEF AskSent, EmptyHand
  <2> QED
    BY <1>1, <1>7, <2>1, <2>5 DEF TokenInv, SameCall
<1>8. \/ SendFails /\ Goto(App, "failed")
      \/ SendOk /\ Goto(App, IF Me.call = "disconnect" THEN "failed" ELSE IF Awaited(App) = "nothing" THEN "idle" ELSE "wait")
  BY Zenon DEF SendRequest, Me
<1> QED
  BY <1>4, <1>5, <1>6, <1>7, <1>8

\* A step that leaves the call's request or answer where it is.
LEMMA TokenKept ==
  ASSUME TokenInv, SameCall, received \subseteq received',
         Me'.pc \in Waiting => Me.pc \in Waiting,
         Me'.pc \in {"idle", "send"} => Me.pc \in {"idle", "send"},
         None(outq, Requests) => None(outq', Requests),
         One(outq, Requests, Asks) => One(outq', Requests, Asks),
         None(inq, Answers) => None(inq', Answers),
         One(inq, Answers, Mine) => One(inq', Answers, Mine),
         link # "up" => link' # "up",
         EmptyHand => EmptyHand', InHand => InHand'
  PROVE  TokenInv'
<1>1. Asks \subseteq Asks' /\ Mine \subseteq Mine'
  BY SamePackets
<1>2. AskSent => AskSent'
  BY <1>1, WhenMore DEF AskSent
<1>3. AnswerSent => AnswerSent'
  BY <1>1, WhenMore DEF AnswerSent
<1>4. (AnswerRead => AnswerRead') /\ (Nothing => Nothing')
  BY DEF AnswerRead, Nothing
<1>5. Me'.call = Me.call
  BY DEF SameCall
<1> QED
  BY <1>2, <1>3, <1>4, <1>5 DEF TokenInv

\* A packet that is no request is sent.
LEMMA TokenSendOk ==
  ASSUME TypeOK, SendOk, buf \notin Requests
  PROVE  /\ None(outq, Requests) => None(outq', Requests)
         /\ One(outq, Requests, Asks) => One(outq', Requests, Asks)
<1>1. outq \in Seq(Packets) /\ buf \in Packets /\ Asks \in SUBSET Requests
  BY TokenFacts
<1>2. outq' = Append(outq, buf)
  BY DEF SendOk
<1> QED
  BY <1>1, <1>2, WhenAppended

\* A cycle returns: waitfor ends if and only if the answer has been read.
LEMMA TokenReturns ==
  ASSUME Solo, TypeOK, ShapeInv, TokenInv, CycleReturns(App, Me.got), Me.pc \in {"keepalive", "ping"},
         received' = received, inq' = inq, link' = link, readbuf' = readbuf,
         None(outq, Requests) => None(outq', Requests),
         One(outq, Requests, Asks) => One(outq', Requests, Asks)
  PROVE  TokenInv'
<1>1. Me.pc \in Waiting
  BY DEF Waiting, InCycle
<1>2. CASE Me.call = "yield"
  <2>1. None(outq', Requests) /\ None(inq', Answers)
    BY <1>2 DEF TokenInv, Nothing
  <2>2. CASE Me' = Idle
    BY <2>1, <2>2, TokenIdle DEF Idle
  <2>3. CASE Me'.pc = "read" /\ SameCall
    <3>1. Nothing' /\ Me'.call = "yield"
      BY <1>2, <2>1, <2>3 DEF Nothing, EmptyHand, SameCall
    <3> QED
      BY <2>3, <3>1 DEF TokenInv
  <2> QED
    BY <1>2, <2>2, <2>3, CycleReturnsMe
<1>3. CASE Me.call # "yield"
  <2>1. SameCall /\ Me'.got = Me.got /\ Me'.pc = (IF Me.got = Awaited(App) THEN "decode" ELSE "wait")
    BY <1>3, CycleReturnsMe
  <2>2. Awaited(App)' = Awaited(App) /\ Mine \subseteq Mine'
    BY <2>1, SameAwaited, SamePackets
  <2>3. EmptyHand => EmptyHand'
    BY <2>1 DEF EmptyHand
  <2>4. InHand => InHand'
    BY <2>1, <2>2 DEF InHand
  <2>5. Me'.pc \notin {"idle", "send"}
    BY <2>1
  <2> QED
    BY <1>1, <2>1, <2>3, <2>4, <2>5, TokenKept
<1> QED
  BY <1>2, <1>3

\* readPacket takes the answer from the stream into readbuf, or takes something else.
LEMMA TokenReads ==
  ASSUME Solo, TypeOK, ShapeInv, TokenInv, ReadPacket(App)
  PROVE  TokenInv'
<1>1. /\ Me.pc = "read" /\ Me.pc \in Waiting /\ Me.pc \in InCycle
      /\ outq' = outq /\ buf' = buf /\ link' = link /\ received' = received
  BY DEF ReadPacket, Me, Waiting, InCycle, broker
<1>2. inq \in Seq(Packets) /\ Mine \in SUBSET Answers
  BY TokenFacts
<1>3. ASSUME NEW g, NEW l \in {"handle", "keepalive"}, th' = [th EXCEPT ![App].got = g, ![App].pc = l]
      PROVE  Me'.pc = l /\ Me'.got = g /\ SameCall
  BY <1>3, MeType DEF Me, Locals, SameCall
<1>4. ~ InHand
  BY <1>1 DEF InHand
<1>5. CASE /\ inq # <<>> /\ readbuf' = Head(inq) /\ inq' = Tail(inq)
           /\ th' = [th EXCEPT ![App].got = Head(inq).type, ![App].pc = "handle"]
  <2>1. Me'.pc = "handle" /\ Me'.got = Head(inq).type /\ SameCall
    BY <1>3, <1>5, Zenon
  <2>2. Awaited(App)' = Awaited(App) /\ Mine \subseteq Mine'
    BY <1>1, <2>1, SameAwaited, SamePackets
  <2>3. Head(inq) \in Packets
    BY <1>2, <1>5, InQueueType
  <2>4. CASE Head(inq) \notin Answers
    <3>1. Head(inq).type \notin {"CONNACK", "SUBACK", "UNSUBACK", "PUBACK", "PUBREC", "PUBCOMP", "nothing"}
      BY <2>3, <2>4 DEF Answers, Packets, PacketTypes
    <3>2. EmptyHand'
      BY <2>1, <2>2, <3>1, AwaitedIs DEF EmptyHand
    <3>3. /\ None(inq, Answers) => None(inq', Answers)
          /\ One(inq, Answers, Mine) => One(inq', Answers, Mine)
      BY <1>2, <1>5, <2>4, WhenTaken
    <3> QED
      BY <1>1, <1>4, <2>1, <3>2, <3>3, TokenKept
  <2>5. CASE Head(inq) \in Answers
    <3>1. ~ None(inq, Answers)
      BY <1>2, <1>5, <2>5, WhenTaken, Zenon
    <3>2. AnswerSent /\ Me.call \notin {"yield", "disconnect"}
      BY <1>1, <1>4, <3>1 DEF TokenInv, AskSent, AnswerRead, Nothing
    <3>3. None(inq', Answers) /\ Head(inq) \in Mine
      BY <1>2, <1>5, <2>5, <3>2, WhenTaken DEF AnswerSent
    <3>4. readbuf' \in Mine' /\ readbuf'.type = Me'.got
      BY <1>5, <2>1, <2>2, <3>3
    <3>5. Me'.got = Awaited(App)' \/ Me'.got = "PUBREC"
      BY <2>1, <2>2, <3>3 DEF Mine
    <3>6. InHand'
      BY <2>1, <3>4, <3>5 DEF InHand
    <3>7. AnswerRead'
      BY <1>1, <3>2, <3>3, <3>6 DEF AnswerRead, AnswerSent
    <3> QED
      BY <2>1, <3>2, <3>7 DEF TokenInv, SameCall
  <2> QED
    BY <2>4, <2>5
<1>6. CASE /\ link # "up" /\ inq' = <<>>
           /\ th' = [th EXCEPT ![App].got = "timeout", ![App].pc = "keepalive"]
  <2>1. Me'.pc = "keepalive" /\ Me'.got = "timeout" /\ SameCall
    BY <1>3, <1>6, Zenon
  <2>2. EmptyHand' /\ None(inq', Answers)
    BY <1>6, <2>1, AwaitedIs, SameAwaited, WhenEmpty DEF EmptyHand
  <2>3. Asks \subseteq Asks' /\ Me'.call = Me.call
    BY <1>1, <2>1, SamePackets DEF SameCall
  <2>4. AskSent => AskSent'
    BY <1>1, <2>2, <2>3, WhenMore, Zenon DEF AskSent
  <2>5. AnswerSent \/ Nothing => Nothing'
    BY <1>1, <2>2 DEF AnswerSent, Nothing
  <2>6. ~ AnswerRead
    BY <1>4 DEF AnswerRead
  <2> QED
    BY <1>1, <1>6, <2>1, <2>3, <2>4, <2>5, <2>6 DEF TokenInv
<1>7. CASE CycleFails(App) /\ (inq' = inq \/ (inq # <<>> /\ inq' = Tail(inq)))
  <2>1. None(inq, Answers) => None(inq', Answers)
    BY <1>2, <1>7, WhenTaken, Zenon
  <2> QED
    BY <1>1, <1>7, <2>1, TokenFails
<1> QED
  BY <1>5, <1>6, <1>7 DEF ReadPacket

\* The switch of cycle keeps an answer and replies to a message with a packet that is no request.
LEMMA TokenHandles ==
  ASSUME Solo, TypeOK, ShapeInv, TokenInv, Handle(App)
  PROVE  TokenInv'
<1> DEFINE ack == AckOf(Me.got, readbuf.arg)
<1>1. /\ Me.pc = "handle" /\ Me.pc \in Waiting /\ readbuf.type = Me.got
      /\ outq' = outq /\ inq' = inq /\ link' = link /\ readbuf' = readbuf /\ received' = received
  BY Zenon DEF Handle, ShapeInv, Me, Waiting, InCycle, net, broker
<1>2. ack \in {"PUBACK", "PUBREC", "PUBREL", "PUBCOMP", "none"} /\ (ack = "PUBREL" <=> Me.got = "PUBREC")
  BY DEF AckOf
<1>3. Me.got = Awaited(App) => ack = "none"
  BY AwaitedIs DEF AckOf
<1>4. \/ ack = "none" /\ Goto(App, "keepalive")
      \/ ack # "none" /\ Goto(App, "ack") /\ buf' = Packet(ack, readbuf.id, 0)
  BY <1>1, Zenon DEF Handle, Me
<1> HIDE DEF ack
<1>5. CASE ack = "none" /\ Goto(App, "keepalive")
  <2>1. Me'.pc = "keepalive" /\ Me'.got = Me.got /\ SameCall
    BY <1>5, GotoMe
  <2>2. Awaited(App)' = Awaited(App) /\ Mine \subseteq Mine'
    BY <1>1, <2>1, SameAwaited, SamePackets
  <2>3. EmptyHand => EmptyHand'
    BY <1>1, <2>1, <2>2 DEF EmptyHand
  <2>4. InHand => InHand'
    BY <1>1, <1>2, <1>5, <2>1, <2>2 DEF InHand
  <2>5. Me'.pc \notin {"idle", "send"}
    BY <2>1
  <2> QED
    BY <1>1, <2>1, <2>3, <2>4, <2>5, TokenKept, Zenon
<1>6. CASE ack # "none" /\ Goto(App, "ack") /\ buf' = Packet(ack, readbuf.id, 0)
  <2>1. Me'.pc = "ack" /\ Me'.got = Me.got /\ SameCall
    BY <1>6, GotoMe
  <2>2. Awaited(App)' = Awaited(App) /\ Mine \subseteq Mine' /\ CallId(App)' = CallId(App)
    BY <1>1, <2>1, SameAwaited, SamePackets, Zenon
  <2>3. buf'.type = ack /\ buf'.id = readbuf.id
    BY <1>6 DEF Packet
  <2>4. buf' \in Packets
    <3>1. readbuf.id \in 0 .. MAX_PACKET_ID /\ ack \in PacketTypes
      BY <1>2 DEF TypeOK, Packets, PacketTypes
    <3> QED
      BY <1>6, <3>1, PacketIsPacket
  <2>5. EmptyHand => EmptyHand'
    <3>1. Me.got # "PUBREC" => buf' \notin Requests
      BY <1>2, <1>6, <2>3, <2>4, NoRequest, Zenon
    <3> QED
      BY <1>1, <2>1, <2>2, <3>1 DEF EmptyHand
  <2>6. InHand => InHand'
    <3> SUFFICES ASSUME InHand PROVE InHand'
      OBVIOUS
    <3>1. Me.got = "PUBREC" /\ readbuf \in Mine
      BY <1>1, <1>3, <1>6 DEF InHand
    <3>2. Me.call = "publish" /\ Me.qos = 2 /\ readbuf.id = CallId(App) /\ readbuf.id \in received
      BY <1>1, <3>1, AwaitedIs DEF Mine
    <3>3. buf'.type = "PUBREL"
      BY <1>2, <2>3, <3>1
    <3>4. buf' \in Asks'
      BY <1>1, <2>1, <2>2, <2>3, <2>4, <3>2, <3>3 DEF Asks, Requests, SameCall
    <3> QED
      BY <2>1, <3>1, <3>3, <3>4 DEF InHand
  <2>7. Me'.pc \notin {"idle", "send"}
    BY <2>1
  <2> QED
    BY <1>1, <2>1, <2>5, <2>6, <2>7, TokenKept, Zenon
<1> QED
  BY <1>4, <1>5, <1>6

\* That reply is written, and no answer comes of it.
LEMMA TokenAcks ==
  ASSUME Solo, TypeOK, ShapeInv, TokenInv, SendAck(App)
  PROVE  TokenInv'
<1>1. /\ Me.pc = "ack" /\ Me.pc \in Waiting /\ Me.pc \in InCycle
      /\ inq' = inq /\ link' = link /\ readbuf' = readbuf /\ buf' = buf /\ received' = received
  BY DEF SendAck, Me, Waiting, InCycle, bufs, broker
<1>2. CASE SendFails /\ CycleFails(App)
  BY <1>1, <1>2, TokenFails DEF SendFails
<1>3. CASE SendOk /\ Goto(App, "keepalive")
  <2>1. Me'.pc = "keepalive" /\ Me'.got = Me.got /\ SameCall
    BY <1>3, GotoMe
  <2>2. Awaited(App)' = Awaited(App) /\ Asks \subseteq Asks'
    BY <1>1, <2>1, SameAwaited, SamePackets, Zenon
  <2>3. CASE buf \notin Requests
    <3>1. ~ InHand
      BY <1>1, <2>3, TokenFacts DEF InHand
    <3>2. EmptyHand => EmptyHand'
      BY <1>1, <2>1, <2>2 DEF EmptyHand
    <3>3. Me'.pc \notin {"idle", "send"}
      BY <2>1
    <3> QED
      BY <1>1, <1>3, <2>1, <2>3, <3>1, <3>2, <3>3, TokenSendOk, TokenKept
  <2>4. CASE buf \in Requests
    <3>1. ~ EmptyHand
      BY <1>1, <2>4 DEF EmptyHand
    <3>2. AnswerRead /\ Me.call \notin {"yield", "disconnect"}
      BY <1>1, <3>1 DEF TokenInv, AskSent, AnswerSent, Nothing
    <3>3. buf \in Asks /\ Me.got = "PUBREC"
      BY <1>1, <3>2 DEF AnswerRead, InHand
    <3>4. outq \in Seq(Packets) /\ buf \in Packets /\ Asks \in SUBSET Requests /\ outq' = Append(outq, buf)
      BY <1>3, TokenFacts DEF SendOk
    <3>5. One(outq', Requests, Asks)
      BY <3>2, <3>3, <3>4, WhenAppended DEF AnswerRead
    <3>6. EmptyHand'
      BY <2>1, <2>2, <3>3, AwaitedIs DEF EmptyHand
    <3>7. AskSent'
      BY <1>1, <2>2, <3>2, <3>5, <3>6, WhenMore DEF AskSent, AnswerRead
    <3> QED
      BY <2>1, <3>2, <3>7 DEF TokenInv, SameCall
  <2> QED
    BY <2>3, <2>4
<1> QED
  BY <1>2, <1>3 DEF SendAck

\* keepalive passes the type cycle returns on to waitfor.
LEMMA TokenKeepsAlive ==
  ASSUME Solo, TypeOK, ShapeInv, TokenInv, KeepAlive(App)
  PROVE  TokenInv'
<1>1. /\ Me.pc = "keepalive" /\ Me.pc \in Waiting /\ Me.pc \in InCycle
      /\ outq' = outq /\ inq' = inq /\ link' = link /\ readbuf' = readbuf /\ received' = received
  BY DEF KeepAlive, Me, Waiting, InCycle, net, broker
<1>2. CASE CycleReturns(App, Me.got)
  BY <1>1, <1>2, TokenReturns
<1>3. CASE CycleFails(App)
  BY <1>1, <1>3, TokenFails
<1>4. CASE Goto(App, "ping")
  <2>1. Me'.pc = "ping" /\ Me'.got = Me.got /\ SameCall
    BY <1>4, GotoMe
  <2>2. Awaited(App)' = Awaited(App) /\ Mine \subseteq Mine'
    BY <1>1, <2>1, SameAwaited, SamePackets
  <2>3. EmptyHand => EmptyHand'
    BY <1>1, <2>1, <2>2 DEF EmptyHand
  <2>4. InHand => InHand'
    BY <1>1, <2>1, <2>2 DEF InHand
  <2>5. Me'.pc \notin {"idle", "send"}
    BY <2>1
  <2> QED
    BY <1>1, <2>1, <2>3, <2>4, <2>5, TokenKept
<1> QED
  BY <1>2, <1>3, <1>4 DEF KeepAlive, Me

\* A PINGREQ is no request of a call, and its answer no answer to one.
LEMMA TokenPings ==
  ASSUME Solo, TypeOK, ShapeInv, TokenInv, SendPing(App)
  PROVE  TokenInv'
<1>1. /\ Me.pc = "ping" /\ Me.pc \in InCycle
      /\ inq' = inq /\ link' = link /\ readbuf' = readbuf /\ received' = received
  BY DEF SendPing, Me, InCycle, bufs, broker
<1>2. buf \notin Requests
  BY <1>1, TokenFacts, NoRequest DEF ShapeInv, Packet
<1>3. CASE SendOk /\ CycleReturns(App, Me.got)
  BY <1>1, <1>2, <1>3, TokenSendOk, TokenReturns
<1>4. CASE SendFails /\ CycleFails(App)
  BY <1>1, <1>4, TokenFails DEF SendFails
<1> QED
  BY <1>3, <1>4 DEF SendPing, Me

\* waitfor goes round its loop, or gives up when its timer expires.
LEMMA TokenWaits ==
  ASSUME Solo, TypeOK, ShapeInv, TokenInv, WaitFor(App)
  PROVE  TokenInv'
<1>1. /\ Me.pc = "wait" /\ Me.pc \in Waiting /\ Me.call # "yield"
      /\ outq' = outq /\ inq' = inq /\ link' = link /\ received' = received
  BY DEF WaitFor, Me, Waiting, InCycle, ShapeInv, net, broker
<1>2. ~ InHand
  BY <1>1 DEF InHand
<1>3. CASE Goto(App, "read")
  <2>1. Me'.pc = "read" /\ SameCall
    BY <1>3, GotoMe
  <2>2. EmptyHand' /\ Me'.pc \notin {"idle", "send"}
    BY <2>1 DEF EmptyHand
  <2> QED
    BY <1>1, <1>2, <2>1, <2>2, TokenKept
<1>4. CASE Goto(App, "failed")
  <2>1. Me'.pc = "failed" /\ SameCall
    BY <1>4, GotoMe
  <2>2. Me.call # "disconnect"
    BY <1>1 DEF ShapeInv, Awaited, Me
  <2> QED
    BY <1>1, <2>1, <2>2, TokenFailed DEF SameCall
<1> QED
  BY <1>3, <1>4 DEF WaitFor

\* A call that fails leaves no request and no answer behind.
LEMMA TokenGivesUp ==
  ASSUME Solo, TypeOK, ShapeInv, TokenInv, Failed(App)
  PROVE  TokenInv'
<1>1. Me'.pc = "idle"
  BY GotoMe DEF Failed, Idle
<1>2. None(outq', Requests) /\ None(inq', Answers)
  BY WhenEmpty DEF Failed, TokenInv, Nothing, Me, net
<1> QED
  BY <1>1, <1>2, TokenIdle

\* The caller decodes the acknowledgement it waited for and returns.
LEMMA TokenDecodes ==
  ASSUME Solo, TypeOK, ShapeInv, TokenInv, Decode(App)
  PROVE  TokenInv'
<1>1. Me.pc = "decode" /\ Me.pc \in Waiting /\ Me.call # "yield" /\ outq' = outq /\ inq' = inq
  BY DEF Decode, Me, Waiting, InCycle, ShapeInv, net
<1>2. ~ EmptyHand
  BY <1>1 DEF EmptyHand
<1>3. None(outq', Requests) /\ None(inq', Answers)
  BY <1>1, <1>2 DEF TokenInv, AskSent, AnswerSent, AnswerRead, Nothing
<1>4. Me'.pc \in {"idle", "failed"}
  BY GotoMe DEF Decode, Idle
<1> QED
  BY <1>3, <1>4, TokenIdle

\* Every step of a call keeps the token.
LEMMA TokenSteps ==
  ASSUME Solo, TypeOK, ShapeInv, TokenInv,
         \/ SendRequest(App) \/ WaitFor(App) \/ Failed(App) \/ ReadPacket(App) \/ Handle(App)
         \/ SendAck(App) \/ KeepAlive(App) \/ SendPing(App) \/ Decode(App)
  PROVE  TokenInv'
BY TokenSends, TokenWaits, TokenGivesUp, TokenReads, TokenHandles, TokenAcks, TokenKeepsAlive, TokenPings, TokenDecodes

\* What the broker answers: requests with answers, anything else without.
LEMMA RepliesAre ==
  ASSUME NEW h \in Packets, NEW r \in Replies(h)
  PROVE  /\ r \in Packets
         /\ h \notin Requests => r \notin Answers
         /\ r.type # "CONNACK" /\ r.type # "PUBLISH"
<1>1. h.type \in PacketTypes /\ h.id \in 0 .. MAX_PACKET_ID /\ 0 \in 0 .. MAX_PACKET_ID
  BY ClientAssumption DEF Packets
<1>2. /\ \A type \in PacketTypes, arg \in {0, 128} : Packet(type, h.id, arg) \in Packets
      /\ Packet("PINGRESP", 0, 0) \in Packets /\ NoPacket \in Packets
  BY <1>1, PacketIsPacket DEF PacketTypes, NoPacket
<1>3. r \in Packets
  BY <1>2 DEF Replies, PacketTypes
<1>4. h \notin Requests => r.type \in {"PUBREL", "PINGRESP", "none"}
  BY DEF Replies, Requests, Packet, NoPacket
<1>5. r.type # "CONNACK" /\ r.type # "PUBLISH"
  BY DEF Replies, Packet, NoPacket
<1> QED
  BY <1>3, <1>4, <1>5 DEF Answers

\* The answer to the request of the call is the call's.
LEMMA ReplyIsMine ==
  ASSUME TypeOK, Solo, Outside, NEW h \in Asks, NEW r \in Replies(h), h.type # "CONNECT",
         h.type = "PUBLISH" => h.id \in received'
  PROVE  r \in Mine' /\ r # NoPacket
<1>1. /\ Me' = Me /\ Awaited(App)' = Awaited(App) /\ CallId(App)' = CallId(App)
      /\ received \subseteq received' /\ Me \in Locals
  BY OutsideMe, MeType
<1>2. h \in Requests /\ h \in Packets /\ h.id = CallId(App)
  BY DEF Asks, Requests
<1>3. r \in Packets
  BY <1>2, RepliesAre
<1>4. CASE Me.call = "subscribe" /\ h.type = "SUBSCRIBE"
  <2>1. r.type = "SUBACK" /\ r.id = h.id /\ Awaited(App) = "SUBACK"
    BY <1>4 DEF Replies, Packet, Awaited, Me
  <2> QED
    BY <1>1, <1>2, <1>3, <1>4, <2>1 DEF Mine, Answers, NoPacket, Packet
<1>5. CASE Me.call = "unsubscribe" /\ h.type = "UNSUBSCRIBE"
  <2>1. r.type = "UNSUBACK" /\ r.id = h.id /\ Awaited(App) = "UNSUBACK"
    BY <1>5 DEF Replies, Packet, Awaited, Me
  <2> QED
    BY <1>1, <1>2, <1>3, <1>5, <2>1 DEF Mine, Answers, NoPacket, Packet
<1>6. CASE Me.call = "publish" /\ h.type = "PUBLISH" /\ h.arg = Me.qos /\ Me.qos = 1
  <2>1. r.type = "PUBACK" /\ r.id = h.id /\ Awaited(App) = "PUBACK"
    BY <1>6 DEF Replies, Packet, Awaited, Me
  <2> QED
    BY <1>1, <1>2, <1>3, <1>6, <2>1 DEF Mine, Answers, NoPacket, Packet
<1>7. CASE Me.call = "publish" /\ h.type = "PUBLISH" /\ h.arg = Me.qos /\ Me.qos = 2
  <2>1. r.type = "PUBREC" /\ r.id = h.id
    BY <1>7 DEF Replies, Packet
  <2> QED
    BY <1>1, <1>2, <1>3, <1>7, <2>1 DEF Mine, Answers, NoPacket, Packet
<1>8. CASE Me.call = "publish" /\ h.type = "PUBREL" /\ Me.qos = 2 /\ h.id \in received
  <2>1. r.type = "PUBCOMP" /\ r.id = h.id /\ Awaited(App) = "PUBCOMP"
    BY <1>8 DEF Replies, Packet, Awaited, Me
  <2> QED
    BY <1>1, <1>2, <1>3, <1>8, <2>1 DEF Mine, Answers, NoPacket, Packet
<1>9. h.type = "PUBLISH" => h.arg # 0
  BY <1>2 DEF Requests
<1>10. Me.qos \in {0, 1, 2}
  BY <1>1 DEF Locals
<1> QED
  BY <1>4, <1>5, <1>6, <1>7, <1>8, <1>9, <1>10 DEF Asks

\* The broker takes the call's request and sends its answer.
LEMMA TokenAnswered ==
  ASSUME Solo, TypeOK, TokenInv, Outside, outq # <<>>, Head(outq) \in Requests, outq' = Tail(outq),
         Head(outq) \in Asks => \E r \in Mine' : inq' = Append(inq, r)
  PROVE  TokenInv'
<1>1. Me' = Me /\ Awaited(App)' = Awaited(App) /\ UNCHANGED <<buf, readbuf>>
  BY OutsideMe
<1>2. outq \in Seq(Packets) /\ inq \in Seq(Packets) /\ Asks \in SUBSET Requests /\ Mine' \in SUBSET Answers
  BY TokenFacts DEF Mine
<1>3. ~ None(outq, Requests)
  BY <1>2, WhenTaken
<1>4. CASE Me.pc \in Waiting /\ Me.call # "yield"
  <2>1. AskSent /\ Me.call # "disconnect"
    BY <1>3, <1>4 DEF TokenInv, AnswerSent, AnswerRead, Nothing
  <2>2. None(outq', Requests) /\ Head(outq) \in Asks
    BY <1>2, <2>1, WhenTaken DEF AskSent
  <2>3. PICK r \in Mine' : inq' = Append(inq, r)
    BY <2>2
  <2>4. r \in Packets
    BY <1>2 DEF Answers
  <2>5. One(inq', Answers, Mine')
    BY <1>2, <2>1, <2>3, <2>4, WhenAppended DEF AskSent
  <2>6. EmptyHand'
    BY <1>1, <2>1 DEF AskSent, EmptyHand
  <2>7. AnswerSent' /\ Me'.pc \notin {"idle", "send"}
    BY <1>1, <1>4, <2>2, <2>5, <2>6 DEF AnswerSent, Waiting, InCycle
  <2> QED
    BY <1>1, <1>4, <2>1, <2>7 DEF TokenInv
<1>5. CASE ~ (Me.pc \in Waiting /\ Me.call # "yield")
  <2>1. Me'.pc \notin {"idle", "send"} /\ Me'.call \notin {"yield", "disconnect"}
    BY <1>1, <1>3 DEF TokenInv, Nothing
  <2> QED
    BY <1>1, <1>5, <2>1 DEF TokenInv
<1> QED
  BY <1>4, <1>5

\* The hands of the call are the same after a step outside.
LEMMA HandsOutside ==
  ASSUME Outside
  PROVE  (EmptyHand => EmptyHand') /\ (InHand => InHand')
<1>1. /\ Me' = Me /\ SameCall /\ received \subseteq received' /\ Awaited(App)' = Awaited(App)
      /\ UNCHANGED <<buf, readbuf>>
  BY OutsideMe
<1>2. Asks \subseteq Asks' /\ Mine \subseteq Mine'
  BY <1>1, SamePackets
<1> QED
  BY <1>1, <1>2 DEF EmptyHand, InHand

\* The broker turns the call's request into its answer, a lost link empties the streams.
LEMMA TokenOutside ==
  ASSUME Solo, TypeOK, TokenInv, Outside
  PROVE  TokenInv'
<1>1. Me' = Me /\ SameCall /\ received \subseteq received' /\ Awaited(App)' = Awaited(App) /\ CallId(App)' = CallId(App)
  BY OutsideMe
<1>2. /\ outq \in Seq(Packets) /\ inq \in Seq(Packets)
      /\ Asks \in SUBSET Requests /\ Mine \in SUBSET Answers
  BY TokenFacts
<1>3. (EmptyHand => EmptyHand') /\ (InHand => InHand')
  BY HandsOutside
<1>4. outq # <<>> => Head(outq) \in Packets
  BY <1>2, InQueueType
\* A packet that is no request leaves the queue.
<1>5. ASSUME outq # <<>>, Head(outq) \notin Requests, outq' = Tail(outq)
      PROVE  /\ None(outq, Requests) => None(outq', Requests)
             /\ One(outq, Requests, Asks) => One(outq', Requests, Asks)
  BY <1>2, <1>5, WhenTaken
\* A packet that is no answer is sent.
<1>6. ASSUME NEW r \in Packets, r \notin Answers, inq' = Append(inq, r)
      PROVE  /\ None(inq, Answers) => None(inq', Answers)
             /\ One(inq, Answers, Mine) => One(inq', Answers, Mine)
  BY <1>2, <1>6, WhenAppended
<1>7. CASE BrokerConnect
  <2>1. outq # <<>> /\ Head(outq).type = "CONNECT" /\ outq' = Tail(outq)
    BY <1>7 DEF BrokerConnect
  <2>2. Head(outq) \in Requests
    BY <1>4, <2>1 DEF Requests
  <2>3. ASSUME Head(outq) \in Asks PROVE \E r \in Mine' : inq' = Append(inq, r)
    <3>1. Me.call = "connect" /\ CallId(App) = 0 /\ Awaited(App) = "CONNACK"
      BY <2>1, <2>3 DEF Asks, CallId, Awaited, Me
    <3>2. Packet("CONNACK", 0, 0) \in Packets /\ Packet("CONNACK", 0, 5) \in Packets
      BY PacketIsPacket, ClientAssumption DEF PacketTypes
    <3>3. Packet("CONNACK", 0, 0) \in Mine' /\ Packet("CONNACK", 0, 5) \in Mine'
      BY <1>1, <3>1, <3>2 DEF Mine, Answers, Packet
    <3> QED
      BY <1>7, <3>3 DEF BrokerConnect
  <2> QED
    BY <2>1, <2>2, <2>3, TokenAnswered
<1>8. CASE BrokerReply
  <2>1. PICK r \in Replies(Head(outq)) : inq' = IF r = NoPacket THEN inq ELSE Append(inq, r)
    BY <1>8 DEF BrokerReply
  <2>2. outq # <<>> /\ outq' = Tail(outq) /\ Head(outq).type # "CONNECT" /\ (link # "up" => link' # "up")
    BY <1>8 DEF BrokerReply, Allowed
  <2>3. r \in Packets /\ (Head(outq) \notin Requests => r \notin Answers)
    BY <1>4, <2>2, RepliesAre
  <2>4. CASE Head(outq) \in Requests
    <3>1. Head(outq).type = "PUBLISH" => Head(outq).id \in received'
      BY <1>8, <2>4 DEF BrokerReply, Requests
    <3>2. Head(outq) \in Asks => r \in Mine' /\ r # NoPacket
      BY <2>2, <3>1, ReplyIsMine
    <3> QED
      BY <2>1, <2>2, <2>4, <3>2, TokenAnswered
  <2>5. CASE Head(outq) \notin Requests
    <3>1. /\ None(inq, Answers) => None(inq', Answers)
          /\ One(inq, Answers, Mine) => One(inq', Answers, Mine)
      BY <1>6, <2>1, <2>3, <2>5
    <3>2. /\ None(outq, Requests) => None(outq', Requests)
          /\ One(outq, Requests, Asks) => One(outq', Requests, Asks)
      BY <1>5, <2>2, <2>5
    <3> QED
      BY <1>1, <1>3, <2>2, <3>1, <3>2, TokenKept
  <2> QED
    BY <2>4, <2>5
<1>9. CASE BrokerReject
  <2>1. outq # <<>> /\ outq' = Tail(outq) /\ inq' = inq /\ link' = "lost"
    BY <1>9 DEF BrokerReject
  <2>2. None(outq, Requests) => None(outq', Requests)
    BY <1>2, <2>1, WhenTaken, Zenon
  <2>3. CASE Head(outq) \notin Requests
    <3>1. One(outq, Requests, Asks) => One(outq', Requests, Asks)
      BY <1>5, <2>1, <2>3
    <3> QED
      BY <1>1, <1>3, <2>1, <2>2, <3>1, TokenKept
  <2>4. CASE Head(outq) \in Requests
    <3>1. One(outq, Requests, Asks) => None(outq', Requests)
      BY <1>2, <2>1, <2>4, WhenTaken
    <3>2. AskSent => Nothing'
      BY <1>3, <2>1, <3>1 DEF AskSent, Nothing
    <3>3. ~ None(outq, Requests)
      BY <1>2, <2>1, <2>4, WhenTaken, Zenon
    <3>4. ~ AnswerSent /\ ~ AnswerRead /\ ~ Nothing
      BY <3>3 DEF AnswerSent, AnswerRead, Nothing
    <3> QED
      BY <1>1, <2>1, <3>2, <3>4 DEF TokenInv
  <2> QED
    BY <2>3, <2>4
<1>10. CASE BrokerPublish
  <2>1. PICK q \in InQos : inq' = Append(inq, Packet("PUBLISH", IF q \in {1, 2} THEN 1 ELSE 0, q))
    BY <1>10 DEF BrokerPublish
  <2> DEFINE p == Packet("PUBLISH", IF q \in {1, 2} THEN 1 ELSE 0, q)
  <2>2. p \in Packets
    BY PacketIsPacket, ClientAssumption DEF PacketTypes
  <2>3. p \notin Answers
    BY DEF Answers, Packet
  <2>4. outq' = outq /\ link' = link
    BY <1>10 DEF BrokerPublish
  <2> HIDE DEF p
  <2>5. /\ None(inq, Answers) => None(inq', Answers)
        /\ One(inq, Answers, Mine) => One(inq', Answers, Mine)
    BY <1>6, <2>1, <2>2, <2>3 DEF p
  <2> QED
    BY <1>1, <1>3, <2>4, <2>5, TokenKept
<1>11. CASE LinkLost \/ Tick \/ UNCHANGED vars
  <2>1. outq' = outq /\ inq' = inq /\ (link # "up" => link' # "up")
    BY <1>11 DEF LinkLost, Tick, vars, net
  <2> QED
    BY <1>1, <1>3, <2>1, TokenKept
<1> QED
  BY <1>7, <1>8, <1>9, <1>10, <1>11 DEF Outside, Broker

-----------------------------------------------------------------------------
\* The theorems

\* Before the first call nothing is under way.
LEMMA TokenInit ==
  ASSUME Solo, Init
  PROVE  ShapeInv /\ TokenInv
<1>1. Me = Idle
  BY DEF Init, Me, Solo
<1>2. \A T : None(outq, T) /\ None(inq, T)
  BY WhenEmpty DEF Init
<1>3. ShapeInv
  BY <1>1 DEF ShapeInv, Idle, Waiting, InCycle
<1>4. TokenInv
  BY <1>1, <1>2 DEF TokenInv, Nothing, EmptyHand, Idle, Waiting, InCycle
<1> QED
  BY <1>3, <1>4

\* The steps, as a thread and the rest of the world take them.
LEMMA SoloStep ==
  ASSUME Solo, [Next]_vars
  PROVE  \/ Connect(App) \/ Subscribe(App) \/ Unsubscribe(App) \/ Publish(App) \/ Disconnect(App) \/ Yield(App)
         \/ SendRequest(App) \/ WaitFor(App) \/ Failed(App) \/ ReadPacket(App) \/ Handle(App)
         \/ SendAck(App) \/ KeepAlive(App) \/ SendPing(App) \/ Decode(App)
         \/ Outside
<1>1. Step(App) \/ Outside
  BY DEF Next, Outside, Solo
<1> QED
  BY <1>1 DEF Step

\* The invariant of the single token is inductive.
LEMMA TokenNext ==
  ASSUME Solo, TypeOK, ShapeInv, TokenInv, [Next]_vars
  PROVE  ShapeInv' /\ TokenInv'
<1>1. CASE Connect(App) \/ Subscribe(App) \/ Unsubscribe(App) \/ Publish(App) \/ Disconnect(App) \/ Yield(App)
  BY <1>1, ShapeCalls, TokenCalls
<1>2. CASE \/ SendRequest(App) \/ WaitFor(App) \/ Failed(App) \/ ReadPacket(App) \/ Handle(App)
           \/ SendAck(App) \/ KeepAlive(App) \/ SendPing(App) \/ Decode(App)
  BY <1>2, ShapeSteps, TokenSteps
<1>3. CASE Outside
  BY <1>3, ShapeOutside, TokenOutside
<1> QED
  BY <1>1, <1>2, <1>3, SoloStep

\* The token invariant holds throughout, with one thread.
LEMMA TokenAlways ==
  ASSUME Solo
  PROVE  Spec => [](TypeOK /\ ShapeInv /\ TokenInv)
<1>1. Init => ShapeInv /\ TokenInv
  BY TokenInit
<1>2. TypeOK /\ ShapeInv /\ TokenInv /\ [Next]_vars => ShapeInv' /\ TokenInv'
  BY TokenNext
<1> QED
  BY <1>1, <1>2, TypeCorrect, PTL DEF Spec

\* What it means for a call that waits and for one that has got its answer.
LEMMA TokenAcksMatch ==
  ASSUME Solo, ShapeInv, TokenInv
  PROVE  AckReachesWaiter /\ AckMatches
<1>1. Threads = {App}
  BY DEF Solo
<1>2. ASSUME Me.pc \in InCycle \cup {"wait"}, Me.call # "yield", link = "up"
      PROVE  \/ InFlight(outq, {"CONNECT", "SUBSCRIBE", "UNSUBSCRIBE", "PUBLISH", "PUBREL"}, CallId(App))
             \/ InFlight(inq, {Awaited(App), "PUBREC"}, CallId(App))
             \/ Me.pc \in InCycle \ {"read"} /\ Me.got \in {Awaited(App), "PUBREC"}
  <2>1. AskSent \/ AnswerSent \/ AnswerRead
    BY <1>2 DEF TokenInv, Waiting
  <2>2. AskSent => InFlight(outq, {"CONNECT", "SUBSCRIBE", "UNSUBSCRIBE", "PUBLISH", "PUBREL"}, CallId(App))
    BY DEF AskSent, One, Asks, InFlight
  <2>3. AnswerSent => InFlight(inq, {Awaited(App), "PUBREC"}, CallId(App))
    BY Zenon DEF AnswerSent, One, Mine, InFlight
  <2>4. AnswerRead => Me.pc \in InCycle \ {"read"} /\ Me.got \in {Awaited(App), "PUBREC"}
    BY <1>2 DEF AnswerRead, InHand, InCycle
  <2> QED
    BY <2>1, <2>2, <2>3, <2>4
<1>3. ASSUME Me.pc = "decode"
      PROVE  /\ readbuf.type = Awaited(App) /\ readbuf.id = CallId(App)
             /\ Me.call = "publish" => Me.id \in received
  <2>1. Me.pc \in Waiting /\ ~ EmptyHand /\ Me.call # "yield"
    BY <1>3 DEF Waiting, EmptyHand, ShapeInv, InCycle
  <2>2. InHand
    BY <2>1 DEF TokenInv, AskSent, AnswerSent, AnswerRead, Nothing
  <2>3. readbuf \in Mine /\ readbuf.type = Awaited(App)
    BY <1>3, <2>2 DEF InHand
  <2>4. Me.call = "publish" => CallId(App) = Me.id
    BY DEF CallId, Me
  <2> QED
    BY <2>3, <2>4 DEF Mine
<1>4. AckReachesWaiter
  BY <1>1, <1>2 DEF AckReachesWaiter, Me
<1>5. AckMatches
  BY <1>1, <1>3 DEF AckMatches, Me
<1> QED
  BY <1>4, <1>5

\* With one thread a call that waits in waitfor on a live connection has its
\* request, its answer or what follows from it under way: nobody else has
\* consumed the packet it waits for.
THEOREM WaiterGetsAck ==
  ASSUME Solo
  PROVE  Spec => []AckReachesWaiter
<1>1. ShapeInv /\ TokenInv => AckReachesWaiter
  BY TokenAcksMatch
<1> QED
  BY <1>1, TokenAlways, PTL

\* With one thread a call takes the acknowledgement of its own request,
\* although MQTTSubscribe, MQTTUnsubscribe and MQTTPublish never compare
\* packet ids, and what MQTTPublish reports as sent has reached the broker.
THEOREM AckIsOwn ==
  ASSUME Solo
  PROVE  Spec => []AckMatches
<1>1. ShapeInv /\ TokenInv => AckMatches
  BY TokenAcksMatch
<1> QED
  BY <1>1, TokenAlways, PTL
=============================================================================
