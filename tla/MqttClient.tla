----------------------------- MODULE MqttClient -----------------------------
(***************************************************************************)
(* The MQTT client library, mqtt/MQTTClient.c, against a broker.  A thread *)
(* is inside one API call at a time; a call is a sequence of steps that    *)
(* end where another thread, the broker, the network or the clock can come *)
(* in between.  One step reads one packet: how bytes make up a packet is   *)
(* left out.  There is no lock: MQTT_TASK is not defined in this build, so *)
(* with more than one thread the calls interleave as they do in            *)
(* mqtt_task.c.  One topic, keep-alive on, clean sessions, as mqtt_task.c  *)
(* uses the library.                                                       *)
(***************************************************************************)
EXTENDS Naturals, Sequences

CONSTANTS
  Threads,
  Calls,           \* thread -> the API calls it makes
  PubQos,          \* values message->qos may have
  InQos,           \* QoS of what the broker sends; or Oversize
  MAX_PACKET_ID,
  MaxOut,          \* packets in flight to the broker before a write blocks
  MaxIn            \* packets in flight from the broker before it stops sending

CallNames == {"connect", "subscribe", "unsubscribe", "publish", "yield", "disconnect"}
PacketId == 1 .. MAX_PACKET_ID
Oversize == 9      \* in place of a QoS: the packet exceeds the read buffer

ASSUME ClientAssumption ==
  /\ Calls \in [Threads -> SUBSET CallNames]
  /\ PubQos \subseteq {0, 1, 2} /\ InQos \subseteq {0, 1, 2, Oversize}
  /\ MAX_PACKET_ID \in Nat \ {0} /\ MaxOut \in Nat \ {0} /\ MaxIn \in Nat \ {0}

\* A packet: its type, its packet id (0: none) and what else matters of it,
\* the return code of CONNACK and SUBACK, the QoS of PUBLISH.
Packet(type, id, arg) == [type |-> type, id |-> id, arg |-> arg]
NoPacket == Packet("none", 0, 0)

\* Between calls: no locals.  got is packet_type of the cycle, id the packet
\* id of the request and qos message->qos.
Idle == [pc |-> "idle", call |-> "none", got |-> "timeout", id |-> 0, qos |-> 0]

VARIABLES
  \* struct MQTTClient
  isconnected, ping_outstanding, next_packetid,
  handler,         \* messageHandlers has the topic
  buf, readbuf,    \* the packet in the send and in the read buffer
  sentExpired,     \* last_sent has expired
  recvExpired,     \* last_received has expired
  th,              \* thread -> where it is and the locals of its call, see Idle
  \* the network and the broker
  link,            \* "none", "up" or "lost"
  outq, inq,       \* packets on their way to and from the broker
  accepted,        \* the broker has accepted the CONNECT of this connection
  subscribed,      \* the broker has the subscription
  received,        \* history: ids of the PUBLISHes the broker has on this connection
  violation        \* history: on this connection it got a packet MQTT does not allow

client == <<isconnected, ping_outstanding, next_packetid, handler>>
bufs == <<buf, readbuf>>
timers == <<sentExpired, recvExpired>>
net == <<link, outq, inq>>
broker == <<accepted, subscribed, received, violation>>
vars == <<client, bufs, timers, th, net, broker>>

Init ==
  /\ isconnected = 0 /\ ping_outstanding = 0 /\ next_packetid = 1 /\ handler = 0
  /\ buf = NoPacket /\ readbuf = NoPacket
  /\ sentExpired = 1 /\ recvExpired = 1
  /\ th = [t \in Threads |-> Idle]
  /\ link = "none" /\ outq = <<>> /\ inq = <<>>
  /\ accepted = 0 /\ subscribed = 0 /\ received = {} /\ violation = 0

-----------------------------------------------------------------------------
\* Helpers

Goto(t, l) == th' = [th EXCEPT ![t] = IF l = "idle" THEN Idle ELSE [@ EXCEPT !.pc = l]]

\* Thread t enters call c at l, with the id and the QoS of its request.
Enter(t, c, l, id, q) ==
  th' = [th EXCEPT ![t] = [Idle EXCEPT !.pc = l, !.call = c, !.id = id, !.qos = q]]

NextPacketIdNoWrap == next_packetid + 1

getNextPacketId == IF next_packetid = MAX_PACKET_ID THEN 1 ELSE next_packetid + 1

\* Without the reset of isconnected.
CloseSessionConnected == ping_outstanding' = 0 /\ handler' = 0 /\ UNCHANGED isconnected

\* MQTTCloseSession; cleansession is set, so MQTTCleanSession follows.
CloseSession == isconnected' = 0 /\ ping_outstanding' = 0 /\ handler' = 0

\* sendPacket: SSL_write takes the whole packet, blocking while the queue is
\* full; it fails on a lost connection, and nothing is sent once the timer
\* has expired.
SendOk == /\ link = "up" /\ Len(outq) < MaxOut
          /\ outq' = Append(outq, buf) /\ sentExpired' = 0
SendFails == UNCHANGED <<outq, sentExpired>>

\* QoS 2 waits for a PUBACK, as QoS 1 does.
AwaitedPuback(t) == CASE th[t].call = "connect" -> "CONNACK"
                      [] th[t].call = "subscribe" -> "SUBACK"
                      [] th[t].call = "unsubscribe" -> "UNSUBACK"
                      [] th[t].call = "publish" /\ th[t].qos # 0 -> "PUBACK"
                      [] OTHER -> "nothing"

\* What a call waits for after its request was sent.
Awaited(t) == CASE th[t].call = "connect" -> "CONNACK"
                [] th[t].call = "subscribe" -> "SUBACK"
                [] th[t].call = "unsubscribe" -> "UNSUBACK"
                [] th[t].call = "publish" /\ th[t].qos = 1 -> "PUBACK"
                [] th[t].call = "publish" /\ th[t].qos = 2 -> "PUBCOMP"
                [] OTHER -> "nothing"

-----------------------------------------------------------------------------
\* The calls

\* mqtt_network_connect succeeds and MQTTClientInit resets the client;
\* MQTTConnect follows.  TimerInit makes a timer that has expired.
Connect(t) ==
  /\ "connect" \in Calls[t] /\ th[t].pc = "idle" /\ isconnected = 0
  /\ link' = "up" /\ outq' = <<>> /\ inq' = <<>>
  /\ accepted' = 0 /\ subscribed' = 0 /\ received' = {} /\ violation' = 0
  /\ isconnected' = 0 /\ ping_outstanding' = 0 /\ next_packetid' = 1 /\ handler' = 0
  /\ sentExpired' = 1 /\ recvExpired' = 0
  /\ buf' = Packet("CONNECT", 0, 0)
  /\ Enter(t, "connect", "send", 0, 0)
  /\ UNCHANGED readbuf

\* The part MQTTSubscribe, MQTTUnsubscribe and MQTTPublish share: on a
\* closed session they fail, otherwise they build their request.
Request(t, c, type, id, q) ==
  /\ c \in Calls[t] /\ th[t].pc = "idle"
  /\ IF isconnected = 0
       THEN Enter(t, c, "failed", 0, 0) /\ UNCHANGED <<next_packetid, buf>>
       ELSE /\ next_packetid' = IF id = 0 THEN next_packetid ELSE id
            /\ buf' = Packet(type, id, q)
            /\ Enter(t, c, "send", id, q)
  /\ UNCHANGED <<isconnected, ping_outstanding, handler, readbuf, timers, net, broker>>

Subscribe(t) == Request(t, "subscribe", "SUBSCRIBE", getNextPacketId, 0)
Unsubscribe(t) == Request(t, "unsubscribe", "UNSUBSCRIBE", getNextPacketId, 0)
Publish(t) == \E q \in PubQos :
  Request(t, "publish", "PUBLISH", IF q = 0 THEN 0 ELSE getNextPacketId, q)

Disconnect(t) ==
  /\ "disconnect" \in Calls[t] /\ th[t].pc = "idle" /\ link # "none"
  /\ buf' = Packet("DISCONNECT", 0, 0) /\ Enter(t, "disconnect", "send", 0, 0)
  /\ UNCHANGED <<client, readbuf, timers, net, broker>>

\* mqtt_sub_task calls MQTTYield on a connected client only.
Yield(t) ==
  /\ "yield" \in Calls[t] /\ th[t].pc = "idle" /\ isconnected = 1
  /\ Enter(t, "yield", "read", 0, 0)
  /\ UNCHANGED <<client, bufs, timers, net, broker>>

\* The request goes out.
SendRequest(t) ==
  /\ th[t].pc = "send"
  /\ \/ SendOk /\ Goto(t, IF th[t].call = "disconnect" THEN "failed"
                         ELSE IF Awaited(t) = "nothing" THEN "idle" ELSE "wait")
     \/ SendFails /\ Goto(t, "failed")
  /\ UNCHANGED <<client, bufs, recvExpired, link, inq, broker>>

\* waitfor: another cycle, unless the command timer has expired.
WaitFor(t) ==
  /\ th[t].pc = "wait"
  /\ Goto(t, "read") \/ Goto(t, "failed")
  /\ UNCHANGED <<client, bufs, timers, net, broker>>

\* On a live session the call returns FAILURE and leaves it open.
FailedStaysOpen(t) ==
  /\ th[t].pc = "failed" /\ Goto(t, "idle")
  /\ IF isconnected = 1 THEN UNCHANGED net ELSE link' = "none" /\ outq' = <<>> /\ inq' = <<>>
  /\ UNCHANGED <<client, bufs, timers, broker>>

\* The session is closed.  On rc == FAILURE the task closes the connection
\* too; MQTTDisconnect always ends here and leaves that to its caller.
Failed(t) ==
  /\ th[t].pc = "failed"
  /\ CloseSession /\ Goto(t, "idle")
  /\ IF th[t].call = "disconnect" THEN UNCHANGED net
       ELSE link' = "none" /\ outq' = <<>> /\ inq' = <<>>
  /\ UNCHANGED <<next_packetid, bufs, timers, broker>>

-----------------------------------------------------------------------------
\* cycle: one packet is read and answered, then keepalive

\* cycle returns the packet type.  MQTTYield goes on until its timer expires,
\* waitfor until it is the awaited type.
CycleReturns(t, type) ==
  IF th[t].call = "yield" THEN Goto(t, "read") \/ Goto(t, "idle")
                       ELSE Goto(t, IF type = Awaited(t) THEN "decode" ELSE "wait")

\* The session stays open.
CycleFailsOpen(t) ==
  /\ UNCHANGED <<isconnected, ping_outstanding, handler>>
  /\ Goto(t, IF th[t].call = "yield" THEN "idle" ELSE "failed")

\* cycle closes the session if there is one and returns a failure.
CycleFails(t) ==
  /\ IF isconnected = 1 THEN CloseSession
                        ELSE UNCHANGED <<isconnected, ping_outstanding, handler>>
  /\ Goto(t, IF th[t].call = "yield" THEN "idle" ELSE "failed")

\* readPacket.  SSL_read blocks until there is data or the connection is
\* gone, whatever the time-out.  A packet that is cut short by the loss of
\* the connection counts as a time-out (0), one that exceeds the buffer as
\* BUFFER_OVERFLOW, a failure to read the first byte as an error.
ReadPacket(t) ==
  /\ th[t].pc = "read"
  /\ \/ /\ inq # <<>> /\ Head(inq).arg # Oversize
        /\ readbuf' = Head(inq) /\ inq' = Tail(inq) /\ recvExpired' = 0
        /\ th' = [th EXCEPT ![t].got = Head(inq).type, ![t].pc = "handle"]
        /\ UNCHANGED client
     \/ /\ inq # <<>> /\ link # "up"
        /\ readbuf' = Packet(Head(inq).type, 0, 0) /\ inq' = <<>>
        /\ th' = [th EXCEPT ![t].got = "timeout", ![t].pc = "keepalive"]
        /\ UNCHANGED <<client, recvExpired>>
     \/ /\ IF inq = <<>> THEN link # "up" /\ UNCHANGED inq
                         ELSE Head(inq).arg = Oversize /\ inq' = Tail(inq)
        /\ CycleFails(t) /\ UNCHANGED <<next_packetid, readbuf, recvExpired>>
  /\ UNCHANGED <<buf, sentExpired, link, outq, broker>>

\* A QoS 2 message is released before it was received.
AckReleases(type, q) == CASE type = "PUBLISH" /\ q = 1 -> "PUBACK"
                          [] type = "PUBLISH" /\ q = 2 -> "PUBREL"
                          [] type = "PUBREC" -> "PUBREL"
                          [] type = "PUBREL" -> "PUBCOMP"
                          [] OTHER -> "none"

\* The acknowledgement cycle sends for a packet, if any.
AckOf(type, q) == CASE type = "PUBLISH" /\ q = 1 -> "PUBACK"
                    [] type = "PUBLISH" /\ q = 2 -> "PUBREC"
                    [] type = "PUBREC" -> "PUBREL"
                    [] type = "PUBREL" -> "PUBCOMP"
                    [] OTHER -> "none"

PingKept(type) == ping_outstanding
PingAfter(type) == IF type = "PINGRESP" THEN 0 ELSE ping_outstanding

\* The switch of cycle.  A PUBLISH is delivered to the handler if there is
\* one and acknowledged as its QoS demands.  The contents come from readbuf,
\* which another thread may have filled since; MQTTDeserialize_publish
\* refuses a packet of another type, and cycle returns at once.
Handle(t) ==
  /\ th[t].pc = "handle"
  /\ LET type == th[t].got
         ack == AckOf(type, readbuf.arg)
     IN /\ ping_outstanding' = PingAfter(type)
        /\ IF type = "PUBLISH" /\ readbuf.type # "PUBLISH"
             THEN CycleReturns(t, type) /\ UNCHANGED buf
             ELSE IF ack = "none"
             THEN Goto(t, "keepalive") /\ UNCHANGED buf
             ELSE Goto(t, "ack") /\ buf' = Packet(ack, readbuf.id, 0)
  /\ UNCHANGED <<isconnected, next_packetid, handler, readbuf, timers, net, broker>>

SendAck(t) ==
  /\ th[t].pc = "ack"
  /\ \/ SendOk /\ Goto(t, "keepalive") /\ UNCHANGED client
     \/ SendFails /\ CycleFails(t) /\ UNCHANGED next_packetid
  /\ UNCHANGED <<bufs, recvExpired, link, inq, broker>>

\* keepalive: with an expired timer, a PINGREQ, or a failure if the last one
\* has not been answered.
KeepAlive(t) ==
  /\ th[t].pc = "keepalive"
  /\ CASE sentExpired = 0 /\ recvExpired = 0 -> CycleReturns(t, th[t].got) /\ UNCHANGED <<client, buf>>
       [] (sentExpired = 1 \/ recvExpired = 1) /\ ping_outstanding = 1 ->
             CycleFails(t) /\ UNCHANGED <<next_packetid, buf>>
       [] OTHER -> buf' = Packet("PINGREQ", 0, 0) /\ Goto(t, "ping") /\ UNCHANGED client
  /\ UNCHANGED <<readbuf, timers, net, broker>>

SendPing(t) ==
  /\ th[t].pc = "ping"
  /\ \/ /\ SendOk /\ ping_outstanding' = 1 /\ CycleReturns(t, th[t].got)
        /\ UNCHANGED <<isconnected, handler>>
     \/ SendFails /\ CycleFails(t)
  /\ UNCHANGED <<next_packetid, bufs, recvExpired, link, inq, broker>>

\* The return code of the CONNACK is not looked at.
ConnackOfAnyCode == readbuf.type = "CONNACK"

\* MQTTDeserialize_connack finds a CONNACK in readbuf, with return code 0.
ConnackAccepted == readbuf.type = "CONNACK" /\ readbuf.arg = 0

\* The awaited packet has come: the call reads its contents from readbuf.
\* A CONNACK must be accepted; of a SUBACK the granted QoS is stored through
\* a signed char, so that it never equals 0x80 and the handler is set.
\* What comes in place of an UNSUBACK or a publish acknowledgement is taken
\* for one.
Decode(t) ==
  /\ th[t].pc = "decode"
  /\ LET ok == th[t].call = "connect" => ConnackAccepted
     IN /\ Goto(t, IF ok THEN "idle" ELSE "failed")
        /\ IF th[t].call = "connect" /\ ok
             THEN isconnected' = 1 /\ ping_outstanding' = 0
             ELSE UNCHANGED <<isconnected, ping_outstanding>>
        /\ handler' = CASE th[t].call = "subscribe" /\ readbuf.type = "SUBACK" -> 1
                        [] th[t].call = "unsubscribe" -> 0
                        [] OTHER -> handler
  /\ UNCHANGED <<next_packetid, bufs, timers, net, broker>>

Step(t) ==
  \/ Connect(t) \/ Subscribe(t) \/ Unsubscribe(t) \/ Publish(t) \/ Disconnect(t)
  \/ Yield(t) \/ SendRequest(t) \/ WaitFor(t) \/ Failed(t) \/ ReadPacket(t)
  \/ Handle(t) \/ SendAck(t) \/ KeepAlive(t) \/ SendPing(t) \/ Decode(t)

-----------------------------------------------------------------------------
\* The broker, the network and the clock

\* What a broker answers a packet of an accepted session with.
Replies(p) ==
  CASE p.type = "SUBSCRIBE" -> {Packet("SUBACK", p.id, 0), Packet("SUBACK", p.id, 128)}
    [] p.type = "UNSUBSCRIBE" -> {Packet("UNSUBACK", p.id, 0)}
    [] p.type = "PUBLISH" /\ p.arg = 1 -> {Packet("PUBACK", p.id, 0)}
    [] p.type = "PUBLISH" /\ p.arg = 2 -> {Packet("PUBREC", p.id, 0)}
    [] p.type = "PUBREC" -> {Packet("PUBREL", p.id, 0)}
    [] p.type = "PUBREL" -> {Packet("PUBCOMP", p.id, 0)}
    [] p.type = "PINGREQ" -> {Packet("PINGRESP", 0, 0)}
    [] OTHER -> {NoPacket}

\* MQTT: CONNECT comes first and once, PUBREL follows the PUBLISH it releases.
Allowed(p) == /\ p.type = "CONNECT" <=> accepted = 0
              /\ p.type = "PUBREL" => p.id \in received

BrokerConnect ==
  /\ link = "up" /\ outq # <<>> /\ Head(outq).type = "CONNECT" /\ accepted = 0
  /\ outq' = Tail(outq)
  /\ \/ accepted' = 1 /\ inq' = Append(inq, Packet("CONNACK", 0, 0)) /\ UNCHANGED link
     \/ inq' = Append(inq, Packet("CONNACK", 0, 5)) /\ link' = "lost" /\ UNCHANGED accepted
  /\ UNCHANGED <<client, bufs, timers, th, subscribed, received, violation>>

BrokerReply ==
  /\ link = "up" /\ outq # <<>> /\ Allowed(Head(outq)) /\ accepted = 1 /\ Len(inq) < MaxIn
  /\ outq' = Tail(outq)
  /\ \E r \in Replies(Head(outq)) :
       /\ inq' = IF r = NoPacket THEN inq ELSE Append(inq, r)
       /\ subscribed' = CASE r.type = "SUBACK" -> IF r.arg # 128 THEN 1 ELSE subscribed
                          [] r.type = "UNSUBACK" -> 0
                          [] OTHER -> subscribed
  /\ received' = IF Head(outq).type = "PUBLISH" /\ Head(outq).arg # 0
                    THEN received \cup {Head(outq).id} ELSE received
  /\ link' = IF Head(outq).type = "DISCONNECT" THEN "lost" ELSE link
  /\ UNCHANGED <<client, bufs, timers, th, accepted, violation>>

BrokerReject ==
  /\ link = "up" /\ outq # <<>> /\ ~Allowed(Head(outq))
  /\ violation' = 1 /\ link' = "lost" /\ outq' = Tail(outq)
  /\ UNCHANGED <<client, bufs, timers, th, inq, accepted, subscribed, received>>

BrokerPublish ==
  /\ link = "up" /\ accepted = 1 /\ subscribed = 1 /\ Len(inq) < MaxIn
  /\ \E q \in InQos : inq' = Append(inq, Packet("PUBLISH", IF q \in {1, 2} THEN 1 ELSE 0, q))
  /\ UNCHANGED <<client, bufs, timers, th, link, outq, broker>>

LinkLost ==
  /\ link = "up" /\ link' = "lost"
  /\ UNCHANGED <<client, bufs, timers, th, outq, inq, broker>>

\* A keep-alive interval passes without a send, or without a receive.
Tick ==
  /\ link = "up"
  /\ \/ sentExpired' = 1 /\ UNCHANGED recvExpired
     \/ recvExpired' = 1 /\ UNCHANGED sentExpired
  /\ UNCHANGED <<client, bufs, th, net, broker>>

Broker == BrokerConnect \/ BrokerReply \/ BrokerReject
Next == (\E t \in Threads : Step(t)) \/ Broker \/ BrokerPublish \/ LinkLost \/ Tick

Spec == Init /\ [][Next]_vars

\* A call that was begun goes on, and mqtt_sub_task calls MQTTYield again and
\* again.  Nothing makes mqtt_pub_task begin a call: it may wait for the PLC
\* for ever.  Nothing is assumed of the broker.
GoesOn(t) == Yield(t) \/ (th[t].pc # "idle" /\ Step(t))
FairSpec == Spec /\ \A t \in Threads : WF_vars(GoesOn(t))

-----------------------------------------------------------------------------
\* Properties

InCycle == {"read", "handle", "ack", "keepalive", "ping"}
PacketTypes == {"none", "CONNECT", "CONNACK", "SUBSCRIBE", "SUBACK", "UNSUBSCRIBE", "UNSUBACK",
                "PUBLISH", "PUBACK", "PUBREC", "PUBREL", "PUBCOMP", "PINGREQ", "PINGRESP",
                "DISCONNECT"}
Packets == [type : PacketTypes, id : 0 .. MAX_PACKET_ID, arg : {0, 1, 2, 5, 128, Oversize}]

\* What the client sends: a PUBLISH of QoS 1 or 2 has a packet id.
OutPackets == {p \in Packets : p.type = "PUBLISH" /\ p.arg # 0 => p.id # 0}

\* The types of the client, of its buffers and of what is in flight; packet
\* ids stay within MAX_PACKET_ID (getNextPacketId wraps to 1, never to 0).
TypeOK ==
  /\ isconnected \in {0, 1} /\ ping_outstanding \in {0, 1} /\ handler \in {0, 1}
  /\ next_packetid \in PacketId
  /\ buf \in OutPackets /\ readbuf \in Packets
  /\ outq \in Seq(OutPackets) /\ inq \in Seq(Packets)
  /\ sentExpired \in {0, 1} /\ recvExpired \in {0, 1}
  /\ th \in [Threads -> [pc : {"idle", "send", "wait", "decode", "failed"} \cup InCycle,
                          call : CallNames \cup {"none"}, got : PacketTypes \cup {"timeout"},
                          id : 0 .. MAX_PACKET_ID, qos : {0, 1, 2}]]
  /\ link \in {"none", "up", "lost"} /\ received \subseteq PacketId
  /\ accepted \in {0, 1} /\ subscribed \in {0, 1} /\ violation \in {0, 1}

\* c->isconnected is set only for a connection whose CONNECT the broker has
\* accepted: MQTTPublish and MQTTSubscribe never use a session the broker
\* does not have, whoever else reads packets meanwhile.
ConnectedMeansAccepted == isconnected = 1 => accepted = 1

\* The broker never gets a packet MQTT forbids at that point: CONNECT first
\* and once, PUBREL only for a PUBLISH it has.
NoProtocolError == violation = 0

InFlight(q, types, id) == \E i \in DOMAIN q : q[i].type \in types /\ q[i].id = id
CallId(t) == IF th[t].call = "connect" THEN 0 ELSE th[t].id

\* While a call waits in waitfor on a live connection, its acknowledgement
\* is still to come: the request, or the answer, is in flight, or this very
\* call is handling the answer.  Otherwise it would wait for a packet that
\* somebody else has consumed.
AckReachesWaiter ==
  \A t \in Threads :
    th[t].pc \in InCycle \cup {"wait"} /\ th[t].call # "yield" /\ link = "up" =>
      \/ InFlight(outq, {"CONNECT", "SUBSCRIBE", "UNSUBSCRIBE", "PUBLISH", "PUBREL"}, CallId(t))
      \/ InFlight(inq, {Awaited(t), "PUBREC"}, CallId(t))
      \/ th[t].pc \in InCycle \ {"read"} /\ th[t].got \in {Awaited(t), "PUBREC"}

\* A call takes no acknowledgement but the one of its own request, although
\* the code never compares packet ids, and a QoS 1 or 2 publication that is
\* reported as sent has reached the broker.
AckMatches ==
  \A t \in Threads : th[t].pc = "decode" =>
    /\ readbuf.type = Awaited(t) /\ readbuf.id = CallId(t)
    /\ th[t].call = "publish" => th[t].id \in received

\* ping_outstanding on a live session means that the PINGREQ or its answer
\* is under way: keepalive never gives up a session whose last ping was
\* answered and read.
PingTracked ==
  ping_outstanding = 1 /\ isconnected = 1 /\ link = "up" =>
    \/ InFlight(outq, {"PINGREQ"}, 0) \/ InFlight(inq, {"PINGRESP"}, 0)
    \/ \E t \in Threads : th[t].pc = "handle" /\ th[t].got = "PINGRESP"

\* deliverMessage finds the handler of every message the broker sends, also
\* of one that comes right behind the SUBACK or ahead of the UNSUBACK.
NoMessageDropped ==
  \A t \in Threads : th[t].pc = "handle" /\ th[t].got = "PUBLISH" => handler = 1

\* A session whose connection is lost is given up: some call fails and
\* mqtt_pub_task can connect again.
LossDetected == (link = "lost") ~> (isconnected = 0)
=============================================================================
