--------------------------- MODULE MqttSoloProofs ---------------------------
(***************************************************************************)
(* More theorems about MqttClient with one thread, on top of the single    *)
(* token of MqttClientProofs: the broker gets no packet MQTT forbids, no   *)
(* ping is forgotten and no message is dropped.                            *)
(***************************************************************************)
EXTENDS MqttClientProofs

-----------------------------------------------------------------------------
\* The rest of the invariant

\* PUBRELs of publications the broker does not have.
Unreleased == {p \in Packets : p.type = "PUBREL" /\ p.id \notin received}

\* Until the broker has accepted the connection there is the CONNECT at most,
\* and afterwards none; it never gets a packet it must reject.
FreshInv ==
  /\ violation = 0
  /\ link = "up" /\ accepted = 0 =>
        /\ Me.call = "connect" /\ Me.pc \in {"send", "wait", "read", "failed"} /\ inq = <<>>
        /\ Len(outq) \in {0, 1} /\ None(outq, {p \in Packets : p.type # "CONNECT"})
  /\ Me.pc = "send" /\ Me.call = "connect" => accepted = 0 /\ outq = <<>>
  /\ accepted = 1 => None(outq, {p \in Packets : p.type = "CONNECT"})
  /\ None(outq, Unreleased)

Pubs == {p \in Packets : p.type = "PUBLISH"}
Subacks == {p \in Packets : p.type = "SUBACK"}
Unsubacks == {p \in Packets : p.type = "UNSUBACK"}

\* Every packet of q in P comes behind one in S; none does.
After(q, S, P) == \A i \in DOMAIN q : q[i] \in P => \E j \in DOMAIN q : j < i /\ q[j] \in S
NoneBehind(q, S, P) == \A i, j \in DOMAIN q : q[j] \in S /\ j < i => q[i] \notin P

\* The call has read what it waits for.
HasIt == Me.pc \in {"handle", "ack", "keepalive", "ping", "decode"} /\ Me.got = Awaited(App)

\* Messages on their way have a handler or come behind the SUBACK that sets
\* it; behind an UNSUBACK there are none.
MsgInv ==
  /\ Me.call = "connect" /\ Me.pc # "failed" => subscribed = 0 /\ None(inq, Pubs)
  /\ isconnected = 1 /\ Me.pc # "failed" =>
       /\ link = "up" /\ subscribed = 1 =>
            handler = 1 \/ (Me.call = "subscribe" /\ (HasIt \/ ~ None(inq, Subacks)))
       /\ \/ handler = 1 \/ None(inq, Pubs)
          \/ Me.call = "subscribe" /\ (HasIt \/ After(inq, Subacks, Pubs))
  /\ Me.call = "unsubscribe" /\ Me.pc # "failed" =>
       /\ ~ None(inq, Unsubacks) => subscribed = 0 /\ NoneBehind(inq, Unsubacks, Pubs)
       /\ HasIt => subscribed = 0 /\ None(inq, Pubs)
  /\ Me.pc = "handle" /\ Me.got = "PUBLISH" => handler = 1

-----------------------------------------------------------------------------
\* No packet MQTT forbids

\* None of a queue whose head is taken or a packet is appended to.
LEMMA NoneKept ==
  ASSUME NEW q \in Seq(Packets), NEW T
  PROVE  /\ q # <<>> /\ None(q, T) => None(Tail(q), T) /\ Head(q) \notin T
         /\ \A p \in Packets : None(q, T) /\ p \notin T => None(Append(q, p), T)
         /\ \A U : None(q, T) /\ U \subseteq T => None(q, U)
<1>1. T \in SUBSET T
  OBVIOUS
<1>2. q # <<>> /\ None(q, T) => None(Tail(q), T) /\ Head(q) \notin T
  BY <1>1, WhenTaken
<1>3. \A p \in Packets : None(q, T) /\ p \notin T => None(Append(q, p), T)
  BY <1>1, WhenAppended, Zenon
<1>4. \A U : None(q, T) /\ U \subseteq T => None(q, U)
  BY DEF None
<1> QED
  BY <1>2, <1>3, <1>4

Connects == {p \in Packets : p.type = "CONNECT"}

\* A step of the thread on a connection that is accepted or not up.
LEMMA FreshKept ==
  ASSUME FreshInv, violation' = violation, accepted' = accepted, received' = received,
         ~ (link' = "up" /\ accepted' = 0), ~ (Me'.pc = "send" /\ Me'.call = "connect"),
         None(outq, Connects) => None(outq', Connects), None(outq, Unreleased) => None(outq', Unreleased)
  PROVE  FreshInv'
<1>1. Unreleased' = Unreleased
  BY DEF Unreleased
<1> QED
  BY <1>1 DEF FreshInv, Connects

\* The same of a step that sends a packet.
LEMMA FreshSends ==
  ASSUME TypeOK, SendOk, buf.type # "CONNECT", buf \notin Unreleased
  PROVE  /\ None(outq, Connects) => None(outq', Connects)
         /\ None(outq, Unreleased) => None(outq', Unreleased)
<1>1. outq \in Seq(Packets) /\ buf \in Packets /\ outq' = Append(outq, buf)
  BY TokenFacts DEF SendOk
<1>2. buf \notin Connects
  BY DEF Connects
<1> QED
  BY <1>1, <1>2, NoneKept

\* A call starts: MQTTConnect as the first on a new link, the others once it has been accepted.
LEMMA FreshCalls ==
  ASSUME Solo, TypeOK, FreshInv,
         Connect(App) \/ Subscribe(App) \/ Unsubscribe(App) \/ Publish(App) \/ Disconnect(App) \/ Yield(App)
  PROVE  FreshInv'
<1>1. Me.pc = "idle" /\ ~ (link = "up" /\ accepted = 0)
  BY DEF Connect, Subscribe, Unsubscribe, Publish, Disconnect, Yield, Request, Me, FreshInv
<1>2. CASE Connect(App)
  <2>1. Me'.pc = "send" /\ Me'.call = "connect"
    BY <1>2, EnterMe DEF Connect
  <2>2. violation' = 0 /\ accepted' = 0 /\ inq' = <<>> /\ outq' = <<>> /\ Len(outq') = 0
    BY <1>2 DEF Connect
  <2> QED
    BY <2>1, <2>2, WhenEmpty DEF FreshInv
<1>3. ASSUME NEW c \in {"subscribe", "unsubscribe", "publish"}, NEW type, NEW id, NEW q, Request(App, c, type, id, q)
      PROVE  FreshInv'
  <2>1. Me'.call # "connect"
    BY <1>3, EnterMe DEF Request
  <2>2. UNCHANGED <<link, outq, violation, accepted, received>>
    BY <1>3 DEF Request, net, broker
  <2> QED
    BY <1>1, <2>1, <2>2, FreshKept
<1>4. CASE Disconnect(App) \/ Yield(App)
  <2>1. Me'.call # "connect"
    BY <1>4, EnterMe DEF Disconnect, Yield
  <2>2. UNCHANGED <<link, outq, violation, accepted, received>>
    BY <1>4 DEF Disconnect, Yield, net, broker
  <2> QED
    BY <1>1, <2>1, <2>2, FreshKept
<1> QED
  BY <1>2, <1>3, <1>4 DEF Subscribe, Unsubscribe, Publish

\* The CONNECT is sent once and first; no request is a PUBREL.
LEMMA FreshRequest ==
  ASSUME Solo, TypeOK, ShapeInv, FreshInv, SendRequest(App)
  PROVE  FreshInv'
<1>1. Me.pc = "send" /\ UNCHANGED <<link, inq, violation, accepted, received>>
  BY DEF SendRequest, Me, broker
<1>2. /\ \/ SendOk /\ Goto(App, IF Me.call = "disconnect" THEN "failed" ELSE IF Awaited(App) = "nothing" THEN "idle" ELSE "wait")
         \/ SendFails /\ Goto(App, "failed")
  BY Zenon DEF SendRequest, Me
<1>3. Me'.pc \in {"failed", "idle", "wait"} /\ (Me'.pc # "idle" => SameCall)
  BY <1>2, GotoMe DEF Idle
<1>4. buf \in Packets /\ outq \in Seq(Packets)
  BY TokenFacts
<1>5. buf.type # "PUBREL"
  BY <1>1 DEF ShapeInv, Packet
<1>6. Me.call # "connect" => buf.type # "CONNECT"
  <2>1. Me.call # "connect" => \A p \in Asks : p.type # "CONNECT"
    BY DEF Asks
  <2> QED
    BY <1>1, <2>1 DEF ShapeInv, Packet
<1>7. CASE Me.call # "connect"
  <2>1. ~ (link = "up" /\ accepted = 0)
    BY <1>7 DEF FreshInv
  <2>2. buf \notin Unreleased
    BY <1>5 DEF Unreleased
  <2>3. (None(outq, Connects) => None(outq', Connects)) /\ (None(outq, Unreleased) => None(outq', Unreleased))
    BY <1>2, <1>6, <1>7, <2>2, FreshSends DEF SendFails
  <2> QED
    BY <1>1, <1>3, <2>1, <2>3, FreshKept
<1>8. CASE Me.call = "connect"
  <2>1. accepted = 0 /\ outq = <<>> /\ Awaited(App) = "CONNACK"
    BY <1>1, <1>8 DEF FreshInv, Awaited, Me
  <2>2. Me'.pc \in {"wait", "failed"} /\ Me'.call = "connect"
    BY <1>2, <1>8, <2>1, GotoMe DEF SameCall
  <2>3. buf.type = "CONNECT"
    BY <1>1, <1>8, <2>1 DEF ShapeInv, Asks
  <2>4. outq' = <<>> \/ outq' = Append(<<>>, buf)
    BY <1>2, <2>1 DEF SendOk, SendFails
  <2>5. Len(outq') \in {0, 1}
    <3>1. Len(Append(<<>>, buf)) = 1 /\ Len(<<>>) = 0
      OBVIOUS
    <3> QED
      BY ONLY <2>4, <3>1, Zenon
  <2>6. ASSUME NEW T, buf \notin T PROVE None(outq', T)
    <3>1. None(outq, T)
      BY <2>1, WhenEmpty
    <3>2. None(Append(outq, buf), T)
      BY <1>4, <2>6, <3>1, NoneKept
    <3> QED
      BY <2>1, <2>4, <3>1, <3>2
  <2>7. buf \notin {p \in Packets : p.type # "CONNECT"} /\ buf \notin Unreleased'
    BY <2>3 DEF Unreleased
  <2>8. None(outq', {p \in Packets : p.type # "CONNECT"}) /\ None(outq', Unreleased')
    BY <2>6, <2>7
  <2> QED
    BY <1>1, <2>1, <2>2, <2>5, <2>8 DEF FreshInv
<1> QED
  BY <1>7, <1>8

\* No step of a call sends a packet the broker must reject: a PUBREL only follows the PUBREC of its publication.
LEMMA FreshSteps ==
  ASSUME Solo, TypeOK, ShapeInv, TokenInv, FreshInv,
         \/ SendRequest(App) \/ WaitFor(App) \/ Failed(App) \/ ReadPacket(App) \/ Handle(App)
         \/ SendAck(App) \/ KeepAlive(App) \/ SendPing(App) \/ Decode(App)
  PROVE  FreshInv'
<1>1. CASE WaitFor(App)
  <2>1. Me'.pc \in {"read", "failed"} /\ SameCall /\ UNCHANGED <<link, outq, inq, violation, accepted, received>>
    BY <1>1, GotoMe DEF WaitFor, net, broker
  <2>2. Unreleased' = Unreleased
    BY <2>1 DEF Unreleased
  <2> QED
    BY <2>1, <2>2 DEF FreshInv, SameCall
<1>2. CASE Failed(App)
  <2>1. Me'.pc = "idle" /\ UNCHANGED <<violation, accepted, received>>
    BY <1>2, GotoMe DEF Failed, Idle, broker
  <2>2. ~ (link' = "up" /\ accepted' = 0) /\ (outq' = outq \/ outq' = <<>>)
    BY <1>2, <2>1 DEF Failed, FreshInv, Me, net
  <2> QED
    BY <2>1, <2>2, WhenEmpty, FreshKept
<1>3. CASE ReadPacket(App)
  <2>1. /\ Me.pc = "read" /\ UNCHANGED <<link, outq, violation, accepted, received>>
        /\ ~ (link = "up" /\ inq = <<>>)
    BY <1>3 DEF ReadPacket, Me, broker
  <2>2. ~ (link = "up" /\ accepted = 0)
    BY <2>1 DEF FreshInv
  <2>3. Me'.pc # "send"
    <3>1. ASSUME NEW g, NEW l \in {"handle", "keepalive"}, th' = [th EXCEPT ![App].got = g, ![App].pc = l]
          PROVE  Me'.pc = l
      BY <3>1, MeType DEF Me, Locals
    <3>2. CycleFails(App) => Me'.pc # "send"
      BY CycleFailsMe DEF Idle
    <3> QED
      BY <1>3, <3>1, <3>2, Zenon DEF ReadPacket
  <2> QED
    BY <2>1, <2>2, <2>3, FreshKept
<1>4. CASE Handle(App) \/ KeepAlive(App) \/ Decode(App)
  <2>1. Me.pc \in {"handle", "keepalive", "decode"} /\ UNCHANGED <<link, outq, violation, accepted, received>>
    BY <1>4 DEF Handle, KeepAlive, Decode, Me, net, broker
  <2>2. ~ (link = "up" /\ accepted = 0)
    BY <2>1 DEF FreshInv
  <2>3. Me'.pc # "send"
    <3>1. ASSUME NEW l, l # "send", Goto(App, l) PROVE Me'.pc # "send"
      BY <3>1, GotoMe DEF Idle
    <3>2. CycleFails(App) \/ CycleReturns(App, Me.got) => Me'.pc # "send"
      BY CycleFailsMe, CycleReturnsMe DEF Idle
    <3>3. CASE Handle(App)
      BY <3>1, <3>2, <3>3 DEF Handle, Me
    <3>4. CASE KeepAlive(App)
      BY <3>1, <3>2, <3>4 DEF KeepAlive, Me
    <3>5. CASE Decode(App)
      BY <3>1, <3>5 DEF Decode
    <3> QED
      BY <1>4, <3>3, <3>4, <3>5
  <2> QED
    BY <2>1, <2>2, <2>3, FreshKept
<1>5. CASE SendAck(App)
  <2>1. Me.pc = "ack" /\ UNCHANGED <<link, violation, accepted, received>>
    BY <1>5 DEF SendAck, Me, broker
  <2>2. ~ (link = "up" /\ accepted = 0)
    BY <2>1 DEF FreshInv
  <2>3. \/ SendOk /\ Goto(App, "keepalive")
        \/ SendFails /\ CycleFails(App)
    BY <1>5 DEF SendAck
  <2>4. Me'.pc # "send"
    BY <2>3, GotoMe, CycleFailsMe DEF Idle
  <2>5. buf.type # "CONNECT"
    BY <2>1 DEF ShapeInv
  <2>6. buf \notin Unreleased
    <3>1. CASE buf \in Requests
      <4>1. Me.pc \in Waiting /\ ~ EmptyHand
        BY <2>1, <3>1 DEF Waiting, InCycle, EmptyHand
      <4>2. InHand
        BY <4>1 DEF TokenInv, AskSent, AnswerSent, AnswerRead, Nothing
      <4>3. buf \in Asks /\ buf.type = "PUBREL"
        BY <2>1, <4>2 DEF InHand
      <4> QED
        BY <4>3 DEF Asks, Unreleased
    <3>2. CASE buf \notin Requests
      BY <3>2 DEF Requests, Unreleased
    <3> QED
      BY <3>1, <3>2
  <2>7. (None(outq, Connects) => None(outq', Connects)) /\ (None(outq, Unreleased) => None(outq', Unreleased))
    BY <2>3, <2>5, <2>6, FreshSends DEF SendFails
  <2> QED
    BY <2>1, <2>2, <2>4, <2>7, FreshKept
<1>6. CASE SendPing(App)
  <2>1. Me.pc = "ping" /\ UNCHANGED <<link, violation, accepted, received>>
    BY <1>6 DEF SendPing, Me, broker
  <2>2. ~ (link = "up" /\ accepted = 0)
    BY <2>1 DEF FreshInv
  <2>3. \/ SendOk /\ CycleReturns(App, Me.got)
        \/ SendFails /\ CycleFails(App)
    BY <1>6 DEF SendPing, Me
  <2>4. Me'.pc # "send"
    BY <2>3, CycleReturnsMe, CycleFailsMe DEF Idle
  <2>5. buf.type = "PINGREQ"
    BY <2>1 DEF ShapeInv, Packet
  <2>6. (None(outq, Connects) => None(outq', Connects)) /\ (None(outq, Unreleased) => None(outq', Unreleased))
    <3>1. buf.type # "CONNECT" /\ buf \notin Unreleased
      BY <2>5 DEF Unreleased
    <3> QED
      BY <2>3, <3>1, FreshSends DEF SendFails
  <2> QED
    BY <2>1, <2>2, <2>4, <2>6, FreshKept
<1> QED
  BY <1>1, <1>2, <1>3, <1>4, <1>5, <1>6, FreshRequest

\* The broker accepts the CONNECT, and remembers a publication until its PUBREL.
LEMMA FreshOutside ==
  ASSUME Solo, TypeOK, FreshInv, Outside
  PROVE  FreshInv'
<1>1. Me' = Me /\ received \subseteq received'
  BY OutsideMe
<1>2. outq \in Seq(Packets)
  BY TokenFacts
<1>3. Unreleased' \subseteq Unreleased
  BY <1>1 DEF Unreleased
<1>4. outq # <<>> => Head(outq) \in Packets
  BY <1>2, InQueueType
<1>5. outq # <<>> => \A T : None(outq, T) => None(Tail(outq), T) /\ Head(outq) \notin T
  BY <1>2, NoneKept
<1>6. None(outq, Unreleased) => None(outq, Unreleased')
  BY <1>2, <1>3, NoneKept
<1>7. outq # <<>> => (None(outq, Unreleased) => None(Tail(outq), Unreleased'))
  BY <1>5, <1>6
<1>8. CASE BrokerConnect
  <2>1. /\ outq # <<>> /\ link = "up" /\ accepted = 0 /\ violation' = violation /\ outq' = Tail(outq)
    BY <1>8 DEF BrokerConnect
  <2>2. Len(outq) \in {0, 1}
    BY <2>1 DEF FreshInv
  <2>3. outq' = <<>>
    BY <1>2, <2>1, <2>2
  <2>4. accepted' = 1 \/ (accepted' = 0 /\ link' # "up")
    BY <1>8 DEF BrokerConnect
  <2>5. ~ (Me'.pc = "send" /\ Me'.call = "connect") /\ violation' = 0
    BY <1>1, <2>1 DEF FreshInv
  <2>6. \A T : None(outq', T)
    BY <2>3, WhenEmpty
  <2> QED
    BY <2>4, <2>5, <2>6 DEF FreshInv
<1>9. CASE BrokerReply
  <2>1. /\ outq # <<>> /\ link = "up" /\ accepted = 1 /\ violation' = violation /\ outq' = Tail(outq)
        /\ accepted' = accepted
    BY <1>9 DEF BrokerReply
  <2> QED
    BY <1>1, <1>5, <1>7, <2>1 DEF FreshInv
<1>10. CASE BrokerReject
  <2>1. outq # <<>> /\ link = "up" /\ ~ Allowed(Head(outq))
    BY <1>10 DEF BrokerReject
  <2>2. Head(outq).type = "PUBREL" => Head(outq).id \in received
    <3>1. Head(outq) \notin Unreleased
      BY <1>5, <2>1 DEF FreshInv
    <3> QED
      BY <1>4, <2>1, <3>1 DEF Unreleased
  <2>3. Head(outq).type = "CONNECT" <=> accepted = 0
    <3>1. accepted = 0 => Head(outq) \notin {p \in Packets : p.type # "CONNECT"}
      BY <1>5, <2>1 DEF FreshInv
    <3>2. accepted = 1 => Head(outq) \notin {p \in Packets : p.type = "CONNECT"}
      BY <1>5, <2>1 DEF FreshInv
    <3> QED
      BY <1>4, <2>1, <3>1, <3>2 DEF TypeOK
  <2> QED
    BY <2>1, <2>2, <2>3 DEF Allowed
<1>11. CASE BrokerPublish \/ LinkLost \/ Tick \/ UNCHANGED vars
  <2>1. /\ violation' = violation /\ accepted' = accepted /\ outq' = outq
        /\ link' = "up" => link = "up"
        /\ inq' = inq \/ accepted = 1
    BY <1>11 DEF BrokerPublish, LinkLost, Tick, vars, net, broker
  <2> QED
    BY <1>1, <1>6, <2>1 DEF FreshInv
<1> QED
  BY <1>8, <1>9, <1>10, <1>11 DEF Outside, Broker

-----------------------------------------------------------------------------
\* No ping is forgotten

Pings == {p \in Packets : p.type = "PINGREQ" /\ p.id = 0}
Pongs == {p \in Packets : p.type = "PINGRESP" /\ p.id = 0}

PingInv ==
  ping_outstanding = 1 /\ isconnected = 1 /\ link = "up" =>
    \/ ~ None(outq, Pings) \/ ~ None(inq, Pongs)
    \/ Me.pc = "handle" /\ Me.got = "PINGRESP"

\* A packet of T stays in the queue.
LEMMA SomeKept ==
  ASSUME NEW q \in Seq(Packets), NEW T
  PROVE  /\ q # <<>> /\ Head(q) \notin T /\ None(Tail(q), T) => None(q, T)
         /\ \A p \in Packets : None(Append(q, p), T) => None(q, T) /\ p \notin T
<1>1. Len(q) \in Nat /\ DOMAIN q = 1 .. Len(q)
  OBVIOUS
<1>2. ASSUME q # <<>>, Head(q) \notin T, None(Tail(q), T) PROVE None(q, T)
  <2> DEFINE r == Tail(q)
  <2>1. DOMAIN r = 1 .. Len(q) - 1 /\ Head(q) = q[1] /\ \A i \in 1 .. Len(q) - 1 : r[i] = q[i + 1]
    BY <1>2
  <2> HIDE DEF r
  <2>2. ASSUME NEW i \in DOMAIN q, i # 1 PROVE q[i] \notin T
    <3> DEFINE k == i - 1
    <3>1. k \in DOMAIN r /\ i = k + 1 /\ k \in 1 .. Len(q) - 1
      BY <1>1, <2>1, <2>2
    <3> HIDE DEF k
    <3>2. r[k] = q[i] /\ r[k] \notin T
      BY <1>2, <2>1, <3>1 DEF None, r
    <3> QED
      BY <3>2
  <2> QED
    BY <1>2, <2>1, <2>2 DEF None
<1>3. ASSUME NEW p \in Packets, None(Append(q, p), T) PROVE None(q, T) /\ p \notin T
  <2> DEFINE r == Append(q, p)
  <2>1. DOMAIN r = 1 .. Len(q) + 1 /\ r[Len(q) + 1] = p /\ \A i \in 1 .. Len(q) : r[i] = q[i]
    OBVIOUS
  <2> HIDE DEF r
  <2>2. None(r, T)
    BY <1>3 DEF r
  <2>3. Len(q) + 1 \in DOMAIN r /\ \A i \in DOMAIN q : i \in DOMAIN r
    BY <1>1, <2>1
  <2> QED
    BY <1>1, <2>1, <2>2, <2>3 DEF None
<1> QED
  BY <1>2, <1>3

\* A step that takes no ping and no answer to one away keeps track of the ping.
LEMMA PingStays ==
  ASSUME PingInv, ping_outstanding' = 1 => ping_outstanding = 1, isconnected' = 1 => isconnected = 1,
         link' = "up" => link = "up", ~ (Me.pc = "handle" /\ Me.got = "PINGRESP"),
         None(outq', Pings) => None(outq, Pings), None(inq', Pongs) => None(inq, Pongs)
  PROVE  PingInv'
BY DEF PingInv, Pings, Pongs

\* A sent packet stays behind what was sent before.
LEMMA PingSends ==
  ASSUME TypeOK, SendOk
  PROVE  /\ None(outq', Pings) => None(outq, Pings)
         /\ buf = Packet("PINGREQ", 0, 0) => ~ None(outq', Pings)
<1>1. outq \in Seq(Packets) /\ buf \in Packets /\ outq' = Append(outq, buf)
  BY TokenFacts DEF SendOk
<1>2. None(outq', Pings) => None(outq, Pings) /\ buf \notin Pings
  BY <1>1, SomeKept
<1>3. buf = Packet("PINGREQ", 0, 0) => buf \in Pings
  BY <1>1 DEF Pings, Packet
<1> QED
  BY <1>2, <1>3

\* Every step of a call keeps track of the ping: only cycle clears ping_outstanding.
LEMMA PingSteps ==
  ASSUME Solo, TypeOK, ShapeInv, PingInv, Step(App)
  PROVE  PingInv'
<1> USE DEF client, net, broker
<1>1. CycleFails(App) => isconnected' = 0
  BY DEF CycleFails, CloseSession, TypeOK
<1>2. isconnected' = 0 \/ ping_outstanding' = 0 => PingInv'
  BY DEF PingInv
<1>3. CASE Connect(App)
  BY <1>2, <1>3 DEF Connect
<1>4. CASE Subscribe(App) \/ Unsubscribe(App) \/ Publish(App) \/ Disconnect(App) \/ Yield(App) \/ WaitFor(App)
  <2>1. Me.pc # "handle" /\ UNCHANGED <<ping_outstanding, isconnected, link, outq, inq>>
    BY <1>4, Zenon DEF Subscribe, Unsubscribe, Publish, Disconnect, Yield, WaitFor, Request, Me
  <2> QED
    BY <2>1, PingStays
<1>5. CASE SendRequest(App)
  <2>1. /\ Me.pc # "handle" /\ UNCHANGED <<ping_outstanding, isconnected, link, inq>>
        /\ SendOk \/ SendFails
    BY <1>5 DEF SendRequest, Me
  <2>2. None(outq', Pings) => None(outq, Pings)
    BY <2>1, PingSends DEF SendFails
  <2> QED
    BY <2>1, <2>2, PingStays
<1>6. CASE Failed(App)
  BY <1>2, <1>6 DEF Failed, CloseSession
<1>7. CASE ReadPacket(App)
  <2>1. Me.pc = "read" /\ outq' = outq /\ link' = link /\ inq \in Seq(Packets)
    BY <1>7, TokenFacts DEF ReadPacket, Me
  <2>2. CASE CycleFails(App)
    BY <1>1, <1>2, <2>2
  <2>3. CASE link # "up"
    BY <2>1, <2>3 DEF PingInv
  <2>4. CASE /\ inq # <<>> /\ inq' = Tail(inq) /\ UNCHANGED client
             /\ th' = [th EXCEPT ![App].got = Head(inq).type, ![App].pc = "handle"]
    <3>1. Me'.pc = "handle" /\ Me'.got = Head(inq).type
      BY <2>4, MeType DEF Me, Locals
    <3>2. CASE Head(inq).type = "PINGRESP"
      BY <3>1, <3>2 DEF PingInv
    <3>3. CASE Head(inq).type # "PINGRESP"
      <4>1. Head(inq) \notin Pongs
        BY <3>3 DEF Pongs
      <4>2. None(inq', Pongs) => None(inq, Pongs)
        BY <2>1, <2>4, <4>1, SomeKept
      <4> QED
        BY <2>1, <2>4, <4>2, PingStays
    <3> QED
      BY <3>2, <3>3
  <2> QED
    BY <1>7, <2>2, <2>3, <2>4 DEF ReadPacket
<1>8. CASE Handle(App)
  <2>1. /\ UNCHANGED <<isconnected, link, outq, inq>>
        /\ ping_outstanding' = IF Me.got = "PINGRESP" THEN 0 ELSE ping_outstanding
    BY <1>8 DEF Handle, Me, PingAfter
  <2> QED
    BY <1>2, <2>1, PingStays
<1>9. CASE SendAck(App)
  <2>1. Me.pc # "handle" /\ UNCHANGED <<link, inq>> /\ ((SendOk /\ UNCHANGED client) \/ CycleFails(App))
    BY <1>9 DEF SendAck, Me
  <2> QED
    BY <1>1, <1>2, <2>1, PingSends, PingStays
<1>10. CASE KeepAlive(App)
  <2>1. Me.pc # "handle" /\ UNCHANGED <<link, outq, inq>> /\ (UNCHANGED client \/ CycleFails(App))
    BY <1>10 DEF KeepAlive, Me
  <2> QED
    BY <1>1, <1>2, <2>1, PingStays
<1>11. CASE SendPing(App)
  <2>1. buf = Packet("PINGREQ", 0, 0) /\ (SendOk \/ CycleFails(App))
    BY <1>11 DEF SendPing, Me, ShapeInv
  <2>2. SendOk => ~ None(outq', Pings)
    BY <2>1, PingSends
  <2>3. SendOk => PingInv'
    BY <2>2 DEF PingInv, Pings
  <2> QED
    BY <1>1, <1>2, <2>1, <2>3
<1>12. CASE Decode(App)
  <2>1. /\ Me.pc # "handle" /\ UNCHANGED <<link, outq, inq>>
        /\ ping_outstanding' = 0 \/ UNCHANGED <<isconnected, ping_outstanding>>
    BY <1>12 DEF Decode, Me
  <2> QED
    BY <1>2, <2>1, PingStays
<1> QED
  BY <1>3, <1>4, <1>5, <1>6, <1>7, <1>8, <1>9, <1>10, <1>11, <1>12 DEF Step

\* The broker answers a PINGREQ with a PINGRESP; only a lost link drops either.
LEMMA PingOutside ==
  ASSUME Solo, TypeOK, PingInv, Outside
  PROVE  PingInv'
<1>1. Me' = Me /\ UNCHANGED <<isconnected, ping_outstanding>>
  BY OutsideMe
<1>2. outq \in Seq(Packets) /\ inq \in Seq(Packets) /\ (outq # <<>> => Head(outq) \in Packets)
  BY TokenFacts, InQueueType
<1>3. \A p \in Packets : inq' = Append(inq, p) => (None(inq', Pongs) => None(inq, Pongs) /\ p \notin Pongs)
  BY <1>2, SomeKept
<1>4. CASE BrokerConnect
  <2>1. outq # <<>> /\ Head(outq) \notin Pings /\ outq' = Tail(outq) /\ link = "up"
    BY <1>4 DEF BrokerConnect, Pings
  <2>2. None(outq', Pings) => None(outq, Pings)
    BY <1>2, <2>1, SomeKept
  <2>3. Packet("CONNACK", 0, 0) \in Packets /\ Packet("CONNACK", 0, 5) \in Packets
    BY PacketIsPacket, ClientAssumption DEF PacketTypes
  <2>4. None(inq', Pongs) => None(inq, Pongs)
    BY <1>3, <1>4, <2>3 DEF BrokerConnect
  <2> QED
    BY <1>1, <2>1, <2>2, <2>4 DEF PingInv, Pings, Pongs
<1>5. CASE BrokerReply
  <2>1. PICK r \in Replies(Head(outq)) : inq' = IF r = NoPacket THEN inq ELSE Append(inq, r)
    BY <1>5 DEF BrokerReply
  <2>2. outq # <<>> /\ outq' = Tail(outq) /\ link = "up"
    BY <1>5 DEF BrokerReply
  <2>3. r \in Packets
    BY <1>2, <2>2, RepliesAre
  <2>4. None(inq', Pongs) => None(inq, Pongs)
    BY <1>3, <2>1, <2>3
  <2>5. CASE Head(outq) \in Pings
    <3>1. r = Packet("PINGRESP", 0, 0)
      BY <2>5 DEF Pings, Replies
    <3>2. r \in Pongs /\ r # NoPacket
      BY <2>3, <3>1 DEF Pongs, Packet, NoPacket
    <3>3. ~ None(inq', Pongs)
      BY <1>3, <2>1, <2>3, <3>2
    <3> QED
      BY <3>3 DEF PingInv, Pongs
  <2>6. CASE Head(outq) \notin Pings
    <3>1. None(outq', Pings) => None(outq, Pings)
      BY <1>2, <2>2, <2>6, SomeKept
    <3> QED
      BY <1>1, <2>2, <2>4, <3>1 DEF PingInv, Pings, Pongs
  <2> QED
    BY <2>5, <2>6
<1>6. CASE BrokerReject \/ LinkLost
  <2>1. link' = "lost"
    BY <1>6 DEF BrokerReject, LinkLost
  <2> QED
    BY <2>1 DEF PingInv
<1>7. CASE BrokerPublish
  <2>1. PICK q \in InQos : inq' = Append(inq, Packet("PUBLISH", IF q \in {1, 2} THEN 1 ELSE 0, q))
    BY <1>7 DEF BrokerPublish
  <2>2. Packet("PUBLISH", IF q \in {1, 2} THEN 1 ELSE 0, q) \in Packets
    BY PacketIsPacket, ClientAssumption DEF PacketTypes
  <2>3. outq' = outq /\ link' = link /\ (None(inq', Pongs) => None(inq, Pongs))
    BY <1>3, <1>7, <2>1, <2>2 DEF BrokerPublish
  <2> QED
    BY <1>1, <2>3 DEF PingInv, Pings, Pongs
<1>8. CASE Tick \/ UNCHANGED vars
  <2>1. UNCHANGED <<outq, inq, link>>
    BY <1>8 DEF Tick, vars, net
  <2> QED
    BY <1>1, <2>1 DEF PingInv, Pings, Pongs
<1> QED
  BY <1>4, <1>5, <1>6, <1>7, <1>8 DEF Outside, Broker

-----------------------------------------------------------------------------
\* No message is dropped

\* The elements of a queue that lost its head or got a packet.
LEMMA TailIs ==
  ASSUME NEW q \in Seq(Packets), q # <<>>
  PROVE  /\ Head(q) = q[1] /\ 1 \in DOMAIN q
         /\ \A i \in DOMAIN Tail(q) : i \in Nat /\ i > 0 /\ i + 1 \in DOMAIN q /\ Tail(q)[i] = q[i + 1]
         /\ \A i \in DOMAIN q : i \in Nat /\ i > 0 /\ (i # 1 => i - 1 \in DOMAIN Tail(q))
OBVIOUS

\* The elements of a sequence with one more.
LEMMA AppendIs ==
  ASSUME NEW q \in Seq(Packets), NEW p \in Packets
  PROVE  /\ Len(q) \in Nat /\ Append(q, p)[Len(q) + 1] = p
         /\ \A i \in DOMAIN q : i \in DOMAIN Append(q, p) /\ Append(q, p)[i] = q[i] /\ i \in Nat /\ i <= Len(q)
         /\ \A i \in DOMAIN Append(q, p) : i \in Nat /\ (i = Len(q) + 1 \/ i \in DOMAIN q)
OBVIOUS

\* How After fares when a packet arrives or is read.
LEMMA AfterKept ==
  ASSUME NEW q \in Seq(Packets), NEW S, NEW P
  PROVE  /\ None(q, P) => After(q, S, P)
         /\ \A p \in Packets : After(q, S, P) /\ (p \notin P \/ ~ None(q, S)) => After(Append(q, p), S, P)
         /\ q # <<>> /\ After(q, S, P) => Head(q) \notin P /\ (Head(q) \notin S => After(Tail(q), S, P))
<1>1. None(q, P) => After(q, S, P)
  BY DEF None, After
<1>2. ASSUME NEW p \in Packets, After(q, S, P), p \notin P \/ ~ None(q, S)
      PROVE  After(Append(q, p), S, P)
  <2> DEFINE r == Append(q, p)
  <2>1. /\ Len(q) \in Nat /\ r[Len(q) + 1] = p
        /\ \A i \in DOMAIN q : i \in DOMAIN r /\ r[i] = q[i] /\ i \in Nat /\ i <= Len(q)
        /\ \A i \in DOMAIN r : i \in Nat /\ (i = Len(q) + 1 \/ i \in DOMAIN q)
    BY AppendIs
  <2> HIDE DEF r
  <2>2. ASSUME NEW i \in DOMAIN r, r[i] \in P PROVE \E j \in DOMAIN r : j < i /\ r[j] \in S
    <3>1. CASE i \in DOMAIN q
      <4>1. PICK j \in DOMAIN q : j < i /\ q[j] \in S
        BY <1>2, <2>1, <2>2, <3>1 DEF After
      <4> QED
        BY <2>1, <4>1
    <3>2. CASE i = Len(q) + 1
      <4>1. PICK j \in DOMAIN q : q[j] \in S
        BY <1>2, <2>1, <2>2, <3>2 DEF None
      <4>2. j \in DOMAIN r /\ r[j] \in S /\ j < i
        BY <2>1, <3>2, <4>1
      <4> QED
        BY <4>2
    <3> QED
      BY <2>1, <3>1, <3>2
  <2> QED
    BY <2>2 DEF After, r
<1>3. ASSUME q # <<>>, After(q, S, P)
      PROVE  Head(q) \notin P /\ (Head(q) \notin S => After(Tail(q), S, P))
  <2> DEFINE r == Tail(q)
             h == Head(q)
  <2>1. /\ h = q[1] /\ 1 \in DOMAIN q
        /\ \A i \in DOMAIN r : i \in Nat /\ i > 0 /\ i + 1 \in DOMAIN q /\ r[i] = q[i + 1]
        /\ \A i \in DOMAIN q : i \in Nat /\ i > 0 /\ (i # 1 => i - 1 \in DOMAIN r)
    BY <1>3, TailIs
  <2> HIDE DEF r, h
  <2>2. h \notin P
    <3>1. \A j \in DOMAIN q : ~ (j < 1)
      BY <2>1
    <3> QED
      BY <1>3, <2>1, <3>1 DEF After
  <2>3. ASSUME h \notin S, NEW i \in DOMAIN r, r[i] \in P PROVE \E j \in DOMAIN r : j < i /\ r[j] \in S
    <3>1. i + 1 \in DOMAIN q /\ q[i + 1] \in P /\ i \in Nat
      BY <2>1, <2>3
    <3>2. PICK j \in DOMAIN q : j < i + 1 /\ q[j] \in S
      BY <1>3, <3>1 DEF After
    <3>3. j # 1 /\ j \in Nat
      BY <2>1, <2>3, <3>2
    <3> DEFINE k == j - 1
    <3>4. k \in DOMAIN r /\ k + 1 = j /\ k < i
      <4>1. k \in DOMAIN r
        BY <2>1, <3>3
      <4> QED
        BY ONLY <3>1, <3>2, <3>3, <4>1
    <3>5. r[k] \in S
      BY <2>1, <3>2, <3>4
    <3> QED
      BY <3>4, <3>5
  <2> QED
    BY <2>2, <2>3 DEF After, r, h
<1> QED
  BY <1>1, <1>2, <1>3

\* How NoneBehind fares when a packet arrives or is read.
LEMMA BehindKept ==
  ASSUME NEW q \in Seq(Packets), NEW S, NEW P
  PROVE  /\ \A p \in Packets : NoneBehind(q, S, P) /\ p \notin P => NoneBehind(Append(q, p), S, P)
         /\ \A p \in Packets : None(q, S) => NoneBehind(Append(q, p), S, P)
         /\ q # <<>> /\ NoneBehind(q, S, P) => NoneBehind(Tail(q), S, P) /\ (Head(q) \in S => None(Tail(q), P))
<1>1. ASSUME NEW p \in Packets, (NoneBehind(q, S, P) /\ p \notin P) \/ None(q, S)
      PROVE  NoneBehind(Append(q, p), S, P)
  <2> DEFINE r == Append(q, p)
  <2>1. /\ Len(q) \in Nat /\ r[Len(q) + 1] = p
        /\ \A i \in DOMAIN q : i \in DOMAIN r /\ r[i] = q[i] /\ i \in Nat /\ i <= Len(q)
        /\ \A i \in DOMAIN r : i \in Nat /\ (i = Len(q) + 1 \/ i \in DOMAIN q)
    BY AppendIs
  <2> HIDE DEF r
  <2>2. ASSUME NEW i \in DOMAIN r, NEW j \in DOMAIN r, r[j] \in S, j < i PROVE r[i] \notin P
    <3>1. j # Len(q) + 1
      BY <2>1, <2>2
    <3>2. j \in DOMAIN q /\ q[j] \in S
      BY <2>1, <2>2, <3>1
    <3>3. NoneBehind(q, S, P) /\ p \notin P
      BY <1>1, <3>2 DEF None
    <3> QED
      BY <2>1, <2>2, <3>2, <3>3 DEF NoneBehind
  <2> QED
    BY <2>2 DEF NoneBehind, r
<1>2. ASSUME q # <<>>, NoneBehind(q, S, P)
      PROVE  NoneBehind(Tail(q), S, P) /\ (Head(q) \in S => None(Tail(q), P))
  <2> DEFINE r == Tail(q)
             h == Head(q)
  <2>1. /\ h = q[1] /\ 1 \in DOMAIN q
        /\ \A i \in DOMAIN r : i \in Nat /\ i > 0 /\ i + 1 \in DOMAIN q /\ r[i] = q[i + 1]
    BY <1>2, TailIs
  <2> HIDE DEF r, h
  <2>2. ASSUME NEW i \in DOMAIN r, NEW j \in DOMAIN r, r[j] \in S, j < i PROVE r[i] \notin P
    <3>1. i + 1 \in DOMAIN q /\ j + 1 \in DOMAIN q /\ q[j + 1] \in S /\ j + 1 < i + 1 /\ r[i] = q[i + 1]
      BY <2>1, <2>2
    <3> QED
      BY <1>2, <3>1 DEF NoneBehind
  <2>3. ASSUME h \in S, NEW i \in DOMAIN r PROVE r[i] \notin P
    <3>1. i + 1 \in DOMAIN q /\ 1 < i + 1 /\ r[i] = q[i + 1]
      BY <2>1
    <3> QED
      BY <1>2, <2>1, <2>3, <3>1 DEF NoneBehind
  <2> QED
    BY <2>2, <2>3 DEF NoneBehind, None, r, h
<1> QED
  BY <1>1, <1>2

\* The handler is there for what the broker sends, and for what it has sent.
HandlerSet ==
  isconnected = 1 => /\ link = "up" /\ subscribed = 1 => handler = 1
                     /\ handler = 1 \/ None(inq, Pubs)

\* The packets that matter here are different ones.
LEMMA Kinds ==
  ASSUME NEW p
  PROVE  /\ p \in Packets /\ p.type = "PUBLISH" => p \in Pubs
         /\ p \in Packets /\ p.type = "SUBACK" => p \in Subacks
         /\ p \in Packets /\ p.type = "UNSUBACK" => p \in Unsubacks
         /\ p.type # "PUBLISH" => p \notin Pubs
         /\ p.type # "SUBACK" => p \notin Subacks
         /\ p.type # "UNSUBACK" => p \notin Unsubacks
         /\ p \in Subacks \cup Unsubacks => p \in Answers
BY DEF Pubs, Subacks, Unsubacks, Answers

\* The failure exit promises nothing about messages.
LEMMA MsgFailed == Me'.pc = "failed" => MsgInv'
BY DEF MsgInv

\* With the handler set and no answer under way that could change it, no message is lost.
LEMMA MsgPlain ==
  ASSUME HandlerSet', Me'.pc # "handle", Me'.call # "connect",
         Me'.call = "unsubscribe" => None(inq', Unsubacks) /\ ~ HasIt'
  PROVE  MsgInv'
BY DEF MsgInv, HandlerSet, Unsubacks

\* Outside MQTTSubscribe a subscribed topic has its handler.
LEMMA MsgHandler ==
  ASSUME MsgInv, Me.pc # "failed", Me.call # "subscribe"
  PROVE  HandlerSet
BY DEF MsgInv, HandlerSet

\* A step that neither reads nor changes a subscription keeps the invariant.
LEMMA MsgStays ==
  ASSUME MsgInv, SameCall, UNCHANGED <<inq, subscribed, link, handler, isconnected>>, HasIt' <=> HasIt,
         Me.pc # "failed", Me'.pc # "handle"
  PROVE  MsgInv'
BY DEF MsgInv, SameCall, Pubs, Subacks, Unsubacks

\* While the broker may send messages, the handler is set or the SUBACK to come.
LEMMA MsgOwed ==
  ASSUME MsgInv, isconnected = 1, Me.pc # "failed", link = "up", subscribed = 1
  PROVE  /\ handler = 1 \/ (Me.call = "subscribe" /\ (HasIt \/ ~ None(inq, Subacks)))
         /\ handler = 1 \/ None(inq, Pubs) \/ (Me.call = "subscribe" /\ (HasIt \/ After(inq, Subacks, Pubs)))
BY DEF MsgInv

\* Between calls there is none.
LEMMA IdleCall ==
  ASSUME ShapeInv, Me.pc = "idle"
  PROVE  Me.call = "none"
BY DEF ShapeInv, Idle

\* A call starts with the handler set.
LEMMA MsgCalls ==
  ASSUME Solo, TypeOK, ShapeInv, TokenInv, MsgInv,
         Connect(App) \/ Subscribe(App) \/ Unsubscribe(App) \/ Publish(App) \/ Disconnect(App) \/ Yield(App)
  PROVE  MsgInv'
<1>1. Me.pc = "idle" /\ Me.call = "none"
  <2>1. Me.pc = "idle"
    BY DEF Connect, Subscribe, Unsubscribe, Publish, Disconnect, Yield, Request, Me
  <2> QED
    BY <2>1, IdleCall
<1>2. HandlerSet
  BY <1>1, MsgHandler
<1>3. None(inq, Unsubacks)
  <2>1. None(inq, Answers) /\ inq \in Seq(Packets)
    BY <1>1, TokenFacts DEF TokenInv, Nothing
  <2>2. Unsubacks \subseteq Answers
    BY Kinds
  <2> QED
    BY <2>1, <2>2, NoneKept
<1>4. CASE Connect(App)
  <2>1. Me'.pc = "send" /\ Me'.call = "connect"
    BY <1>4, EnterMe, Zenon DEF Connect
  <2>2. subscribed' = 0 /\ inq' = <<>> /\ isconnected' = 0
    BY <1>4, Zenon DEF Connect
  <2> QED
    BY <2>1, <2>2, WhenEmpty DEF MsgInv
<1>5. ASSUME NEW c \in {"subscribe", "unsubscribe", "publish"}, NEW type, NEW id, NEW q, Request(App, c, type, id, q)
      PROVE  MsgInv'
  <2>1. Me'.pc \in {"failed", "send"} /\ Me'.call # "connect"
    BY <1>5, EnterMe DEF Request
  <2>2. UNCHANGED <<link, inq, subscribed, handler, isconnected>>
    BY <1>5 DEF Request, net, broker
  <2>3. HandlerSet' /\ None(inq', Unsubacks) /\ (Me'.pc = "send" => ~ HasIt')
    BY <1>2, <1>3, <2>2 DEF HandlerSet, HasIt, Pubs, Unsubacks
  <2> QED
    BY <2>1, <2>3, MsgPlain, MsgFailed
<1>6. CASE Disconnect(App) \/ Yield(App)
  <2>1. Me'.call \in {"disconnect", "yield"} /\ Me'.pc # "handle"
    BY <1>6, EnterMe DEF Disconnect, Yield
  <2>2. UNCHANGED <<link, inq, subscribed, handler, isconnected>>
    BY <1>6 DEF Disconnect, Yield, net, broker, client
  <2>3. HandlerSet'
    BY <1>2, <2>2 DEF HandlerSet, Pubs
  <2> QED
    BY <2>1, <2>3, MsgPlain
<1> QED
  BY <1>4, <1>5, <1>6 DEF Subscribe, Unsubscribe, Publish

\* A cycle returns or fails.
LEMMA MsgReturns ==
  ASSUME Solo, TypeOK, MsgInv, CycleReturns(App, Me.got), Me.pc \in {"keepalive", "ping"},
         UNCHANGED <<inq, subscribed, link, handler, isconnected>>
  PROVE  MsgInv'
<1>1. CASE Me.call = "yield"
  <2>1. Me'.call \in {"none", "yield"} /\ Me'.pc # "handle"
    BY <1>1, CycleReturnsMe DEF Idle, SameCall
  <2>2. HandlerSet
    BY <1>1, MsgHandler
  <2>3. HandlerSet'
    BY <2>2 DEF HandlerSet, Pubs
  <2> QED
    BY <2>1, <2>3, MsgPlain
<1>2. CASE Me.call # "yield"
  <2>1. SameCall /\ Me'.got = Me.got /\ Me'.pc = (IF Me.got = Awaited(App) THEN "decode" ELSE "wait")
    BY <1>2, CycleReturnsMe
  <2>2. HasIt' <=> HasIt
    BY <2>1, SameAwaited DEF HasIt
  <2> QED
    BY <2>1, <2>2, MsgStays
<1> QED
  BY <1>1, <1>2

\* A cycle that fails closes the session: no message is owed.
LEMMA MsgFails ==
  ASSUME Solo, TypeOK, CycleFails(App)
  PROVE  MsgInv'
<1>1. isconnected' = 0 /\ (Me'.pc = "failed" \/ (Me'.pc = "idle" /\ Me'.call = "none"))
  BY CycleFailsMe DEF Idle
<1>2. HandlerSet'
  BY <1>1 DEF HandlerSet
<1> QED
  BY <1>1, <1>2, MsgPlain, MsgFailed

\* readPacket takes the first packet of the stream: a message only when it comes after the answer.
LEMMA MsgReads ==
  ASSUME Solo, TypeOK, ShapeInv, MsgInv, ReadPacket(App)
  PROVE  MsgInv'
<1>1. Me.pc = "read" /\ Me.pc \in Waiting /\ UNCHANGED <<link, subscribed>> /\ inq \in Seq(Packets) /\ ~ HasIt
  BY TokenFacts DEF ReadPacket, Me, Waiting, InCycle, broker, HasIt
<1>2. ASSUME NEW g, NEW l \in {"handle", "keepalive"}, th' = [th EXCEPT ![App].got = g, ![App].pc = l]
      PROVE  Me'.pc = l /\ Me'.got = g /\ SameCall
  BY <1>2, MeType DEF Me, Locals, SameCall
<1>3. CASE /\ inq # <<>> /\ inq' = Tail(inq) /\ UNCHANGED client
           /\ th' = [th EXCEPT ![App].got = Head(inq).type, ![App].pc = "handle"]
  <2>1. Me'.pc = "handle" /\ Me'.got = Head(inq).type /\ SameCall
    BY <1>2, <1>3, Zenon
  <2> DEFINE h == Head(inq)
  <2>2. UNCHANGED <<handler, isconnected>> /\ Awaited(App)' = Awaited(App) /\ Me'.call = Me.call
    BY <1>3, <2>1, SameAwaited DEF client, SameCall
  <2>3. HasIt' <=> h.type = Awaited(App)
    BY <2>1, <2>2 DEF HasIt
  <2>4. h \in Packets
    BY <1>1, <1>3, InQueueType
  <2>5. \A T : (None(inq, T) => None(inq', T) /\ h \notin T) /\ (h \notin T /\ None(inq', T) => None(inq, T))
    BY <1>1, <1>3, NoneKept, SomeKept
  <2>6. After(inq, Subacks, Pubs) => h \notin Pubs /\ (h \notin Subacks => After(inq', Subacks, Pubs))
    BY <1>1, <1>3, AfterKept
  <2>7. NoneBehind(inq, Unsubacks, Pubs) =>
          NoneBehind(inq', Unsubacks, Pubs) /\ (h \in Unsubacks => None(inq', Pubs))
    BY <1>1, <1>3, BehindKept
  <2> HIDE DEF h
  <2>8. Me.call = "subscribe" /\ h \in Subacks => HasIt'
    BY <2>3 DEF Subacks, Awaited, Me
  <2>9. Me.call = "unsubscribe" /\ HasIt' => h \in Unsubacks
    BY <2>3, <2>4, Kinds DEF Awaited, Me
  <2>10. Me'.call = "connect" => subscribed' = 0 /\ None(inq', Pubs)
    BY <1>1, <2>2, <2>5 DEF MsgInv
  <2>11. isconnected' = 1 =>
           /\ link' = "up" /\ subscribed' = 1 =>
                handler' = 1 \/ (Me'.call = "subscribe" /\ (HasIt' \/ ~ None(inq', Subacks)))
           /\ \/ handler' = 1 \/ None(inq', Pubs)
              \/ Me'.call = "subscribe" /\ (HasIt' \/ After(inq', Subacks, Pubs))
    BY <1>1, <2>1, <2>2, <2>5, <2>6, <2>8, Zenon DEF MsgInv
  <2>12. Me'.call = "unsubscribe" =>
           /\ ~ None(inq', Unsubacks) => subscribed' = 0 /\ NoneBehind(inq', Unsubacks, Pubs)
           /\ HasIt' => subscribed' = 0 /\ None(inq', Pubs)
    BY <1>1, <2>2, <2>5, <2>7, <2>9 DEF MsgInv
  <2>13. ASSUME h.type = "PUBLISH" PROVE handler = 1
    <3>1. h \in Pubs /\ ~ None(inq, Pubs) /\ ~ After(inq, Subacks, Pubs)
      BY <2>4, <2>5, <2>6, <2>13, Kinds
    <3>2. Me.call # "connect"
      BY <1>1, <3>1 DEF MsgInv
    <3>3. Me.call # "disconnect"
      BY <1>1 DEF ShapeInv, Awaited, Me
    <3>4. isconnected = 1
      BY <1>1, <3>2, <3>3 DEF ShapeInv
    <3> QED
      BY <1>1, <3>1, <3>4 DEF MsgInv
  <2> QED
    BY <2>1, <2>2, <2>10, <2>11, <2>12, <2>13 DEF MsgInv, h, Pubs, Subacks, Unsubacks
<1>4. CASE /\ link # "up" /\ inq' = <<>> /\ UNCHANGED client
           /\ th' = [th EXCEPT ![App].got = "timeout", ![App].pc = "keepalive"]
  <2>1. Me'.pc = "keepalive" /\ Me'.got = "timeout" /\ SameCall /\ Me'.call = Me.call
    BY <1>2, <1>4, Zenon DEF SameCall
  <2>2. ~ HasIt'
    BY <2>1, AwaitedIs, SameAwaited DEF HasIt
  <2>3. \A T : None(inq', T)
    BY <1>4, WhenEmpty
  <2> QED
    BY <1>1, <1>4, <2>1, <2>2, <2>3 DEF MsgInv
<1>5. CASE CycleFails(App)
  BY <1>5, MsgFails
<1> QED
  BY <1>3, <1>4, <1>5 DEF ReadPacket

\* MQTTSetMessageHandler runs before any message behind the SUBACK is read.
LEMMA MsgDecodes ==
  ASSUME Solo, TypeOK, ShapeInv, TokenInv, MsgInv, Decode(App)
  PROVE  MsgInv'
<1>1. /\ Me.pc = "decode" /\ Me.pc \in Waiting /\ Me.call # "yield"
      /\ UNCHANGED <<link, inq, subscribed>>
  BY DEF Decode, Me, Waiting, InCycle, ShapeInv, net, broker
<1>2. InHand
  BY <1>1 DEF TokenInv, AskSent, AnswerSent, AnswerRead, Nothing, EmptyHand
<1>3. HasIt /\ readbuf.type = Awaited(App)
  BY <1>1, <1>2 DEF InHand, HasIt
<1>4. Goto(App, "failed") => Me'.pc = "failed"
  BY GotoMe
<1>5. Goto(App, "idle") => Me'.pc # "handle" /\ Me'.call = "none"
  BY GotoMe DEF Idle
<1>6. Goto(App, "failed") \/ (Goto(App, "idle") /\ HandlerSet')
  <2>1. CASE Me.call = "connect"
    <3>1. subscribed' = 0 /\ None(inq', Pubs)
      BY <1>1, <2>1 DEF MsgInv
    <3>2. HandlerSet'
      BY <3>1 DEF HandlerSet, Pubs
    <3> QED
      BY <3>2 DEF Decode
  <2>2. CASE Me.call # "connect"
    <3>1. Goto(App, "idle") /\ UNCHANGED isconnected
      BY <2>2 DEF Decode, Me
    <3>2. CASE Me.call = "subscribe"
      <4>1. readbuf.type = "SUBACK"
        BY <1>3, <3>2 DEF Awaited, Me
      <4>2. handler' = 1
        BY <3>2, <4>1 DEF Decode, Me
      <4> QED
        BY <3>1, <4>2 DEF HandlerSet
    <3>3. CASE Me.call = "unsubscribe"
      <4>1. subscribed' = 0 /\ None(inq', Pubs)
        BY <1>1, <1>3, <3>3 DEF MsgInv
      <4> QED
        BY <3>1, <4>1 DEF HandlerSet, Pubs
    <3>4. CASE Me.call \notin {"subscribe", "unsubscribe"}
      <4>1. handler' = handler
        BY <3>4 DEF Decode, Me
      <4>2. HandlerSet
        BY <1>1, <3>4, MsgHandler
      <4>3. HandlerSet'
        BY <1>1, <3>1, <4>1, <4>2 DEF HandlerSet, Pubs
      <4> QED
        BY <3>1, <4>3
    <3> QED
      BY <3>2, <3>3, <3>4
  <2> QED
    BY <2>1, <2>2
<1> QED
  BY <1>4, <1>5, <1>6, MsgFailed, MsgPlain

\* A step to l that changes nothing here but the place.
LEMMA MsgGoes ==
  ASSUME Solo, TypeOK, MsgInv, NEW l \in {"wait", "read", "ack", "keepalive", "ping"}, Goto(App, l), Me.pc # "failed",
         UNCHANGED <<inq, subscribed, link, handler, isconnected>>,
         l \in {"wait", "read"} => Me.pc \in {"send", "wait"},
         l \notin {"wait", "read"} => Me.pc \in {"handle", "ack", "keepalive"}
  PROVE  MsgInv'
<1>1. Me'.pc = l /\ Me'.got = Me.got /\ SameCall
  BY GotoMe
<1>2. HasIt' <=> HasIt
  BY <1>1, SameAwaited DEF HasIt
<1> QED
  BY <1>1, <1>2, MsgStays

\* A step to the failure exit promises nothing about messages.
LEMMA MsgGoesToFailed ==
  ASSUME Solo, TypeOK, Goto(App, "failed")
  PROVE  MsgInv'
BY GotoMe, MsgFailed

\* sendPacket of a request reads nothing and changes no handler.
LEMMA MsgSends ==
  ASSUME Solo, TypeOK, ShapeInv, MsgInv, SendRequest(App)
  PROVE  MsgInv'
<1> USE DEF client, net, broker
<1>1. Me.pc = "send" /\ UNCHANGED <<inq, subscribed, link, handler, isconnected>>
  BY DEF SendRequest, Me
<1>2. CASE Goto(App, "wait")
  BY <1>1, <1>2, MsgGoes
<1>3. CASE Goto(App, "idle") /\ Awaited(App) = "nothing"
  <2>1. Me.call # "subscribe" /\ Me'.pc = "idle" /\ Me'.call = "none"
    BY <1>3, GotoMe DEF Awaited, Me, Idle
  <2>2. HandlerSet
    BY <1>1, <2>1, MsgHandler
  <2>3. HandlerSet'
    BY <1>1, <2>2 DEF HandlerSet, Pubs
  <2> QED
    BY <2>1, <2>3, MsgPlain
<1> QED
  BY <1>2, <1>3, MsgGoesToFailed DEF SendRequest

\* waitfor reads nothing by itself.
LEMMA MsgWaits ==
  ASSUME Solo, TypeOK, ShapeInv, MsgInv, WaitFor(App)
  PROVE  MsgInv'
<1> USE DEF client, net, broker
<1>1. Me.pc = "wait" /\ UNCHANGED <<inq, subscribed, link, handler, isconnected>>
  BY DEF WaitFor, Me
<1>2. CASE Goto(App, "read")
  BY <1>1, <1>2, MsgGoes
<1> QED
  BY <1>2, MsgGoesToFailed DEF WaitFor

\* MQTTCloseSession leaves isconnected 0, where no message is owed.
LEMMA MsgGivesUp ==
  ASSUME Solo, TypeOK, ShapeInv, MsgInv, Failed(App)
  PROVE  MsgInv'
<1> USE DEF client, net, broker
<1>1. isconnected' = 0 /\ Me'.pc = "idle" /\ Me'.call = "none"
  BY GotoMe DEF Failed, CloseSession, Idle
<1>2. HandlerSet'
  BY <1>1 DEF HandlerSet
<1> QED
  BY <1>1, <1>2, MsgPlain

\* The switch of cycle touches neither the stream nor the handlers.
LEMMA MsgHandles ==
  ASSUME Solo, TypeOK, ShapeInv, MsgInv, Handle(App)
  PROVE  MsgInv'
<1> USE DEF client, net, broker
<1>1. Me.pc = "handle" /\ UNCHANGED <<inq, subscribed, link, handler, isconnected>> /\ readbuf.type = Me.got
  BY Zenon DEF Handle, Me, ShapeInv
<1>2. Goto(App, "keepalive") \/ Goto(App, "ack")
  BY <1>1, Zenon DEF Handle, Me
<1>3. CASE Goto(App, "keepalive")
  BY <1>1, <1>3, MsgGoes
<1>4. CASE Goto(App, "ack")
  BY <1>1, <1>4, MsgGoes
<1> QED
  BY <1>2, <1>3, <1>4

\* The acknowledgement of a received PUBLISH or PUBREL is written, or the session is closed.
LEMMA MsgAcks ==
  ASSUME Solo, TypeOK, ShapeInv, MsgInv, SendAck(App)
  PROVE  MsgInv'
<1> USE DEF client, net, broker
<1>1. Me.pc = "ack" /\ UNCHANGED <<inq, subscribed, link>>
  BY DEF SendAck, Me
<1>2. CASE Goto(App, "keepalive") /\ UNCHANGED client
  BY <1>1, <1>2, MsgGoes
<1> QED
  BY <1>2, MsgFails DEF SendAck

\* keepalive returns, goes on to ping, or closes the session.
LEMMA MsgKeepsAlive ==
  ASSUME Solo, TypeOK, ShapeInv, MsgInv, KeepAlive(App)
  PROVE  MsgInv'
<1> USE DEF client, net, broker
<1>1. Me.pc = "keepalive" /\ UNCHANGED <<inq, subscribed, link>>
  BY DEF KeepAlive, Me
<1>2. CASE Goto(App, "ping") /\ UNCHANGED client
  BY <1>1, <1>2, MsgGoes
<1>3. CASE CycleReturns(App, Me.got) /\ UNCHANGED client
  BY <1>1, <1>3, MsgReturns
<1> QED
  BY <1>2, <1>3, MsgFails DEF KeepAlive, Me

\* The PINGREQ is written, or the session is closed.
LEMMA MsgPings ==
  ASSUME Solo, TypeOK, ShapeInv, MsgInv, SendPing(App)
  PROVE  MsgInv'
<1> USE DEF client, net, broker
<1>1. Me.pc = "ping" /\ UNCHANGED <<inq, subscribed, link>>
  BY DEF SendPing, Me
<1>2. CASE CycleReturns(App, Me.got) /\ UNCHANGED <<isconnected, handler>>
  BY <1>1, <1>2, MsgReturns
<1> QED
  BY <1>2, MsgFails DEF SendPing, Me

\* Every step of a call keeps the invariant.
LEMMA MsgSteps ==
  ASSUME Solo, TypeOK, ShapeInv, TokenInv, MsgInv,
         \/ SendRequest(App) \/ WaitFor(App) \/ Failed(App) \/ ReadPacket(App) \/ Handle(App)
         \/ SendAck(App) \/ KeepAlive(App) \/ SendPing(App) \/ Decode(App)
  PROVE  MsgInv'
BY MsgSends, MsgWaits, MsgGivesUp, MsgReads, MsgHandles, MsgAcks, MsgKeepsAlive, MsgPings, MsgDecodes

\* The broker acknowledges a subscription of the call in progress only.
LEMMA RepliesToCall ==
  ASSUME Solo, TypeOK, TokenInv, outq # <<>>, Me.pc # "failed", NEW r \in Replies(Head(outq))
  PROVE  /\ r.type = "SUBACK" => Me.call = "subscribe"
         /\ r.type = "UNSUBACK" => Me.call = "unsubscribe" /\ None(inq, Answers)
<1>1. outq \in Seq(Packets) /\ Asks \in SUBSET Requests /\ Head(outq) \in Packets
  BY TokenFacts, InQueueType
<1>2. /\ r.type = "SUBACK" => Head(outq).type = "SUBSCRIBE"
      /\ r.type = "UNSUBACK" => Head(outq).type = "UNSUBSCRIBE"
  BY DEF Replies, Packet, NoPacket
<1>3. ASSUME Head(outq).type \in {"SUBSCRIBE", "UNSUBSCRIBE"}
      PROVE  Head(outq) \in Asks /\ None(inq, Answers)
  <2>1. Head(outq) \in Requests
    BY <1>1, <1>3 DEF Requests
  <2>2. ~ None(outq, Requests)
    BY <1>1, <2>1, WhenTaken
  <2>3. Me.pc \in Waiting /\ Me.call # "yield"
    <3>1. Me.pc \notin {"idle", "send"} /\ Me.call # "yield"
      BY <2>2 DEF TokenInv, Nothing
    <3>2. Me.pc \in PC
      BY MeType DEF Locals
    <3> QED
      BY <3>1, <3>2 DEF PC, Waiting
  <2>4. AskSent
    BY <2>2, <2>3 DEF TokenInv, AnswerSent, AnswerRead, Nothing
  <2> QED
    BY <1>1, <2>1, <2>4, WhenTaken DEF AskSent
<1> QED
  BY <1>2, <1>3 DEF Asks

\* The invariant with more packets in inq that are no messages.
LEMMA MsgAppended ==
  ASSUME TypeOK, MsgInv, Me' = Me, UNCHANGED <<isconnected, handler>>, HasIt' <=> HasIt,
         NEW p \in Packets, inq' = Append(inq, p), p.type # "PUBLISH", link' = "up" => link = "up",
         Me.pc # "failed" =>
            /\ p.type = "SUBACK" => Me.call = "subscribe"
            /\ p.type = "UNSUBACK" => Me.call = "unsubscribe" /\ None(inq, Unsubacks),
         subscribed' = 1 => subscribed = 1 \/ p.type = "SUBACK",
         subscribed' # 0 => subscribed' = 1,
         p.type = "UNSUBACK" => subscribed' = 0
  PROVE  MsgInv'
<1>1. inq \in Seq(Packets) /\ subscribed \in {0, 1}
  BY TokenFacts DEF TypeOK
<1>2. p \notin Pubs /\ (p.type = "SUBACK" <=> p \in Subacks) /\ (p.type = "UNSUBACK" <=> p \in Unsubacks)
  BY Kinds
<1>3. \A T : (None(inq, T) /\ p \notin T => None(inq', T)) /\ (None(inq', T) => None(inq, T) /\ p \notin T)
  BY <1>1, NoneKept, SomeKept
<1>4. After(inq, Subacks, Pubs) => After(inq', Subacks, Pubs)
  BY <1>1, <1>2, AfterKept
<1>5. NoneBehind(inq, Unsubacks, Pubs) \/ None(inq, Unsubacks) => NoneBehind(inq', Unsubacks, Pubs)
  BY <1>1, <1>2, BehindKept, Zenon
<1>6. CASE Me.pc = "failed"
  BY <1>6, MsgFailed
<1>7. CASE Me.pc # "failed"
  <2>1. Me'.call = "connect" => subscribed' = 0 /\ None(inq', Pubs)
    BY <1>1, <1>2, <1>3, <1>7 DEF MsgInv
  <2>2. isconnected' = 1 =>
          /\ link' = "up" /\ subscribed' = 1 =>
               handler' = 1 \/ (Me'.call = "subscribe" /\ (HasIt' \/ ~ None(inq', Subacks)))
          /\ \/ handler' = 1 \/ None(inq', Pubs)
             \/ Me'.call = "subscribe" /\ (HasIt' \/ After(inq', Subacks, Pubs))
    BY <1>2, <1>3, <1>4, <1>7 DEF MsgInv
  <2>3. Me'.call = "unsubscribe" =>
          /\ ~ None(inq', Unsubacks) => subscribed' = 0 /\ NoneBehind(inq', Unsubacks, Pubs)
          /\ HasIt' => subscribed' = 0 /\ None(inq', Pubs)
    BY <1>1, <1>2, <1>3, <1>5, <1>7 DEF MsgInv
  <2> QED
    BY <2>1, <2>2, <2>3 DEF MsgInv, Pubs, Subacks, Unsubacks
<1> QED
  BY <1>6, <1>7

\* The broker sends messages only between its SUBACK and its UNSUBACK.
LEMMA MsgOutside ==
  ASSUME Solo, TypeOK, TokenInv, MsgInv, Outside
  PROVE  MsgInv'
<1>1. /\ Me' = Me /\ SameCall /\ UNCHANGED <<isconnected, handler>> /\ Awaited(App)' = Awaited(App)
      /\ HasIt' <=> HasIt
  BY OutsideMe DEF HasIt
<1>2. inq \in Seq(Packets) /\ (outq # <<>> => Head(outq) \in Packets) /\ subscribed \in {0, 1}
  BY TokenFacts, InQueueType DEF TypeOK
\* Nothing is sent.
<1>3. ASSUME inq' = inq, subscribed' = subscribed, link' = "up" => link = "up"
      PROVE  MsgInv'
  BY <1>1, <1>3 DEF MsgInv, Pubs, Subacks, Unsubacks
<1>4. CASE BrokerConnect
  <2>1. Packet("CONNACK", 0, 0) \in Packets /\ Packet("CONNACK", 0, 5) \in Packets
    BY PacketIsPacket, ClientAssumption DEF PacketTypes
  <2>2. PICK p \in Packets : inq' = Append(inq, p) /\ p.type = "CONNACK"
    BY <1>4, <2>1 DEF BrokerConnect, Packet
  <2>3. subscribed' = subscribed /\ link = "up"
    BY <1>4 DEF BrokerConnect
  <2> QED
    BY <1>1, <1>2, <2>2, <2>3, MsgAppended
<1>5. CASE BrokerReply
  <2>1. PICK r \in Replies(Head(outq)) :
          /\ inq' = IF r = NoPacket THEN inq ELSE Append(inq, r)
          /\ subscribed' = CASE r.type = "SUBACK" -> IF r.arg # 128 THEN 1 ELSE subscribed
                             [] r.type = "UNSUBACK" -> 0
                             [] OTHER -> subscribed
    BY <1>5 DEF BrokerReply
  <2>2. outq # <<>> /\ link = "up"
    BY <1>5 DEF BrokerReply
  <2>3. r \in Packets /\ r.type # "PUBLISH"
    BY <1>2, <2>2, RepliesAre
  <2>4. /\ subscribed' = 1 => subscribed = 1 \/ r.type = "SUBACK"
        /\ subscribed' # 0 => subscribed' = 1
        /\ r.type = "UNSUBACK" => subscribed' = 0
        /\ r.type \notin {"SUBACK", "UNSUBACK"} => subscribed' = subscribed
    BY <1>2, <2>1
  <2>5. CASE r = NoPacket
    <3>1. inq' = inq /\ r.type \notin {"SUBACK", "UNSUBACK"}
      BY <2>1, <2>5 DEF NoPacket, Packet
    <3> QED
      BY <1>3, <2>2, <2>4, <3>1
  <2>6. CASE r # NoPacket
    <3>1. None(inq, Answers) => None(inq, Unsubacks)
      <4>1. Unsubacks \subseteq Answers
        BY Kinds
      <4> QED
        BY <1>2, <4>1, NoneKept
    <3>2. Me.pc # "failed" =>
            /\ r.type = "SUBACK" => Me.call = "subscribe"
            /\ r.type = "UNSUBACK" => Me.call = "unsubscribe" /\ None(inq, Unsubacks)
      BY <2>2, <3>1, RepliesToCall
    <3>3. inq' = Append(inq, r)
      BY <2>1, <2>6
    <3> QED
      BY <1>1, <2>2, <2>3, <2>4, <3>2, <3>3, MsgAppended
  <2> QED
    BY <2>5, <2>6
<1>6. CASE BrokerReject
  BY <1>3, <1>6 DEF BrokerReject
<1>7. CASE LinkLost \/ Tick \/ UNCHANGED vars
  <2>1. inq' = inq /\ subscribed' = subscribed /\ (link' = "up" => link = "up")
    BY <1>7 DEF LinkLost, Tick, vars, net, broker
  <2> QED
    BY <1>3, <2>1
<1>8. CASE BrokerPublish
  <2>1. link = "up" /\ link' = "up" /\ subscribed = 1 /\ subscribed' = 1
    BY <1>8 DEF BrokerPublish, broker
  <2>2. \A q \in InQos : Packet("PUBLISH", IF q \in {1, 2} THEN 1 ELSE 0, q) \in Packets
    BY PacketIsPacket, ClientAssumption DEF PacketTypes
  <2>3. PICK p \in Packets : inq' = Append(inq, p) /\ p.type = "PUBLISH"
    BY <1>8, <2>2 DEF BrokerPublish, Packet
  <2>4. \A T : p \notin T => (None(inq', T) <=> None(inq, T))
    BY <1>2, <2>3, NoneKept, SomeKept
  <2>5. p \notin Subacks /\ p \notin Unsubacks
    BY <2>3, Kinds
  <2>6. /\ None(inq, Pubs) => After(inq, Subacks, Pubs)
        /\ After(inq, Subacks, Pubs) /\ ~ None(inq, Subacks) => After(inq', Subacks, Pubs)
    BY <1>2, <2>3, AfterKept
  <2>7. None(inq', Subacks) <=> None(inq, Subacks)
    BY <2>4, <2>5
  <2>8. None(inq', Unsubacks) <=> None(inq, Unsubacks)
    BY <2>4, <2>5
  <2>9. Me.pc # "failed" => Me.call # "connect"
    BY <2>1 DEF MsgInv
  <2>10. Me.pc # "failed" /\ Me.call = "unsubscribe" => None(inq', Unsubacks) /\ ~ HasIt'
    BY <1>1, <2>1, <2>8 DEF MsgInv
  <2>11. isconnected' = 1 /\ Me'.pc # "failed" =>
           /\ handler' = 1 \/ (Me'.call = "subscribe" /\ (HasIt' \/ ~ None(inq', Subacks)))
           /\ \/ handler' = 1
              \/ Me'.call = "subscribe" /\ (HasIt' \/ After(inq', Subacks, Pubs))
    <3> SUFFICES ASSUME isconnected' = 1, Me'.pc # "failed"
                 PROVE  /\ handler = 1 \/ (Me.call = "subscribe" /\ (HasIt \/ ~ None(inq, Subacks)))
                        /\ handler = 1 \/ (Me.call = "subscribe" /\ (HasIt \/ After(inq', Subacks, Pubs)))
      BY <1>1, <2>7
    <3>1. isconnected = 1 /\ Me.pc # "failed"
      BY <1>1
    <3> QED
      BY <2>1, <2>6, <3>1, MsgOwed
  <2>12. Me'.pc = "handle" /\ Me'.got = "PUBLISH" => handler' = 1
    BY <1>1 DEF MsgInv
  <2> QED
    BY <1>1, <2>9, <2>10, <2>11, <2>12 DEF MsgInv, Pubs, Subacks, Unsubacks
<1> QED
  BY <1>4, <1>5, <1>6, <1>7, <1>8 DEF Outside, Broker

-----------------------------------------------------------------------------
\* The theorems

\* The invariants of this module.
SoloInv == FreshInv /\ PingInv /\ MsgInv

\* Before the first call there is nothing to keep.
LEMMA SoloInit ==
  ASSUME Solo, Init
  PROVE  SoloInv
<1>1. Me = Idle
  BY DEF Init, Me, Solo
<1>2. \A T : None(outq, T) /\ None(inq, T)
  BY WhenEmpty DEF Init
<1>3. FreshInv
  BY <1>1, <1>2 DEF FreshInv, Idle, Init
<1>4. PingInv
  BY DEF PingInv, Init
<1>5. MsgInv
  BY <1>1 DEF MsgInv, Idle, Init
<1> QED
  BY <1>3, <1>4, <1>5 DEF SoloInv

\* They are inductive together with those of MqttClientProofs.
LEMMA SoloNext ==
  ASSUME Solo, TypeOK, ShapeInv, TokenInv, SoloInv, [Next]_vars
  PROVE  SoloInv'
<1> USE DEF SoloInv
<1>1. CASE Connect(App) \/ Subscribe(App) \/ Unsubscribe(App) \/ Publish(App) \/ Disconnect(App) \/ Yield(App)
  <2>1. Step(App)
    BY <1>1 DEF Step
  <2> QED
    BY <1>1, <2>1, FreshCalls, PingSteps, MsgCalls
<1>2. CASE \/ SendRequest(App) \/ WaitFor(App) \/ Failed(App) \/ ReadPacket(App) \/ Handle(App)
           \/ SendAck(App) \/ KeepAlive(App) \/ SendPing(App) \/ Decode(App)
  <2>1. Step(App)
    BY <1>2 DEF Step
  <2> QED
    BY <1>2, <2>1, FreshSteps, PingSteps, MsgSteps
<1>3. CASE Outside
  BY <1>3, FreshOutside, PingOutside, MsgOutside
<1> QED
  BY <1>1, <1>2, <1>3, SoloStep

\* What the invariant says of the properties.
LEMMA SoloRest ==
  ASSUME Solo, SoloInv
  PROVE  NoProtocolError /\ PingTracked /\ NoMessageDropped
<1>1. Threads = {App}
  BY DEF Solo
<1>2. NoProtocolError
  BY DEF SoloInv, FreshInv, NoProtocolError
<1>3. ~ None(outq, Pings) => InFlight(outq, {"PINGREQ"}, 0)
  BY DEF None, Pings, InFlight
<1>4. ~ None(inq, Pongs) => InFlight(inq, {"PINGRESP"}, 0)
  BY DEF None, Pongs, InFlight
<1>5. PingTracked
  BY <1>1, <1>3, <1>4 DEF SoloInv, PingInv, PingTracked, Me
<1>6. NoMessageDropped
  BY <1>1 DEF SoloInv, MsgInv, NoMessageDropped, Me
<1> QED
  BY <1>2, <1>5, <1>6

\* The invariant holds throughout, with one thread.
LEMMA SoloAlways ==
  ASSUME Solo
  PROVE  Spec => []SoloInv
<1>1. Init => SoloInv
  BY SoloInit
<1>2. TypeOK /\ ShapeInv /\ TokenInv /\ SoloInv /\ [Next]_vars => SoloInv'
  BY SoloNext
<1> QED
  BY <1>1, <1>2, TokenAlways, PTL DEF Spec

\* With one thread the broker never gets a packet MQTT forbids: CONNECT comes
\* first and once, a PUBREL only for a PUBLISH it has (MQTTConnect, cycle).
THEOREM ProtocolKept ==
  ASSUME Solo
  PROVE  Spec => []NoProtocolError
<1>1. SoloInv => NoProtocolError
  BY SoloRest
<1> QED
  BY <1>1, SoloAlways, PTL

\* With one thread ping_outstanding of a live session means that the PINGREQ
\* or its answer is under way: keepalive gives up no session whose last ping
\* was answered and read.
THEOREM PingIsTracked ==
  ASSUME Solo
  PROVE  Spec => []PingTracked
<1>1. SoloInv => PingTracked
  BY SoloRest
<1> QED
  BY <1>1, SoloAlways, PTL

\* With one thread deliverMessage finds the handler of every message, also of
\* one right behind the SUBACK or ahead of the UNSUBACK.
THEOREM MessagesDelivered ==
  ASSUME Solo
  PROVE  Spec => []NoMessageDropped
<1>1. SoloInv => NoMessageDropped
  BY SoloRest
<1> QED
  BY <1>1, SoloAlways, PTL
=============================================================================
