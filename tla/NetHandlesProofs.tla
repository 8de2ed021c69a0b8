-------------------------- MODULE NetHandlesProofs --------------------------
(***************************************************************************)
(* Proofs about the handles of NetHandles, for every size of the           *)
(* descriptor table and every limit on the attempts.                       *)
(***************************************************************************)
EXTENDS NetHandles, TLAPS

USE DEF tls, pub, modbus

\* close() leaves a descriptor table.
LEMMA CloseType == ASSUME fdt \in [FD -> {"free", "std", "plc", "mqtt"}],
                          NEW f, Close(f)
                   PROVE  fdt' \in [FD -> {"free", "std", "plc", "mqtt"}]
  BY DEF Close

\* A task that is going to try to connect, or whose attempt is under way,
\* has an attempt left.
AttempsInv ==
  /\ mbPc \in {"connect", "tcp"} => mbAttemps < MAX_CONN_ATTEMPS
  /\ pubPc # "done" => pubAttemps < MAX_CONN_ATTEMPS

\* Every variable keeps its type under every combination of failures.
THEOREM TypeCorrect == Spec => []TypeOK
<1> DEFINE Inv == TypeOK /\ AttempsInv
<1>1. Init => Inv
  BY HandlesAssumption DEF Init, TypeOK, AttempsInv, Handle, FD, NoFd
<1>2. Inv /\ [Next]_vars => Inv'
  <2> SUFFICES ASSUME Inv, [Next]_vars PROVE Inv'
    OBVIOUS
  <2> USE HandlesAssumption DEF TypeOK, AttempsInv, Handle, CallDisconnect
  <2>1. CASE NetCreateCtx \/ NetLoadCerts
    BY <2>1 DEF NetCreateCtx, NetLoadCerts
  <2>2. CASE NetSocket
    BY <2>2 DEF NetSocket
  <2>3. CASE NetConnect \/ NetNewSsl \/ NetHandshake
    BY <2>3 DEF NetConnect, NetNewSsl, NetHandshake
  <2>4. CASE MqttConnect \/ MqttSubscribe \/ MqttPublish
    BY <2>4 DEF MqttConnect, MqttSubscribe, MqttPublish
  <2>5. CASE PubLoopTest
    BY <2>5 DEF PubLoopTest
  <2>6. CASE NetFreeSsl
    BY <2>6 DEF NetFreeSsl, Freed
  <2>7. CASE NetClose
    BY <2>7, CloseType DEF NetClose
  <2>8. CASE NetFreeCtx
    BY <2>8 DEF NetFreeCtx, Freed
  <2>9. CASE Sub
    BY <2>9 DEF Sub, SubYield, SubReturn
  <2>10. CASE MbSocket
    BY <2>10 DEF MbSocket, MbAttempFailed
  <2>11. CASE MbConnect
    BY <2>11, CloseType DEF MbConnect, MbAttempFailed
  <2>12. CASE MbLoop
    BY <2>12 DEF MbLoop
  <2>13. CASE MbDisconnect
    BY <2>13, CloseType DEF MbDisconnect
  <2>14. CASE UNCHANGED vars
    BY <2>14 DEF vars
  <2> QED
    BY <2>1, <2>2, <2>3, <2>4, <2>5, <2>6, <2>7, <2>8, <2>9, <2>10, <2>11,
       <2>12, <2>13, <2>14 DEF Next, Pub, Modbus
<1> QED
  BY <1>1, <1>2, PTL DEF Spec

-----------------------------------------------------------------------------
\* From the handshake to the end of the session the SSL object is live, and
\* the client counts as connected only in the session.
SslInv ==
  /\ pubPc \in {"handshake", "connack", "suback", "publish", "test"} => ssl = "live"
  /\ isconnected = 1 => pubPc \in {"suback", "publish", "test"}

\* bio_err and ctx are those of the attempt under way.
CtxInv == pubPc \notin {"begin", "done"} => bio_err = "live" /\ ctx # "freed"

\* Under every combination of failures a client that counts as connected has
\* a live SSL object.
THEOREM SessionHasSsl == Spec => []UpMeansSslLive
<1>1. Init => SslInv
  BY DEF Init, SslInv
<1>2. TypeOK /\ SslInv /\ [Next]_vars => SslInv'
  <2> SUFFICES ASSUME TypeOK, SslInv, [Next]_vars PROVE SslInv'
    OBVIOUS
  <2> USE DEF SslInv, CallDisconnect
  <2>1. CASE NetCreateCtx \/ NetLoadCerts \/ NetSocket \/ NetConnect
    BY <2>1 DEF NetCreateCtx, NetLoadCerts, NetSocket, NetConnect
  <2>2. CASE NetNewSsl \/ NetHandshake
    BY <2>2 DEF NetNewSsl, NetHandshake
  <2>3. CASE MqttConnect \/ MqttSubscribe \/ MqttPublish
    BY <2>3 DEF MqttConnect, MqttSubscribe, MqttPublish
  <2>4. CASE PubLoopTest
    BY <2>4 DEF PubLoopTest
  <2>5. CASE NetFreeSsl \/ NetClose \/ NetFreeCtx
    BY <2>5 DEF NetFreeSsl, NetClose, NetFreeCtx
  <2>6. CASE Sub
    BY <2>6 DEF Sub, SubYield, SubReturn
  <2>7. CASE Modbus
    BY <2>7 DEF Modbus, MbSocket, MbConnect, MbLoop, MbDisconnect
  <2>8. CASE UNCHANGED vars
    BY <2>8 DEF vars
  <2> QED
    BY <2>1, <2>2, <2>3, <2>4, <2>5, <2>6, <2>7, <2>8 DEF Next, Pub
<1>3. SslInv => UpMeansSslLive
  BY DEF SslInv, UpMeansSslLive
<1> QED
  BY <1>1, <1>2, <1>3, TypeCorrect, PTL DEF Spec

\* Under every combination of failures mqtt_network_disconnect frees the
\* bio_err and the context of the attempt that failed, and each once.
THEOREM CtxFreedOnce == Spec => []CtxReleasedOnce
<1>1. Init => CtxInv
  BY DEF Init, CtxInv
<1>2. CtxInv /\ [Next]_vars => CtxInv'
  <2> SUFFICES ASSUME CtxInv, [Next]_vars PROVE CtxInv'
    OBVIOUS
  <2> USE DEF CtxInv, CallDisconnect
  <2>1. CASE NetCreateCtx
    BY <2>1 DEF NetCreateCtx
  <2>2. CASE NetLoadCerts \/ NetSocket \/ NetConnect \/ NetNewSsl \/ NetHandshake
    BY <2>2 DEF NetLoadCerts, NetSocket, NetConnect, NetNewSsl, NetHandshake
  <2>3. CASE MqttConnect \/ MqttSubscribe \/ MqttPublish \/ PubLoopTest
    BY <2>3 DEF MqttConnect, MqttSubscribe, MqttPublish, PubLoopTest
  <2>4. CASE NetFreeSsl \/ NetClose
    BY <2>4 DEF NetFreeSsl, NetClose
  <2>5. CASE NetFreeCtx
    BY <2>5 DEF NetFreeCtx
  <2>6. CASE Sub
    BY <2>6 DEF Sub, SubYield, SubReturn
  <2>7. CASE Modbus
    BY <2>7 DEF Modbus, MbSocket, MbConnect, MbLoop, MbDisconnect
  <2>8. CASE UNCHANGED vars
    BY <2>8 DEF vars
  <2> QED
    BY <2>1, <2>2, <2>3, <2>4, <2>5, <2>6, <2>7, <2>8 DEF Next, Pub
<1>3. CtxInv => CtxReleasedOnce
  BY DEF CtxInv, CtxReleasedOnce
<1> QED
  BY <1>1, <1>2, <1>3, PTL DEF Spec

-----------------------------------------------------------------------------
(***************************************************************************)
(* Whose the descriptors are.  Each release is clean under the failures     *)
(* that leave it so, and the assumptions are sharp: a failure that is       *)
(* excluded breaks the property.                                            *)
(***************************************************************************)
Session == {"suback", "publish", "test"}
SslUp == {"handshake", "connack"} \cup Session
SocketOpen == {"tcp", "ssl", "shutdown", "close"} \cup SslUp

\* The only socket of the broker is sockfd, and only while it is in use.
LeakInv ==
  /\ \A f \in FD : fdt[f] = "mqtt" => f = sockfd /\ pubPc \in SocketOpen
  /\ pubPc \in Session => isconnected = 1

\* Unless a session drops late, every step keeps sockfd the broker's only socket.
LEMMA LeakStep == ASSUME "drop" \notin Faults, TypeOK, LeakInv, [Next]_vars
                  PROVE  LeakInv'
<1> USE DEF TypeOK, LeakInv, SocketOpen, SslUp, Session, CallDisconnect
<1>1. CASE NetCreateCtx \/ NetLoadCerts
  BY <1>1 DEF NetCreateCtx, NetLoadCerts
<1>2. CASE NetSocket
  BY <1>2 DEF NetSocket, TableFull
<1>3. CASE NetConnect \/ NetNewSsl \/ NetHandshake
  BY <1>3 DEF NetConnect, NetNewSsl, NetHandshake
<1>4. CASE MqttConnect \/ MqttSubscribe \/ MqttPublish
  BY <1>4 DEF MqttConnect, MqttSubscribe, MqttPublish
<1>5. CASE PubLoopTest \/ NetFreeSsl \/ NetFreeCtx
  BY <1>5 DEF PubLoopTest, NetFreeSsl, NetFreeCtx
<1>6. CASE NetClose
  BY <1>6 DEF NetClose, Close
<1>7. CASE Sub
  BY <1>7 DEF Sub, SubYield, SubReturn
<1>8. CASE MbSocket
  BY <1>8 DEF MbSocket
<1>9. CASE MbConnect \/ MbDisconnect
  BY <1>9 DEF MbConnect, MbDisconnect, Close
<1>10. CASE MbLoop
  BY <1>10 DEF MbLoop
<1>11. CASE UNCHANGED vars
  BY <1>11 DEF vars
<1> QED
  BY <1>1, <1>2, <1>3, <1>4, <1>5, <1>6, <1>7, <1>8, <1>9, <1>10, <1>11
  DEF Next, Pub, Modbus

\* The broker has no socket at start.
LEMMA LeakInit == Init => LeakInv
  BY DEF Init, LeakInv, SocketOpen, SslUp, Session

\* Unless mqtt_sub_task closes a session, every attempt to connect starts
\* with all earlier sockets closed, whatever else fails and whatever else
\* gets closed by mistake.
THEOREM SocketsClosed ==
  ASSUME "drop" \notin Faults
  PROVE  Spec => []NoSocketLeak
<1>1. TypeOK /\ LeakInv /\ [Next]_vars => LeakInv'
  BY LeakStep
<1>2. LeakInv => NoSocketLeak
  BY DEF LeakInv, NoSocketLeak, SocketOpen, SslUp, Session
<1> QED
  BY LeakInit, TypeCorrect, <1>1, <1>2, PTL DEF Spec

-----------------------------------------------------------------------------
\* Nothing fails between the start of an attempt and SSL_new, no session is
\* closed by mqtt_sub_task, and there is room for two sockets.
SslFaults ==
  /\ Faults \cap {"ctx", "certs", "tcp", "drop"} = {}
  /\ MaxFd >= 4

\* At most one descriptor is the PLC's and none above 2 a standard file; an
\* SSL object in use, or to be released, has not been freed.
RoomInv ==
  /\ \A f \in FD : fdt[f] = "std" => f <= 2
  /\ \A f \in FD : fdt[f] = "plc" => f = mbFd
  /\ mbPc = "connect" => \A f \in FD : fdt[f] # "plc"
  /\ pubPc \in SslUp \cup {"shutdown"} => ssl # "freed"

\* mqtt_network_connect never finds the table full.
LEMMA RoomForSocket ==
  ASSUME SslFaults, TypeOK, LeakInv, RoomInv, pubPc = "socket"
  PROVE  ~TableFull
<1>1. 3 \in FD /\ 4 \in FD
  BY HandlesAssumption DEF SslFaults, FD
<1>2. fdt[3] # "std" /\ fdt[4] # "std"
  BY <1>1 DEF RoomInv
<1>3. fdt[3] # "mqtt" /\ fdt[4] # "mqtt"
  BY <1>1 DEF LeakInv, SocketOpen, SslUp, Session
<1>4. ~(fdt[3] = "plc" /\ fdt[4] = "plc")
  BY <1>1 DEF RoomInv
<1> QED
  BY <1>1, <1>2, <1>3, <1>4 DEF TypeOK, TableFull

\* Every step keeps the PLC to one descriptor, and an SSL object in use not freed.
LEMMA RoomStep == ASSUME SslFaults, TypeOK, LeakInv, RoomInv, [Next]_vars
                  PROVE  RoomInv'
<1> USE DEF TypeOK, RoomInv, SslUp, Session, CallDisconnect
<1>1. CASE NetCreateCtx \/ NetLoadCerts
  BY <1>1 DEF NetCreateCtx, NetLoadCerts, SslFaults
<1>2. CASE NetSocket
  BY <1>2, RoomForSocket DEF NetSocket
<1>3. CASE NetConnect \/ NetNewSsl \/ NetHandshake
  BY <1>3 DEF NetConnect, NetNewSsl, NetHandshake, SslFaults
<1>4. CASE MqttConnect \/ MqttSubscribe \/ MqttPublish
  BY <1>4 DEF MqttConnect, MqttSubscribe, MqttPublish
<1>5. CASE PubLoopTest \/ NetFreeSsl \/ NetFreeCtx
  BY <1>5 DEF PubLoopTest, NetFreeSsl, NetFreeCtx
<1>6. CASE NetClose
  BY <1>6 DEF NetClose, Close
<1>7. CASE Sub
  BY <1>7 DEF Sub, SubYield, SubReturn
<1>8. CASE MbSocket
  BY <1>8 DEF MbSocket, MbAttempFailed
<1>9. CASE MbConnect
  BY <1>9 DEF MbConnect, MbAttempFailed, Close
<1>10. CASE MbLoop
  BY <1>10 DEF MbLoop
<1>11. CASE MbDisconnect
  BY <1>11 DEF MbDisconnect, Close
<1>12. CASE UNCHANGED vars
  BY <1>12 DEF vars
<1> QED
  BY <1>1, <1>2, <1>3, <1>4, <1>5, <1>6, <1>7, <1>8, <1>9, <1>10, <1>11, <1>12
  DEF Next, Pub, Modbus

\* If nothing fails before SSL_new, mqtt_network_disconnect never shuts down
\* and frees an SSL object that it has freed before.
THEOREM SslFreedOnce ==
  ASSUME SslFaults
  PROVE  Spec => []SslReleasedOnce
<1>1. TypeOK /\ LeakInv /\ [Next]_vars => LeakInv'
  BY LeakStep DEF SslFaults
<1>2. TypeOK /\ LeakInv /\ RoomInv /\ [Next]_vars => RoomInv'
  BY RoomStep
<1>3. Init => RoomInv
  BY HandlesAssumption DEF Init, RoomInv, FD, SslUp, Session
<1>4. RoomInv => SslReleasedOnce
  BY DEF RoomInv, SslReleasedOnce
<1> QED
  BY LeakInit, TypeCorrect, <1>1, <1>2, <1>3, <1>4, PTL DEF Spec

-----------------------------------------------------------------------------
\* No attempt fails before it has called socket(), and the PLC connection
\* does not end in a way that closes it more than once.
CloseFaults == Faults \cap {"ctx", "certs", "plceof", "plcerr"} = {}

\* A descriptor that a task is going to use or to close is its own.
OwnInv ==
  /\ pubPc \in SocketOpen =>
       \/ sockfd \in FD /\ fdt[sockfd] = "mqtt"
       \/ sockfd = NoFd /\ pubPc \in {"shutdown", "close"}
  /\ mbPc \in {"tcp", "loop", "end"} => mbFd \in FD /\ fdt[mbFd] = "plc"
  /\ mbPc \in {"loop", "end"} => client_connection = mbFd
  /\ mbPc \notin {"eof", "err"}

\* Every step keeps a descriptor in use its task's own.
LEMMA OwnStep == ASSUME CloseFaults, TypeOK, OwnInv, [Next]_vars
                 PROVE  OwnInv'
<1> USE DEF TypeOK, OwnInv, SocketOpen, SslUp, Session, CallDisconnect
<1>1. CASE NetCreateCtx \/ NetLoadCerts
  BY <1>1 DEF NetCreateCtx, NetLoadCerts, CloseFaults
<1>2. CASE NetSocket
  BY <1>2 DEF NetSocket, LowestFree
<1>3. CASE NetConnect \/ NetNewSsl \/ NetHandshake
  BY <1>3 DEF NetConnect, NetNewSsl, NetHandshake
<1>4. CASE MqttConnect \/ MqttSubscribe \/ MqttPublish
  BY <1>4 DEF MqttConnect, MqttSubscribe, MqttPublish
<1>5. CASE PubLoopTest \/ NetFreeSsl \/ NetFreeCtx
  BY <1>5 DEF PubLoopTest, NetFreeSsl, NetFreeCtx
<1>6. CASE NetClose
  BY <1>6 DEF NetClose, Close, FD, NoFd
<1>7. CASE Sub
  BY <1>7 DEF Sub, SubYield, SubReturn
<1>8. CASE MbSocket
  BY <1>8 DEF MbSocket, MbAttempFailed, LowestFree
<1>9. CASE MbConnect
  BY <1>9 DEF MbConnect, MbAttempFailed, Close
<1>10. CASE MbLoop
  BY <1>10 DEF MbLoop, CloseFaults
<1>11. CASE MbDisconnect
  BY <1>11 DEF MbDisconnect, Close
<1>12. CASE UNCHANGED vars
  BY <1>12 DEF vars
<1> QED
  BY <1>1, <1>2, <1>3, <1>4, <1>5, <1>6, <1>7, <1>8, <1>9, <1>10, <1>11, <1>12
  DEF Next, Pub, Modbus

\* A descriptor in use is its task's own, throughout.
LEMMA OwnDescriptors == ASSUME CloseFaults PROVE Spec => []OwnInv
<1>1. TypeOK /\ OwnInv /\ [Next]_vars => OwnInv'
  BY OwnStep
<1>2. Init => OwnInv
  BY DEF Init, OwnInv, SocketOpen, SslUp, Session
<1> QED
  BY TypeCorrect, <1>1, <1>2, PTL DEF Spec

\* mqtt_network_disconnect then closes the broker's socket or nothing, even
\* when sessions leak sockets until the table is full.
THEOREM BrokerSocketClosed ==
  ASSUME CloseFaults
  PROVE  Spec => []BrokerClosesOwn
<1>1. OwnInv => BrokerClosesOwn
  BY DEF OwnInv, BrokerClosesOwn, SocketOpen
<1> QED
  BY <1>1, OwnDescriptors, PTL

\* And disconnect of platform.h closes the PLC's connection.
THEOREM PlcSocketClosed ==
  ASSUME CloseFaults
  PROVE  Spec => []PlcClosesOwn
<1>1. OwnInv => PlcClosesOwn
  BY DEF OwnInv, PlcClosesOwn
<1> QED
  BY <1>1, OwnDescriptors, PTL
=============================================================================
