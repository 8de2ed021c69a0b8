----------------------------- MODULE NetHandles -----------------------------
(***************************************************************************)
(* The handles of the two network connections of the process: the globals  *)
(* bio_err, ctx, ssl and sockfd of mqtt/MQTTInterface.c, which             *)
(* mqtt_pub_task sets up and releases and mqtt_sub_task reads through, and *)
(* client_connection of platform.h, which modbus_task opens and closes.    *)
(* The kernel's table of file descriptors is shared by all of them.        *)
(*                                                                         *)
(* Every call that can fail is a step with the name of its failure in      *)
(* Faults; what the calls exchange with the peers is left out.             *)
(***************************************************************************)
EXTENDS Integers

CONSTANTS
  MaxFd,               \* the descriptors are 0 .. MaxFd (RLIMIT_NOFILE)
  MAX_CONN_ATTEMPS,
  Faults               \* the failures that may happen

FaultNames == {"ctx", "certs", "tcp", "ssl", "handshake",   \* mqtt_network_connect
               "connack", "suback", "publish",              \* the MQTT calls
               "drop",                                      \* MQTTYield closes the session
               "plctcp", "create", "plceof", "plcerr", "plcexc"}   \* modbus_task

FD == 0 .. MaxFd
NoFd == -1

ASSUME HandlesAssumption ==
  /\ MaxFd \in Nat /\ MaxFd >= 2
  /\ MAX_CONN_ATTEMPS \in Nat \ {0}
  /\ Faults \subseteq FaultNames

VARIABLES
  fdt,                 \* descriptor -> who opened it: "free", "std", "plc", "mqtt"
  bio_err, ctx, ssl,   \* "null", "live" or "freed"
  sockfd,
  pubPc,               \* where mqtt_pub_task is
  pubAttemps,
  caller,              \* who called mqtt_network_disconnect
  isconnected,
  subPc,               \* mqtt_sub_task: "idle", or "reading" in SSL_read
  client_connection,
  mbPc,                \* where modbus_task is
  mbAttemps,
  mbFd                 \* fd of connect_tcp

tls == <<bio_err, ctx, ssl>>
pub == <<pubPc, pubAttemps, caller, isconnected>>
modbus == <<client_connection, mbPc, mbAttemps, mbFd>>
vars == <<fdt, tls, sockfd, pub, subPc, modbus>>

Init ==
  /\ fdt = [f \in FD |-> IF f <= 2 THEN "std" ELSE "free"]
  /\ bio_err = "null" /\ ctx = "null" /\ ssl = "null"
  /\ sockfd = 0
  /\ pubPc = "begin" /\ pubAttemps = 0 /\ caller = "connect" /\ isconnected = 0
  /\ subPc = "idle"
  /\ client_connection = NoFd /\ mbPc = "connect" /\ mbAttemps = 0 /\ mbFd = NoFd

-----------------------------------------------------------------------------
\* The kernel: socket() returns the lowest free descriptor, close() frees a
\* descriptor whoever opened it and does nothing to one that is not open.

LowestFree(f) == fdt[f] = "free" /\ \A g \in FD : g < f => fdt[g] # "free"
TableFull == \A f \in FD : fdt[f] # "free"
Close(f) == fdt' = IF f \in FD THEN [fdt EXCEPT ![f] = "free"] ELSE fdt

-----------------------------------------------------------------------------
\* mqtt_network_connect, called by MqttConnectBroker: it returns at the first
\* failure, and the caller runs mqtt_network_disconnect.

CallDisconnect(from) == pubPc' = "shutdown" /\ caller' = from

NetCreateCtxIfNull ==
  /\ pubPc = "begin"
  /\ bio_err' = IF bio_err = "null" THEN "live" ELSE bio_err
  /\ ctx' = IF ctx = "null" THEN "live" ELSE ctx
  /\ pubPc' = "certs"
  /\ UNCHANGED <<fdt, ssl, sockfd, pubAttemps, caller, isconnected, subPc, modbus>>

NetCreateCtx ==
  /\ pubPc = "begin"
  /\ bio_err' = "live"
  /\ \/ ctx' = "live" /\ pubPc' = "certs" /\ UNCHANGED caller
     \/ "ctx" \in Faults /\ ctx' = "null" /\ CallDisconnect("connect")
  /\ UNCHANGED <<fdt, ssl, sockfd, pubAttemps, isconnected, subPc, modbus>>

NetLoadCerts ==
  /\ pubPc = "certs"
  /\ \/ pubPc' = "socket" /\ UNCHANGED caller
     \/ "certs" \in Faults /\ CallDisconnect("connect")
  /\ UNCHANGED <<fdt, tls, sockfd, pubAttemps, isconnected, subPc, modbus>>

NetSocket ==
  /\ pubPc = "socket"
  /\ \/ \E f \in FD : /\ LowestFree(f)
                      /\ fdt' = [fdt EXCEPT ![f] = "mqtt"] /\ sockfd' = f
                      /\ pubPc' = "tcp" /\ UNCHANGED caller
     \/ TableFull /\ sockfd' = NoFd /\ CallDisconnect("connect") /\ UNCHANGED fdt
  /\ UNCHANGED <<tls, pubAttemps, isconnected, subPc, modbus>>

NetConnect ==
  /\ pubPc = "tcp"
  /\ \/ pubPc' = "ssl" /\ UNCHANGED caller
     \/ "tcp" \in Faults /\ CallDisconnect("connect")
  /\ UNCHANGED <<fdt, tls, sockfd, pubAttemps, isconnected, subPc, modbus>>

NetNewSslIfNull ==
  /\ pubPc = "ssl"
  /\ ssl' = IF ssl = "null" THEN "live" ELSE ssl
  /\ pubPc' = "handshake"
  /\ UNCHANGED <<fdt, bio_err, ctx, sockfd, pubAttemps, caller, isconnected, subPc, modbus>>

NetNewSsl ==
  /\ pubPc = "ssl"
  /\ \/ ssl' = "live" /\ pubPc' = "handshake" /\ UNCHANGED caller
     \/ "ssl" \in Faults /\ ssl' = "null" /\ CallDisconnect("connect")
  /\ UNCHANGED <<fdt, bio_err, ctx, sockfd, pubAttemps, isconnected, subPc, modbus>>

NetHandshake ==
  /\ pubPc = "handshake"
  /\ \/ pubPc' = "connack" /\ UNCHANGED caller
     \/ "handshake" \in Faults /\ CallDisconnect("connect")
  /\ UNCHANGED <<fdt, tls, sockfd, pubAttemps, isconnected, subPc, modbus>>

-----------------------------------------------------------------------------
\* The rest of MqttConnectBroker, and the publishing loop.

\* MQTTClientInit and MQTTConnect.
MqttConnect ==
  /\ pubPc = "connack"
  /\ \/ isconnected' = 1 /\ pubPc' = "suback" /\ UNCHANGED caller
     \/ "connack" \in Faults /\ isconnected' = 0 /\ CallDisconnect("connect")
  /\ UNCHANGED <<fdt, tls, sockfd, pubAttemps, subPc, modbus>>

\* MQTTSubscribe: fails too if mqtt_sub_task has closed the session.
MqttSubscribe ==
  /\ pubPc = "suback"
  /\ \/ isconnected = 1 /\ pubPc' = "publish" /\ UNCHANGED <<caller, isconnected>>
     \/ /\ "suback" \in Faults \/ isconnected = 0
        /\ isconnected' = 0 /\ CallDisconnect("connect")
  /\ UNCHANGED <<fdt, tls, sockfd, pubAttemps, subPc, modbus>>

\* MQTTPublish; on failure MQTTCloseSession and mqtt_network_disconnect.
MqttPublishNoClose ==
  /\ pubPc = "publish"
  /\ \/ isconnected = 1 /\ pubPc' = "test" /\ UNCHANGED <<caller, isconnected>>
     \/ /\ "publish" \in Faults \/ isconnected = 0
        /\ CallDisconnect("publish") /\ UNCHANGED isconnected
  /\ UNCHANGED <<fdt, tls, sockfd, pubAttemps, subPc, modbus>>

MqttPublishNoDisconnect ==
  /\ pubPc = "publish"
  /\ \/ isconnected = 1 /\ pubPc' = "test" /\ UNCHANGED isconnected
     \/ /\ "publish" \in Faults \/ isconnected = 0
        /\ isconnected' = 0 /\ pubPc' = "begin"
  /\ UNCHANGED <<fdt, tls, sockfd, pubAttemps, caller, subPc, modbus>>

MqttPublish ==
  /\ pubPc = "publish"
  /\ \/ isconnected = 1 /\ pubPc' = "test" /\ UNCHANGED <<caller, isconnected>>
     \/ /\ "publish" \in Faults \/ isconnected = 0
        /\ isconnected' = 0 /\ CallDisconnect("publish")
  /\ UNCHANGED <<fdt, tls, sockfd, pubAttemps, subPc, modbus>>

\* After the sleep, while (mqttClient.isconnected && !error): a session that
\* mqtt_sub_task closed is left without mqtt_network_disconnect.
PubLoopTest ==
  /\ pubPc = "test"
  /\ IF isconnected = 1 THEN pubPc' = "publish" /\ UNCHANGED pubAttemps
                        ELSE pubPc' = "begin" /\ pubAttemps' = 0
  /\ UNCHANGED <<fdt, tls, sockfd, caller, isconnected, subPc, modbus>>

-----------------------------------------------------------------------------
\* mqtt_network_disconnect, and where its callers go on.

\* SSL_shutdown and SSL_free do nothing to a null pointer.
Freed(h) == IF h = "null" THEN "null" ELSE "freed"

NetFreeSslAndFd ==
  /\ pubPc = "shutdown"
  /\ ssl' = Freed(ssl) /\ Close(sockfd) /\ pubPc' = "close"
  /\ UNCHANGED <<bio_err, ctx, sockfd, pubAttemps, caller, isconnected, subPc, modbus>>

NetFreeSsl ==
  /\ pubPc = "shutdown"
  /\ ssl' = Freed(ssl) /\ pubPc' = "close"
  /\ UNCHANGED <<fdt, bio_err, ctx, sockfd, pubAttemps, caller, isconnected, subPc, modbus>>

NetClose ==
  /\ pubPc = "close"
  /\ Close(sockfd) /\ pubPc' = "free"
  /\ UNCHANGED <<tls, sockfd, pubAttemps, caller, isconnected, subPc, modbus>>

NetFreeCtxOneMore ==
  /\ pubPc = "free"
  /\ bio_err' = Freed(bio_err) /\ ctx' = Freed(ctx)
  /\ pubAttemps' = IF caller = "connect" THEN pubAttemps + 1 ELSE 0
  /\ pubPc' = IF pubAttemps' <= MAX_CONN_ATTEMPS THEN "begin" ELSE "done"
  /\ UNCHANGED <<fdt, ssl, sockfd, caller, isconnected, subPc, modbus>>

NetFreeCtx ==
  /\ pubPc = "free"
  /\ bio_err' = Freed(bio_err) /\ ctx' = Freed(ctx)
  /\ IF caller = "connect"
       THEN /\ pubAttemps' = pubAttemps + 1
            /\ pubPc' = IF pubAttemps' < MAX_CONN_ATTEMPS THEN "begin" ELSE "done"
       ELSE pubAttemps' = 0 /\ pubPc' = "begin"
  /\ UNCHANGED <<fdt, ssl, sockfd, caller, isconnected, subPc, modbus>>

Pub == \/ NetCreateCtx \/ NetLoadCerts \/ NetSocket \/ NetConnect \/ NetNewSsl
       \/ NetHandshake \/ MqttConnect \/ MqttSubscribe \/ MqttPublish
       \/ PubLoopTest \/ NetFreeSsl \/ NetClose \/ NetFreeCtx

-----------------------------------------------------------------------------
\* mqtt_sub_task: MQTTYield calls SSL_read through the global ssl.

SubYield ==
  /\ subPc = "idle" /\ isconnected = 1
  /\ subPc' = "reading"
  /\ UNCHANGED <<fdt, tls, sockfd, pub, modbus>>

SubReturn ==
  /\ subPc = "reading"
  /\ \/ subPc' = "idle" /\ UNCHANGED isconnected
     \/ "drop" \in Faults /\ isconnected' = 0 /\ subPc' \in {"idle", "reading"}
  /\ UNCHANGED <<fdt, tls, sockfd, pubPc, pubAttemps, caller, modbus>>

Sub == SubYield \/ SubReturn

-----------------------------------------------------------------------------
\* modbus_task

MbAttempFailed ==
  /\ mbAttemps' = mbAttemps + 1
  /\ mbPc' = IF mbAttemps' < MAX_CONN_ATTEMPS THEN "connect" ELSE "done"

\* getaddrinfo and socket() of connect_tcp
MbSocket ==
  /\ mbPc = "connect"
  /\ \/ \E f \in FD : /\ LowestFree(f)
                      /\ fdt' = [fdt EXCEPT ![f] = "plc"] /\ mbFd' = f
                      /\ mbPc' = "tcp" /\ UNCHANGED mbAttemps
     \/ /\ TableFull \/ "plctcp" \in Faults
        /\ MbAttempFailed /\ UNCHANGED <<fdt, mbFd>>
  /\ UNCHANGED <<tls, sockfd, pub, subPc, client_connection>>

\* connect() of connect_tcp
MbConnect ==
  /\ mbPc = "tcp"
  /\ \/ /\ client_connection' = mbFd /\ mbPc' = "loop"
        /\ UNCHANGED <<fdt, mbAttemps>>
     \/ /\ "plctcp" \in Faults
        /\ Close(mbFd) /\ MbAttempFailed /\ UNCHANGED client_connection
  /\ UNCHANGED <<tls, sockfd, pub, subPc, mbFd>>

\* The loop ends with: a failure to create the client (nothing is closed);
\* the PLC closing the connection (read_fd_linux closes it too); another
\* transport error; an exception response to the write.
MbLoopClosesOnException ==
  /\ mbPc = "loop"
  /\ {"plcerr", "plcexc"} \cap Faults # {} /\ mbPc' = "err"
  /\ UNCHANGED <<fdt, tls, sockfd, pub, subPc, client_connection, mbAttemps, mbFd>>

MbLoop ==
  /\ mbPc = "loop"
  /\ \/ "create" \in Faults /\ mbPc' = "done"
     \/ "plceof" \in Faults /\ mbPc' = "eof"
     \/ "plcerr" \in Faults /\ mbPc' = "err"
     \/ "plcexc" \in Faults /\ mbPc' = "end"
  /\ UNCHANGED <<fdt, tls, sockfd, pub, subPc, client_connection, mbAttemps, mbFd>>

\* disconnect(conn), called by read_fd_linux ("eof"), in the loop ("err") and
\* after the loop ("end"), one after the other.
MbDisconnect ==
  /\ mbPc \in {"eof", "err", "end"}
  /\ Close(client_connection)
  /\ mbPc' = [eof |-> "err", err |-> "end", end |-> "done"][mbPc]
  /\ UNCHANGED <<tls, sockfd, pub, subPc, client_connection, mbAttemps, mbFd>>

Modbus == MbSocket \/ MbConnect \/ MbLoop \/ MbDisconnect

Next == Pub \/ Sub \/ Modbus

Spec == Init /\ [][Next]_vars

-----------------------------------------------------------------------------
\* Properties

Handle == {"null", "live", "freed"}

\* Every variable keeps its type.
TypeOK ==
  /\ fdt \in [FD -> {"free", "std", "plc", "mqtt"}]
  /\ bio_err \in Handle /\ ctx \in Handle /\ ssl \in Handle
  /\ sockfd \in FD \cup {NoFd}
  /\ pubPc \in {"begin", "certs", "socket", "tcp", "ssl", "handshake", "connack",
                "suback", "publish", "test", "shutdown", "close", "free", "done"}
  /\ pubAttemps \in 0 .. MAX_CONN_ATTEMPS /\ caller \in {"connect", "publish"}
  /\ isconnected \in {0, 1} /\ subPc \in {"idle", "reading"}
  /\ client_connection \in FD \cup {NoFd} /\ mbFd \in FD \cup {NoFd}
  /\ mbPc \in {"connect", "tcp", "loop", "eof", "err", "end", "done"}
  /\ mbAttemps \in 0 .. MAX_CONN_ATTEMPS

\* While the client counts as connected its SSL object is live: MQTTPublish,
\* MQTTSubscribe and the first SSL_read of MQTTYield find one, on whatever
\* path the previous connections ended.
UpMeansSslLive == isconnected = 1 => ssl = "live"

\* mqtt_network_disconnect, wherever mqtt_network_connect stopped, frees a
\* bio_err and a context that the same attempt created, never old ones.
CtxReleasedOnce ==
  pubPc \in {"shutdown", "close", "free"} => bio_err = "live" /\ ctx # "freed"

\* mqtt_network_disconnect does not shut down and free an SSL object that it
\* has freed before.
SslReleasedOnce == pubPc = "shutdown" => ssl # "freed"

\* mqtt_network_disconnect closes the broker's socket and no other file.
BrokerClosesOwn ==
  pubPc = "close" => sockfd = NoFd \/ fdt[sockfd] = "mqtt"

\* disconnect of platform.h closes the PLC's connection, never a file that
\* another task has opened.
PlcClosesOwn ==
  mbPc \in {"eof", "err", "end"} => fdt[client_connection] \in {"plc", "free"}

\* A new attempt to connect starts with every earlier socket closed.
NoSocketLeak == pubPc = "begin" => \A f \in FD : fdt[f] # "mqtt"

\* mqtt_sub_task never reads through an SSL object that has been freed.
NoReadAfterFree == subPc = "reading" => ssl = "live"
=============================================================================
