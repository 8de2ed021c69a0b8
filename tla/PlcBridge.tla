----------------------------- MODULE PlcBridge -----------------------------
(***************************************************************************)
(* The data path of the program: modbus_task reads a holding register of   *)
(* the PLC, hands the value to mqtt_pub_task through shared_value under    *)
(* mutex/cond, and writes the incremented value back; mqtt_pub_task        *)
(* connects to the broker, waits for a value and publishes it.             *)
(*                                                                         *)
(* A step of a thread ends where another thread can observe it: at a lock  *)
(* operation, at a condition-variable operation, at a network exchange.    *)
(* The MQTT client and the Modbus client are represented by the outcome of *)
(* their calls; the session itself is the subject of other modules.        *)
(***************************************************************************)
EXTENDS Naturals

CONSTANTS
  RegMod,             \* number of values of a register: 2^16 for uint16_t
  MAX_CONN_ATTEMPS,   \* connection attempts of either task (10)
  NmbsOutcomes,       \* per nanoMODBUS call, the classes of results it may give
  Spurious,           \* may pthread_cond_wait return without a signal (POSIX: yes)
  OtherWriters        \* may somebody else write the register

\* nmbs_error as the code tells it apart: none, an exception response of
\* the PLC (nmbs_error_is_exception), or any transport error.
NmbsError == {"none", "exception", "transport"}
Reg == 0 .. RegMod - 1

ASSUME BridgeAssumption ==
  /\ RegMod \in Nat \ {0}
  /\ MAX_CONN_ATTEMPS \in Nat \ {0}
  /\ NmbsOutcomes \in [{"create", "read", "write"} -> SUBSET NmbsError]
  /\ Spurious \in BOOLEAN
  /\ OtherWriters \in BOOLEAN

VARIABLES
  plc,              \* the holding register, in the PLC
  plcConn,          \* client_connection: "none", "open" or "closed"
  mbPc,             \* where modbus_task is
  mbAttemps,        \* its nAttemps
  r_regs,           \* r_regs[0]
  err,              \* the nmbs_error of the last call
  mutex,            \* "free" or the task that holds it
  shared_value,
  pubPc,            \* where mqtt_pub_task is; "waiting": blocked on cond
  pubAttemps,       \* its nAttemps
  ulNotifiedValue,
  isconnected,      \* mqttClient.isconnected
  \* History: not in the program, used to state properties.
  fresh,            \* shared_value was stored after mqtt_pub_task last took it
  readVals          \* values the PLC has answered a read with

mbVars == <<plcConn, mbPc, mbAttemps, r_regs, err>>
pubVars == <<pubPc, pubAttemps, ulNotifiedValue, isconnected>>
hand == <<mutex, shared_value>>
history == <<fresh, readVals>>
vars == <<plc, mbVars, hand, pubVars, history>>

\* r_regs is an uninitialised local: any value.
Init ==
  /\ plc \in Reg
  /\ plcConn = "none" /\ mbPc = "connect" /\ mbAttemps = 0 /\ r_regs \in Reg
  /\ err = "none"
  /\ mutex = "free" /\ shared_value = 0
  /\ pubPc = "connect" /\ pubAttemps = 0 /\ ulNotifiedValue = 0
  /\ isconnected = 0
  /\ fresh = FALSE /\ readVals = {}

-----------------------------------------------------------------------------
\* modbus_task

MbConnect ==
  /\ mbPc = "connect"
  /\ \/ /\ plcConn' = "open" /\ mbPc' = "create" /\ UNCHANGED mbAttemps
     \/ /\ mbAttemps' = mbAttemps + 1
        /\ mbPc' = IF mbAttemps' < MAX_CONN_ATTEMPS THEN "connect" ELSE "done"
        /\ UNCHANGED plcConn
  /\ UNCHANGED <<plc, r_regs, err, hand, pubVars, history>>

\* Only an exception or a success goes on; otherwise the task returns with
\* the connection open.
MbCreate ==
  /\ mbPc = "create"
  /\ err' \in NmbsOutcomes["create"]
  /\ mbPc' = IF err' = "transport" THEN "done" ELSE "read"
  /\ UNCHANGED <<plc, plcConn, mbAttemps, r_regs, hand, pubVars, history>>

\* r_regs is declared in the loop body: when the PLC answers with an
\* exception nothing is stored in it and its value is indeterminate.
MbReadFallThrough ==
  /\ mbPc = "read"
  /\ err' \in NmbsOutcomes["read"]
  /\ IF err' = "none" THEN r_regs' = plc /\ readVals' = readVals \cup {plc}
                      ELSE r_regs' \in Reg /\ UNCHANGED readVals
  /\ mbPc' = "lock"
  /\ UNCHANGED <<plc, plcConn, mbAttemps, hand, pubVars, fresh>>

MbRead ==
  /\ mbPc = "read"
  /\ err' \in NmbsOutcomes["read"]
  /\ CASE err' = "none" ->
            /\ r_regs' = plc /\ readVals' = readVals \cup {plc}
            /\ mbPc' = "lock" /\ UNCHANGED plcConn
       [] err' = "exception" ->
            /\ r_regs' \in Reg
            /\ mbPc' = "lock" /\ UNCHANGED <<plcConn, readVals>>
       [] OTHER ->
            /\ plcConn' = "closed" /\ mbPc' = "close"
            /\ UNCHANGED <<r_regs, readVals>>
  /\ UNCHANGED <<plc, mbAttemps, hand, pubVars, fresh>>

MbLock ==
  /\ mbPc = "lock" /\ mutex = "free"
  /\ mutex' = "modbus" /\ mbPc' = "store"
  /\ UNCHANGED <<plc, plcConn, mbAttemps, r_regs, err, shared_value, pubVars, history>>

\* pthread_cond_signal: the one possible waiter becomes runnable; without a
\* waiter the signal leaves no trace.
CondSignal == pubPc' = IF pubPc = "waiting" THEN "woken" ELSE pubPc

MbStoreNoSignal ==
  /\ mbPc = "store"
  /\ shared_value' = r_regs /\ fresh' = TRUE
  /\ mbPc' = "unlock"
  /\ UNCHANGED <<plc, plcConn, mbAttemps, r_regs, err, mutex, pubVars, readVals>>

MbStore ==
  /\ mbPc = "store"
  /\ shared_value' = r_regs /\ fresh' = TRUE
  /\ CondSignal
  /\ mbPc' = "unlock"
  /\ UNCHANGED <<plc, plcConn, mbAttemps, r_regs, err, mutex,
                 pubAttemps, ulNotifiedValue, isconnected, readVals>>

MbUnlock ==
  /\ mbPc = "unlock"
  /\ mutex' = "free" /\ mbPc' = "write"
  /\ UNCHANGED <<plc, plcConn, mbAttemps, r_regs, err, shared_value, pubVars, history>>

\* The increment of a uint16_t.
IncNoWrap(v) == v + 1

Inc(v) == (v + 1) % RegMod

\* After a transport error the PLC may or may not have executed the write.
MbWriteRetries ==
  /\ mbPc = "write"
  /\ r_regs' = Inc(r_regs)
  /\ err' \in NmbsOutcomes["write"]
  /\ plc' = IF err' = "none" THEN r_regs' ELSE plc
  /\ mbPc' = IF err' = "none" THEN "sleep" ELSE "write"
  /\ UNCHANGED <<plcConn, mbAttemps, hand, pubVars, history>>

MbWrite ==
  /\ mbPc = "write"
  /\ r_regs' = Inc(r_regs)
  /\ err' \in NmbsOutcomes["write"]
  /\ plc' \in CASE err' = "none" -> {r_regs'}
                [] err' = "exception" -> {plc}
                [] OTHER -> {plc, r_regs'}
  /\ IF err' = "transport"
       THEN plcConn' = "closed" /\ mbPc' = "close"
       ELSE mbPc' = "sleep" /\ UNCHANGED plcConn
  /\ UNCHANGED <<mbAttemps, hand, pubVars, history>>

\* while (err == NMBS_ERROR_NONE)
MbSleep ==
  /\ mbPc = "sleep"
  /\ mbPc' = IF err = "none" THEN "read" ELSE "close"
  /\ UNCHANGED <<plc, plcConn, mbAttemps, r_regs, err, hand, pubVars, history>>

MbClose ==
  /\ mbPc = "close"
  /\ plcConn' = "closed" /\ mbPc' = "done"
  /\ UNCHANGED <<plc, mbAttemps, r_regs, err, hand, pubVars, history>>

Modbus == \/ MbConnect \/ MbCreate \/ MbRead \/ MbLock \/ MbStore
          \/ MbUnlock \/ MbWrite \/ MbSleep \/ MbClose

-----------------------------------------------------------------------------
\* mqtt_pub_task

\* MqttConnectBroker: network, CONNECT and SUBSCRIBE succeed, or whatever
\* was set up is closed again.
PubConnectOneMore ==
  /\ pubPc = "connect"
  /\ \/ /\ isconnected' = 1 /\ pubPc' = "lock"
        /\ ulNotifiedValue' = 0 /\ UNCHANGED pubAttemps
     \/ /\ isconnected' = 0 /\ pubAttemps' = pubAttemps + 1
        /\ pubPc' = IF pubAttemps' <= MAX_CONN_ATTEMPS THEN "connect" ELSE "done"
        /\ UNCHANGED ulNotifiedValue
  /\ UNCHANGED <<plc, mbVars, hand, history>>

PubConnect ==
  /\ pubPc = "connect"
  /\ \/ /\ isconnected' = 1 /\ pubPc' = "lock"
        /\ ulNotifiedValue' = 0 /\ UNCHANGED pubAttemps
     \/ /\ isconnected' = 0 /\ pubAttemps' = pubAttemps + 1
        /\ pubPc' = IF pubAttemps' < MAX_CONN_ATTEMPS THEN "connect" ELSE "done"
        /\ UNCHANGED ulNotifiedValue
  /\ UNCHANGED <<plc, mbVars, hand, history>>

PubLockTestsValue ==
  /\ pubPc = "lock" /\ mutex = "free"
  /\ mutex' = "pub" /\ pubPc' = IF shared_value = 0 THEN "wait" ELSE "take"
  /\ UNCHANGED <<plc, mbVars, shared_value, pubAttemps, ulNotifiedValue, isconnected, history>>

PubLock ==
  /\ pubPc = "lock" /\ mutex = "free"
  /\ mutex' = "pub" /\ pubPc' = "wait"
  /\ UNCHANGED <<plc, mbVars, shared_value, pubAttemps, ulNotifiedValue, isconnected, history>>

\* pthread_cond_wait releases the mutex and blocks in one step ...
PubWaitHoldingMutex ==
  /\ pubPc = "wait"
  /\ pubPc' = "waiting"
  /\ UNCHANGED <<plc, mbVars, hand, pubAttemps, ulNotifiedValue, isconnected, history>>

PubWait ==
  /\ pubPc = "wait"
  /\ mutex' = "free" /\ pubPc' = "waiting"
  /\ UNCHANGED <<plc, mbVars, shared_value, pubAttemps, ulNotifiedValue, isconnected, history>>

\* ... may end without a signal ...
PubSpuriousWakeup ==
  /\ Spurious
  /\ pubPc = "waiting"
  /\ pubPc' = "woken"
  /\ UNCHANGED <<plc, mbVars, hand, pubAttemps, ulNotifiedValue, isconnected, history>>

\* ... and returns once it holds the mutex again.
PubWake ==
  /\ pubPc = "woken" /\ mutex = "free"
  /\ mutex' = "pub" /\ pubPc' = "take"
  /\ UNCHANGED <<plc, mbVars, shared_value, pubAttemps, ulNotifiedValue, isconnected, history>>

PubTake ==
  /\ pubPc = "take"
  /\ ulNotifiedValue' = shared_value /\ fresh' = FALSE
  /\ pubPc' = "unlock"
  /\ UNCHANGED <<plc, mbVars, hand, pubAttemps, isconnected, readVals>>

PubUnlock ==
  /\ pubPc = "unlock"
  /\ mutex' = "free" /\ pubPc' = "publish"
  /\ UNCHANGED <<plc, mbVars, shared_value, pubAttemps, ulNotifiedValue, isconnected, history>>

\* MQTTPublish fails at once on a closed session; a failure closes the
\* session and leaves the inner loop, which resets nAttemps.
PubPublishNoClose ==
  /\ pubPc = "publish"
  /\ \/ isconnected = 1 /\ pubPc' = "sleep" /\ UNCHANGED <<pubAttemps, isconnected>>
     \/ pubPc' = "connect" /\ pubAttemps' = 0 /\ UNCHANGED isconnected
  /\ UNCHANGED <<plc, mbVars, hand, ulNotifiedValue, history>>

PubPublish ==
  /\ pubPc = "publish"
  /\ \/ isconnected = 1 /\ pubPc' = "sleep" /\ UNCHANGED <<pubAttemps, isconnected>>
     \/ pubPc' = "connect" /\ pubAttemps' = 0 /\ isconnected' = 0
  /\ UNCHANGED <<plc, mbVars, hand, ulNotifiedValue, history>>

\* while (mqttClient.isconnected && !error)
PubSleep ==
  /\ pubPc = "sleep"
  /\ IF isconnected = 1 THEN pubPc' = "lock" /\ UNCHANGED pubAttemps
                    ELSE pubPc' = "connect" /\ pubAttemps' = 0
  /\ UNCHANGED <<plc, mbVars, hand, ulNotifiedValue, isconnected, history>>

Pub == \/ PubConnect \/ PubLock \/ PubWait \/ PubSpuriousWakeup \/ PubWake
       \/ PubTake \/ PubUnlock \/ PubPublish \/ PubSleep

-----------------------------------------------------------------------------
\* The others

\* mqtt_sub_task, in MQTTYield, closes the session on a read error or when
\* the broker misses a PINGRESP.
SubCloseSession ==
  /\ isconnected = 1
  /\ isconnected' = 0
  /\ UNCHANGED <<plc, mbVars, hand, pubPc, pubAttemps, ulNotifiedValue, history>>

\* Another Modbus client, or the PLC program, sets the register.
OtherWrite ==
  /\ OtherWriters
  /\ plc' \in Reg
  /\ UNCHANGED <<mbVars, hand, pubVars, history>>

Next == Modbus \/ Pub \/ SubCloseSession \/ OtherWrite

Spec == Init /\ [][Next]_vars

\* modbus_task never waits on anybody but the mutex, and its network calls
\* have time-outs.  A task that holds the mutex runs on until it lets go of
\* it.  SF: modbus_task sleeps a second between two critical sections, so a
\* woken mqtt_pub_task cannot miss the mutex forever.  Nothing is assumed of
\* mqtt_pub_task outside the hand-over: its network calls may block.
Fairness == /\ WF_vars(Modbus)
            /\ WF_vars(PubWait \/ PubTake \/ PubUnlock)
            /\ SF_vars(PubWake)

FairSpec == Spec /\ Fairness

-----------------------------------------------------------------------------
\* Properties

MbPcs == {"connect", "create", "read", "lock", "store", "unlock", "write",
          "sleep", "close", "done"}
PubPcs == {"connect", "lock", "wait", "waiting", "woken", "take", "unlock",
           "publish", "sleep", "done"}

\* Every variable keeps its type; in particular the incremented register
\* stays a uint16_t and neither retry counter passes its limit.
TypeOK ==
  /\ plc \in Reg /\ r_regs \in Reg /\ shared_value \in Reg /\ ulNotifiedValue \in Reg
  /\ plcConn \in {"none", "open", "closed"} /\ err \in NmbsError
  /\ mbPc \in MbPcs /\ pubPc \in PubPcs
  /\ mbAttemps \in 0 .. MAX_CONN_ATTEMPS /\ pubAttemps \in 0 .. MAX_CONN_ATTEMPS
  /\ mutex \in {"free", "modbus", "pub"}
  /\ isconnected \in {0, 1} /\ fresh \in BOOLEAN /\ readVals \in SUBSET Reg

\* A task that is going to try to connect has an attempt left, also when
\* mqtt_pub_task comes back after a session was lost: never an eleventh try.
AttempsLeft == /\ mbPc = "connect" => mbAttemps < MAX_CONN_ATTEMPS
               /\ pubPc = "connect" => pubAttemps < MAX_CONN_ATTEMPS

\* shared_value is accessed under the mutex only: a task is between its lock
\* and its unlock exactly when it is the holder, and mqtt_pub_task does not
\* hold the mutex while it is blocked on cond.
MutexHeld ==
  /\ (mutex = "modbus") <=> (mbPc \in {"store", "unlock"})
  /\ (mutex = "pub") <=> (pubPc \in {"wait", "take", "unlock"})

\* mqtt_pub_task opens a new session only when the last one is down, whoever
\* brought it down: MqttConnectBroker re-initialises the client in place.
ConnectsOnlyWhenDown == pubPc \in {"connect", "done"} => isconnected = 0

\* What mqtt_pub_task takes out of shared_value was stored after it last
\* took something: no value is published twice.
TakeIsFresh == pubPc = "take" => fresh

\* What is handed to MQTTPublish is a value the PLC answered a read with.
PublishedWasRead == pubPc = "publish" => ulNotifiedValue \in readVals

\* The register in the PLC never changes but by one, modulo 2^16.
OnlyIncrements == [][plc' = Inc(plc)]_plc

\* The hand-over implements a mailbox that keeps the latest value.
Mailbox == INSTANCE LatestValue WITH Value <- Reg, cell <- shared_value,
                                     fresh <- fresh, out <- ulNotifiedValue
MailboxSpec == Mailbox!Spec

\* Once mqtt_pub_task waits for a value it gets one to publish, unless
\* modbus_task has ended.
HandoverCompletes == pubPc = "waiting" ~> (pubPc = "publish" \/ mbPc = "done")

\* modbus_task always gets past the mutex: a slow or dead broker never
\* stops the PLC cycle.
ModbusNotBlocked == mbPc = "lock" ~> mbPc = "store"

\* A closed PLC connection is opened again ("connected ? no -> connect").
PlcReconnects == plcConn = "closed" ~> plcConn = "open"
=============================================================================
