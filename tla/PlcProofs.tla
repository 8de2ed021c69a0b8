----------------------------- MODULE PlcProofs -----------------------------
(***************************************************************************)
(* Proofs about the PLC's side of the program: the tasks of PlcBridge, for *)
(* every register width and every limit on the connection attempts, and    *)
(* under them the bytes of PlcIO, for every count, size of frame and       *)
(* number of frames and bytes.                                             *)
(***************************************************************************)
EXTENDS PlcBridge, PlcIO, SequenceTheorems, TLAPS

\* The increment of a register is a register value: uint16_t wraps.
LEMMA IncType == \A v \in Reg : Inc(v) \in Reg
  BY BridgeAssumption DEF Inc, Reg

\* 0, the initial shared_value, is a register value.
LEMMA ZeroReg == 0 \in Reg
  BY BridgeAssumption DEF Reg

USE DEF mbVars, pubVars, hand, history

\* The two are inductive together: a counter is within its limit because it
\* is below it wherever it is incremented.
LEMMA TypesAndAttemps == Spec => [](TypeOK /\ AttempsLeft)
<1> DEFINE Inv == TypeOK /\ AttempsLeft
<1>1. Init => Inv
  <2> HAVE Init
  <2>1. fresh \in BOOLEAN
    BY Zenon DEF Init
  <2> QED
    BY <2>1, ZeroReg, BridgeAssumption
    DEF Init, TypeOK, AttempsLeft, MbPcs, PubPcs, NmbsError
<1>2. Inv /\ [Next]_vars => Inv'
  <2> SUFFICES ASSUME Inv, [Next]_vars PROVE Inv'
    OBVIOUS
  <2> USE BridgeAssumption DEF TypeOK, AttempsLeft, MbPcs, PubPcs, NmbsError
  <2>1. CASE MbConnect
    BY <2>1 DEF MbConnect
  <2>2. CASE MbCreate
    BY <2>2 DEF MbCreate
  <2>3. CASE MbRead
    BY <2>3 DEF MbRead
  <2>4. CASE MbLock
    BY <2>4 DEF MbLock
  <2>5. CASE MbStore
    BY <2>5 DEF MbStore, CondSignal
  <2>6. CASE MbUnlock
    BY <2>6 DEF MbUnlock
  <2>7. CASE MbWrite
    BY <2>7, IncType DEF MbWrite
  <2>8. CASE MbSleep
    BY <2>8 DEF MbSleep
  <2>9. CASE MbClose
    BY <2>9 DEF MbClose
  <2>10. CASE PubConnect
    BY <2>10, ZeroReg DEF PubConnect
  <2>11. CASE PubLock
    BY <2>11 DEF PubLock
  <2>12. CASE PubWait
    BY <2>12 DEF PubWait
  <2>13. CASE PubSpuriousWakeup
    BY <2>13 DEF PubSpuriousWakeup
  <2>14. CASE PubWake
    BY <2>14 DEF PubWake
  <2>15. CASE PubUnlock
    BY <2>15 DEF PubUnlock
  <2>16. CASE PubTake
    <3>1. fresh' \in BOOLEAN
      BY <2>16, Zenon DEF PubTake
    <3> QED
      BY <2>16, <3>1 DEF PubTake
  <2>17. CASE PubPublish
    BY <2>17 DEF PubPublish
  <2>18. CASE PubSleep
    BY <2>18 DEF PubSleep
  <2>19. CASE SubCloseSession
    BY <2>19 DEF SubCloseSession
  <2>20. CASE OtherWrite
    BY <2>20 DEF OtherWrite
  <2>21. CASE UNCHANGED vars
    BY <2>21 DEF vars
  <2> QED
    BY <2>1, <2>2, <2>3, <2>4, <2>5, <2>6, <2>7, <2>8, <2>9, <2>10, <2>11,
       <2>12, <2>13, <2>14, <2>15, <2>16, <2>17, <2>18, <2>19, <2>20, <2>21 DEF Next, Modbus, Pub
<1> QED
  BY <1>1, <1>2, PTL DEF Spec

\* Every variable keeps its type, whatever the calls return: the register
\* wraps and the retry counters stop at their limit.
THEOREM TypeCorrect == Spec => []TypeOK
BY TypesAndAttemps, PTL

\* Neither task ever begins an attempt beyond MAX_CONN_ATTEMPS, however
\* sessions are lost in between.
THEOREM AttempsBounded == Spec => []AttempsLeft
BY TypesAndAttemps, PTL

\* shared_value is accessed by the holder of the mutex only.
THEOREM MutualExclusion == Spec => []MutexHeld
<1>1. Init => MutexHeld
  BY DEF Init, MutexHeld
<1>2. MutexHeld /\ [Next]_vars => MutexHeld'
  <2> SUFFICES ASSUME MutexHeld, [Next]_vars PROVE MutexHeld'
    OBVIOUS
  <2> USE DEF MutexHeld
  <2>1. CASE MbConnect \/ MbCreate \/ MbSleep \/ MbClose
    BY <2>1 DEF MbConnect, MbCreate, MbSleep, MbClose
  <2>2. CASE MbRead
    BY <2>2 DEF MbRead
  <2>3. CASE MbLock \/ MbUnlock
    BY <2>3 DEF MbLock, MbUnlock
  <2>4. CASE MbStore
    BY <2>4 DEF MbStore, CondSignal
  <2>5. CASE MbWrite
    BY <2>5 DEF MbWrite
  <2>6. CASE PubConnect \/ PubPublish \/ PubSleep
    BY <2>6 DEF PubConnect, PubPublish, PubSleep
  <2>7. CASE PubLock \/ PubWait \/ PubWake \/ PubUnlock
    BY <2>7 DEF PubLock, PubWait, PubWake, PubUnlock
  <2>8. CASE PubSpuriousWakeup \/ PubTake
    BY <2>8 DEF PubSpuriousWakeup, PubTake
  <2>9. CASE SubCloseSession \/ OtherWrite
    BY <2>9 DEF SubCloseSession, OtherWrite
  <2>10. CASE UNCHANGED vars
    BY <2>10 DEF vars
  <2> QED
    BY <2>1, <2>2, <2>3, <2>4, <2>5, <2>6, <2>7, <2>8, <2>9, <2>10
    DEF Next, Modbus, Pub
<1> QED
  BY <1>1, <1>2, PTL DEF Spec

\* mqtt_pub_task starts a session only when the last one is down, although
\* mqtt_sub_task may close it at any moment.
THEOREM NoSecondSession == Spec => []ConnectsOnlyWhenDown
<1>1. Init => ConnectsOnlyWhenDown
  BY DEF Init, ConnectsOnlyWhenDown
<1>2. ConnectsOnlyWhenDown /\ TypeOK /\ [Next]_vars => ConnectsOnlyWhenDown'
  <2> SUFFICES ASSUME ConnectsOnlyWhenDown, TypeOK, [Next]_vars
               PROVE  ConnectsOnlyWhenDown'
    OBVIOUS
  <2> USE DEF ConnectsOnlyWhenDown
  <2>1. CASE MbStore
    BY <2>1 DEF MbStore, CondSignal
  <2>2. CASE Modbus /\ ~MbStore
    BY <2>2 DEF Modbus, MbConnect, MbCreate, MbRead, MbLock, MbUnlock,
                MbWrite, MbSleep, MbClose
  <2>3. CASE PubConnect
    BY <2>3 DEF PubConnect
  <2>4. CASE PubPublish
    BY <2>4 DEF PubPublish
  <2>5. CASE PubSleep
    BY <2>5 DEF PubSleep, TypeOK
  <2>6. CASE PubLock \/ PubWait \/ PubSpuriousWakeup \/ PubWake \/ PubTake \/ PubUnlock
    BY <2>6 DEF PubLock, PubWait, PubSpuriousWakeup, PubWake, PubTake, PubUnlock
  <2>7. CASE SubCloseSession \/ OtherWrite
    BY <2>7 DEF SubCloseSession, OtherWrite
  <2>8. CASE UNCHANGED vars
    BY <2>8 DEF vars
  <2> QED
    BY <2>1, <2>2, <2>3, <2>4, <2>5, <2>6, <2>7, <2>8 DEF Next, Pub
<1> QED
  BY <1>1, <1>2, TypeCorrect, PTL DEF Spec

-----------------------------------------------------------------------------
(***************************************************************************)
(* Freshness.  Without spurious wake-ups mqtt_pub_task is runnable only    *)
(* after a signal, and the signal is sent in the critical section that     *)
(* stored the value, so the value is fresh from the signal to the take.    *)
(***************************************************************************)
FreshInv == pubPc \in {"woken", "take"} => fresh

\* mqtt_pub_task has not been woken at start.
LEMMA FreshInit == Init => FreshInv
  BY DEF Init, FreshInv

\* Without a spurious wake-up every step keeps the value fresh.
LEMMA FreshStep == ASSUME ~Spurious, FreshInv, [Next]_vars
                   PROVE  FreshInv'
<1> USE DEF FreshInv
<1>1. CASE MbStore
  BY <1>1 DEF MbStore, CondSignal
<1>2. CASE Modbus /\ ~MbStore
  BY <1>2 DEF Modbus, MbConnect, MbCreate, MbRead, MbLock, MbUnlock,
              MbWrite, MbSleep, MbClose
<1>3. CASE PubSpuriousWakeup
  BY <1>3 DEF PubSpuriousWakeup
<1>4. CASE PubWake \/ PubTake
  BY <1>4 DEF PubWake, PubTake
<1>5. CASE PubConnect \/ PubLock \/ PubWait \/ PubUnlock \/ PubPublish \/ PubSleep
  BY <1>5 DEF PubConnect, PubLock, PubWait, PubUnlock, PubPublish, PubSleep
<1>6. CASE SubCloseSession \/ OtherWrite
  BY <1>6 DEF SubCloseSession, OtherWrite
<1>7. CASE UNCHANGED vars
  BY <1>7 DEF vars
<1> QED
  BY <1>1, <1>2, <1>3, <1>4, <1>5, <1>6, <1>7 DEF Next, Pub

\* Without spurious wake-ups nothing is taken out of shared_value twice.
THEOREM Freshness == ASSUME ~Spurious PROVE Spec => []TakeIsFresh
<1>1. FreshInv /\ [Next]_vars => FreshInv'
  BY FreshStep
<1>2. FreshInv => TakeIsFresh
  BY DEF FreshInv, TakeIsFresh
<1> QED
  BY FreshInit, <1>1, <1>2, PTL DEF Spec

\* Without spurious wake-ups the hand-over implements the mailbox that keeps
\* the latest value: storing under the mutex is Put, the copy after
\* pthread_cond_wait is Take, a new session is Restart, and no other step
\* touches the three variables.
THEOREM HandoverIsMailbox == ASSUME ~Spurious PROVE Spec => MailboxSpec
<1> USE DEF Mailbox!vars
<1>1. Init => Mailbox!Init
  BY DEF Init, Mailbox!Init
<1>2. TypeOK /\ FreshInv /\ [Next]_vars => [Mailbox!Next]_(Mailbox!vars)
  <2> SUFFICES ASSUME TypeOK, FreshInv, [Next]_vars
               PROVE  [Mailbox!Next]_(Mailbox!vars)
    OBVIOUS
  <2>1. CASE MbStore
    <3>1. Mailbox!Put
      BY <2>1 DEF MbStore, Mailbox!Put, TypeOK
    <3> QED
      BY <3>1 DEF Mailbox!Next
  <2>2. CASE PubTake
    <3>1. Mailbox!Take
      BY <2>2 DEF PubTake, Mailbox!Take, FreshInv
    <3> QED
      BY <3>1 DEF Mailbox!Next
  <2>3. CASE PubConnect
    <3>1. Mailbox!Restart \/ UNCHANGED Mailbox!vars
      BY <2>3 DEF PubConnect, Mailbox!Restart
    <3> QED
      BY <3>1 DEF Mailbox!Next
  <2>4. CASE Modbus /\ ~MbStore
    BY <2>4 DEF Modbus, MbConnect, MbCreate, MbRead, MbLock, MbUnlock,
                MbWrite, MbSleep, MbClose
  <2>5. CASE PubLock \/ PubWait \/ PubSpuriousWakeup \/ PubWake \/ PubUnlock
             \/ PubPublish \/ PubSleep
    BY <2>5 DEF PubLock, PubWait, PubSpuriousWakeup, PubWake, PubUnlock,
                PubPublish, PubSleep
  <2>6. CASE SubCloseSession \/ OtherWrite
    BY <2>6 DEF SubCloseSession, OtherWrite
  <2>7. CASE UNCHANGED vars
    BY <2>7 DEF vars
  <2> QED
    BY <2>1, <2>2, <2>3, <2>4, <2>5, <2>6, <2>7 DEF Next, Pub
<1>3. FreshInv /\ [Next]_vars => FreshInv'
  BY FreshStep
<1> QED
  BY FreshInit, TypeCorrect, <1>1, <1>2, <1>3, PTL DEF Spec, MailboxSpec, Mailbox!Spec

-----------------------------------------------------------------------------
(***************************************************************************)
(* Provenance.  If the PLC never answers a read with an exception, r_regs  *)
(* holds the answer up to the store, a fresh shared_value was read, and so *)
(* was the value taken from it.                                            *)
(***************************************************************************)
NoReadExceptions == "exception" \notin NmbsOutcomes["read"]

ProvInv == /\ mbPc \in {"lock", "store"} => r_regs \in readVals
           /\ fresh => shared_value \in readVals
           /\ pubPc \in {"unlock", "publish"} => ulNotifiedValue \in readVals

\* Without read exceptions and spurious wake-ups every value handed to
\* MQTTPublish is one the PLC answered with.
THEOREM Provenance == ASSUME ~Spurious, NoReadExceptions
                      PROVE  Spec => []PublishedWasRead
<1>1. Init => ProvInv
  BY DEF Init, ProvInv
<1>2. FreshInv /\ ProvInv /\ [Next]_vars => ProvInv'
  <2> SUFFICES ASSUME FreshInv, ProvInv, [Next]_vars PROVE ProvInv'
    OBVIOUS
  <2> USE DEF ProvInv
  <2>1. CASE MbRead
    BY <2>1, BridgeAssumption DEF MbRead, NoReadExceptions, NmbsError
  <2>2. CASE MbStore
    BY <2>2 DEF MbStore, CondSignal
  <2>3. CASE MbConnect \/ MbCreate \/ MbLock \/ MbUnlock \/ MbSleep \/ MbClose
    BY <2>3 DEF MbConnect, MbCreate, MbLock, MbUnlock, MbSleep, MbClose
  <2>4. CASE MbWrite
    BY <2>4 DEF MbWrite
  <2>5. CASE PubTake
    BY <2>5 DEF PubTake, FreshInv
  <2>6. CASE PubConnect \/ PubLock \/ PubWait \/ PubSpuriousWakeup \/ PubWake
    BY <2>6 DEF PubConnect, PubLock, PubWait, PubSpuriousWakeup, PubWake
  <2>7. CASE PubUnlock \/ PubPublish \/ PubSleep
    BY <2>7 DEF PubUnlock, PubPublish, PubSleep
  <2>8. CASE SubCloseSession \/ OtherWrite
    BY <2>8 DEF SubCloseSession, OtherWrite
  <2>9. CASE UNCHANGED vars
    BY <2>9 DEF vars
  <2> QED
    BY <2>1, <2>2, <2>3, <2>4, <2>5, <2>6, <2>7, <2>8, <2>9 DEF Next, Modbus, Pub
<1>3. ProvInv => PublishedWasRead
  BY DEF ProvInv, PublishedWasRead
<1>4. FreshInv /\ [Next]_vars => FreshInv'
  BY FreshStep
<1> QED
  BY FreshInit, <1>1, <1>2, <1>3, <1>4, PTL DEF Spec

\* Between its read and its write modbus_task holds the register's value.
IncInv == mbPc \in {"lock", "store", "unlock", "write"} => r_regs = plc

\* Without read exceptions and other writers the PLC's register changes by
\* one only, even when a transport error hides whether a write took effect.
THEOREM Increments == ASSUME ~OtherWriters, NoReadExceptions
                      PROVE  Spec => OnlyIncrements
<1>1. Init => IncInv
  BY DEF Init, IncInv
<1>2. IncInv /\ [Next]_vars => IncInv' /\ [plc' = Inc(plc)]_plc
  <2> SUFFICES ASSUME IncInv, [Next]_vars
               PROVE  IncInv' /\ [plc' = Inc(plc)]_plc
    OBVIOUS
  <2> USE DEF IncInv
  <2>1. CASE MbRead
    BY <2>1, BridgeAssumption DEF MbRead, NoReadExceptions, NmbsError
  <2>2. CASE MbWrite
    BY <2>2 DEF MbWrite
  <2>3. CASE MbConnect \/ MbCreate \/ MbLock \/ MbStore \/ MbUnlock \/ MbSleep \/ MbClose
    BY <2>3 DEF MbConnect, MbCreate, MbLock, MbStore, MbUnlock, MbSleep, MbClose
  <2>4. CASE Pub
    BY <2>4 DEF Pub, PubConnect, PubLock, PubWait, PubSpuriousWakeup, PubWake,
                PubTake, PubUnlock, PubPublish, PubSleep
  <2>5. CASE SubCloseSession \/ OtherWrite
    BY <2>5 DEF SubCloseSession, OtherWrite
  <2>6. CASE UNCHANGED vars
    BY <2>6 DEF vars
  <2> QED
    BY <2>1, <2>2, <2>3, <2>4, <2>5, <2>6 DEF Next, Modbus
<1> QED
  BY <1>1, <1>2, PTL DEF Spec, OnlyIncrements

-----------------------------------------------------------------------------
(***************************************************************************)
(* What read_fd_linux reports is what the PLC sent; when write takes all   *)
(* it is given, write_fd_linux sends frames whole.                         *)
(***************************************************************************)
USE PlcIOAssumption

\* A count that a uint16_t holds is kept by it.
LEMMA NoWrap == \A n \in 0 .. UINT16_MAX : n % (UINT16_MAX + 1) = n
OBVIOUS

\* A frame is a sequence of bytes.
LEMMA FrameIsSeq ==
  ASSUME NEW k \in Nat, NEW n \in Nat
  PROVE  Byte(k, n) \in Seq(Nat \X Nat) /\ Len(Byte(k, n)) = n
<1>1. Byte(k, n) \in [1 .. n -> Nat \X Nat]
  BY DEF Byte
<1>2. Seq(Nat \X Nat) = UNION {[1 .. m -> Nat \X Nat] : m \in Nat}
  BY SeqDef
<1>3. Byte(k, n) \in Seq(Nat \X Nat)
  BY <1>1, <1>2
<1> QED
  BY <1>1, <1>3, LenProperties

\* The inductive invariant: within a write call either nothing has gone out
\* and nothing is counted, or all of the frame has.
WriteInv ==
  /\ tx \in Seq(Nat \X Nat) /\ wrote \in Seq(Nat \X Nat) /\ nframes \in Nat
  /\ call.op = "none" => call = NoCall
  /\ call.op # "write" => tx = wrote
  /\ call.op = "write" =>
       /\ call.count \in 0 .. UINT16_MAX /\ buf = Byte(nframes, call.count)
       /\ \/ total = 0 /\ tx = wrote
          \/ total = call.count /\ tx = wrote \o buf

\* Nothing is written at start.
LEMMA InitWriteInv == IOInit => WriteInv
BY DEF IOInit, WriteInv, NoCall

\* A return that reports what the loop has counted.
LEMMA ReturnWriteInv ==
  ASSUME WriteInv, call # NoCall, NEW r, Return(r),
         \/ call.op # "write"
         \/ total # call.count /\ r # call.count
         \/ r = total /\ total = call.count
  PROVE  WriteInv'
<1>1. call'.op = "none" /\ call' = NoCall
  BY DEF Return, NoCall
<1>2. CASE call.op # "write"
  BY <1>1, <1>2 DEF WriteInv, Return
<1>3. CASE call.op = "write" /\ total # call.count /\ r # call.count
  BY <1>1, <1>3 DEF WriteInv, Return
<1>4. CASE call.op = "write" /\ r = total /\ total = call.count
  <2>1. buf \in Seq(Nat \X Nat) /\ Len(buf) = call.count
    <3>1. nframes \in Nat /\ call.count \in Nat /\ buf = Byte(nframes, call.count)
      BY <1>4 DEF WriteInv
    <3> QED
      BY <3>1, FrameIsSeq, Zenon
  <2>2. wrote' = wrote \o buf /\ tx' = tx
    BY <1>4 DEF Return
  <2>3. tx = wrote \o buf
    <3>1. CASE total = 0
      <4>1. Len(buf) = 0
        BY <1>4, <3>1, <2>1
      <4>2. buf = <<>>
        BY <2>1, <4>1, EmptySeq
      <4> QED
        BY <1>4, <4>2 DEF WriteInv
    <3> QED
      BY <1>4, <3>1 DEF WriteInv
  <2>4. tx' \in Seq(Nat \X Nat) /\ nframes' = nframes
    BY DEF WriteInv, Return
  <2> QED
    BY <1>1, <2>2, <2>3, <2>4 DEF WriteInv
<1> QED
  BY <1>2, <1>3, <1>4

\* A turn of a loop keeps it.
LEMMA NextWriteInv ==
  ASSUME ~ ShortWrites
  PROVE  WriteInv /\ [IONext]_ioVars => WriteInv'
<1> SUFFICES ASSUME WriteInv, [IONext]_ioVars PROVE WriteInv'
  OBVIOUS
<1>1. CASE PlcSends
  BY <1>1 DEF PlcSends, WriteInv, caller
<1>2. CASE PlcCloses
  BY <1>2 DEF PlcCloses, WriteInv, caller
<1>3. ASSUME NEW op \in {"read", "write"}, NEW count \in Counts, NEW timed \in BOOLEAN, Call(op, count, timed)
      PROVE  WriteInv'
  BY <1>3 DEF Call, WriteInv, NoCall, caller
<1>4. CASE ReadTimeout
  BY <1>4, ReturnWriteInv DEF ReadTimeout, In, NoCall
<1>5. CASE ReadByte
  BY <1>5 DEF ReadByte, In, WriteInv, caller
<1>6. CASE ReadEnd
  BY <1>6, ReturnWriteInv DEF ReadEnd, In, NoCall
<1>7. CASE WriteTimeout
  <2>1. call.count # 0
    BY <1>7 DEF WriteTimeout, In, WriteInv
  <2> QED
    BY <1>7, <2>1, ReturnWriteInv DEF WriteTimeout, In, NoCall
<1>8. CASE WriteBytes
  <2>1. total = 0 /\ tx = wrote /\ call.op = "write" /\ call.count \in 0 .. UINT16_MAX /\ buf = Byte(nframes, call.count)
    BY <1>8 DEF WriteBytes, In, WriteInv
  <2>2. PICK w \in Taken :
          /\ tx' = tx \o [i \in 1 .. w |-> IF total + i \in DOMAIN buf THEN buf[total + i] ELSE <<0, 0>>]
          /\ Counted(w)
    BY <1>8 DEF WriteBytes
  <2>3. w = call.count
    BY DEF Taken
  <2>4. total' = call.count
    BY <2>1, <2>2, <2>3, NoWrap DEF Counted
  <2>5. [i \in 1 .. w |-> IF total + i \in DOMAIN buf THEN buf[total + i] ELSE <<0, 0>>] = buf
    BY <2>1, <2>3 DEF Byte
  <2>6. tx' = wrote \o buf
    BY <2>1, <2>2, <2>5
  <2>7. buf \in Seq(Nat \X Nat)
    <3>1. nframes \in Nat /\ call.count \in Nat
      BY <2>1 DEF WriteInv
    <3> QED
      BY <2>1, <3>1, FrameIsSeq, Zenon
  <2>8. tx' \in Seq(Nat \X Nat)
    BY <2>6, <2>7 DEF WriteInv
  <2> QED
    BY <1>8, <2>1, <2>4, <2>6, <2>8 DEF WriteBytes, WriteInv, caller
<1>9. CASE IoFails
  BY <1>9, ReturnWriteInv DEF IoFails, In, NoCall, WriteInv
<1>10. CASE LoopEnds
  BY <1>10, ReturnWriteInv DEF LoopEnds
<1>11. CASE UNCHANGED ioVars
  BY <1>11 DEF ioVars, caller, WriteInv
<1> QED
  BY <1>1, <1>2, <1>3, <1>4, <1>5, <1>6, <1>7, <1>8, <1>9, <1>10, <1>11 DEF IONext, Turn

\* If write takes all it is given, then between calls of write_fd_linux the
\* PLC has been sent just the frames reported as written.
THEOREM FramesSentWhole ==
  ASSUME ~ ShortWrites
  PROVE  IOSpec => []FramesWhole
<1>1. WriteInv => FramesWhole
  BY DEF WriteInv, FramesWhole, NoCall
<1>2. WriteInv /\ [IONext]_ioVars => WriteInv'
  BY NextWriteInv
<1> QED
  BY <1>1, <1>2, InitWriteInv, PTL DEF IOSpec

-----------------------------------------------------------------------------
\* Reading

\* The bytes stored by the read call in progress.
Held == IF call.op = "read" THEN total ELSE 0

\* The bytes s is made of are those the PLC sent after the first m.
SentFrom(s, m, n) == \A i \in 1 .. n : s[i] = <<0, m + i>>

\* The inductive invariant: what the calls reported, what the call in progress
\* has stored and what lies in the socket are the bytes the PLC sent, in a row.
ReadInv ==
  /\ got \in Seq(Nat \X Nat) /\ rx \in Seq(Nat \X Nat) /\ buf \in Seq(Nat \X Nat) /\ nsent \in Nat
  /\ nframes \in Nat
  /\ call.op = "read" => call.count \in 0 .. UINT16_MAX /\ Len(buf) = call.count /\ total \in 0 .. call.count
  /\ failed = 0 =>
       /\ Len(got) + Held + Len(rx) = nsent
       /\ SentFrom(got, 0, Len(got)) /\ SentFrom(buf, Len(got), Held) /\ SentFrom(rx, Len(got) + Held, Len(rx))

\* Nothing is read at start.
LEMMA InitReadInv == IOInit => ReadInv
<1>1. <<>> \in Seq(Nat \X Nat) /\ Len(<<>>) = 0
  OBVIOUS
<1> QED
  BY <1>1 DEF IOInit, ReadInv, NoCall, Held, SentFrom

Row(a, b, c) == a \o b \o c

\* Three parts of the PLC's bytes in a row are the PLC's bytes.
LEMMA InARow ==
  ASSUME NEW a \in Seq(Nat \X Nat), NEW b \in Seq(Nat \X Nat), NEW c \in Seq(Nat \X Nat),
         SentFrom(a, 0, Len(a)), SentFrom(b, Len(a), Len(b)), SentFrom(c, Len(a) + Len(b), Len(c))
  PROVE  Row(a, b, c) = Byte(0, Len(a) + Len(b) + Len(c))
<1> DEFINE S == Nat \X Nat
           n == Len(a) + Len(b) + Len(c)
           d == a \o b
<1>1. Len(a) \in Nat /\ Len(b) \in Nat /\ Len(c) \in Nat /\ n \in Nat
  OBVIOUS
<1>2. Byte(0, n) \in Seq(S) /\ Len(Byte(0, n)) = n /\ \A i \in 1 .. n : Byte(0, n)[i] = <<0, i>>
  BY <1>1, FrameIsSeq DEF Byte
<1> HIDE DEF S
<1>3. /\ d \in Seq(S) /\ Len(d) = Len(a) + Len(b)
      /\ \A i \in 1 .. Len(a) + Len(b) : d[i] = IF i <= Len(a) THEN a[i] ELSE b[i - Len(a)]
  BY ConcatProperties DEF S
<1>4. /\ d \o c \in Seq(S) /\ Len(d \o c) = n
      /\ \A i \in 1 .. n : (d \o c)[i] = IF i <= Len(d) THEN d[i] ELSE c[i - Len(d)]
  BY <1>3, ConcatProperties DEF S
<1> HIDE DEF d, n
<1>5. ASSUME NEW i \in 1 .. n PROVE (d \o c)[i] = <<0, i>>
  <2>0. i \in Nat /\ 1 <= i /\ i <= n /\ n = Len(d) + Len(c) /\ Len(d) = Len(a) + Len(b)
    BY <1>1, <1>3 DEF n
  <2>1. CASE i <= Len(a)
    <3>1. i \in 1 .. Len(a) /\ i \in 1 .. Len(a) + Len(b) /\ i <= Len(d) /\ 0 + i = i
      BY <1>1, <2>0, <2>1
    <3>2. (d \o c)[i] = a[i]
      BY <1>3, <1>4, <2>1, <3>1
    <3> QED
      BY <3>1, <3>2 DEF SentFrom
  <2>2. CASE Len(a) < i /\ i <= Len(d)
    <3> DEFINE j == i - Len(a)
    <3>1. j \in 1 .. Len(b) /\ Len(a) + j = i
      BY <1>1, <1>3, <2>2
    <3>2. (d \o c)[i] = b[j]
      <4>1. i \in 1 .. Len(a) + Len(b) /\ ~ (i <= Len(a))
        BY <1>1, <2>0, <2>2
      <4> QED
        BY <1>3, <1>4, <2>2, <4>1
    <3> HIDE DEF j
    <3> QED
      BY <3>1, <3>2 DEF SentFrom
  <2>3. CASE Len(d) < i
    <3> DEFINE j == i - Len(d)
    <3>1. j \in 1 .. Len(c) /\ Len(a) + Len(b) + j = i
      BY <1>1, <1>3, <2>3 DEF n
    <3>2. (d \o c)[i] = c[j]
      <4>1. ~ (i <= Len(d))
        BY <1>1, <2>0, <2>3
      <4> QED
        BY <1>4, <4>1
    <3> HIDE DEF j
    <3> QED
      BY <3>1, <3>2 DEF SentFrom
  <2>4. i <= Len(a) \/ (Len(a) < i /\ i <= Len(d)) \/ Len(d) < i
    BY <1>1, <2>0
  <2> QED
    BY <2>1, <2>2, <2>3, <2>4, Zenon
<1>6. d \o c = Byte(0, n)
  BY <1>2, <1>4, <1>5, SeqEqual
<1> QED
  BY <1>6 DEF d, n, Row

\* The first n bytes of a buffer.
LEMMA PrefixOfBuf ==
  ASSUME NEW b \in Seq(Nat \X Nat), NEW n \in 0 .. Len(b)
  PROVE  /\ SubSeq(b, 1, n) \in Seq(Nat \X Nat) /\ Len(SubSeq(b, 1, n)) = n
         /\ \A i \in 1 .. n : SubSeq(b, 1, n)[i] = b[i]
OBVIOUS

\* The invariant says what StreamKept says.
LEMMA ReadInvKept == ReadInv => StreamKept
<1> SUFFICES ASSUME ReadInv, failed = 0
             PROVE  got \o (IF call.op = "read" THEN SubSeq(buf, 1, total) ELSE <<>>) \o rx = Byte(0, nsent)
  BY DEF StreamKept
<1> DEFINE b == IF call.op = "read" THEN SubSeq(buf, 1, total) ELSE <<>>
<1>1. b \in Seq(Nat \X Nat) /\ Len(b) = Held /\ \A i \in 1 .. Held : b[i] = buf[i]
  <2>1. CASE call.op = "read"
    <3>1. total \in 0 .. Len(buf) /\ buf \in Seq(Nat \X Nat)
      BY <2>1 DEF ReadInv
    <3>2. /\ SubSeq(buf, 1, total) \in Seq(Nat \X Nat) /\ Len(SubSeq(buf, 1, total)) = total
          /\ \A i \in 1 .. total : SubSeq(buf, 1, total)[i] = buf[i]
      BY <3>1, PrefixOfBuf
    <3> QED
      BY <2>1, <3>2 DEF Held
  <2>2. CASE call.op # "read"
    BY <2>2 DEF Held
  <2> QED
    BY <2>1, <2>2
<1> HIDE DEF b
<1>2. got \in Seq(Nat \X Nat) /\ rx \in Seq(Nat \X Nat) /\ nsent = Len(got) + Len(b) + Len(rx)
  BY <1>1 DEF ReadInv
<1>3. SentFrom(got, 0, Len(got)) /\ SentFrom(b, Len(got), Len(b)) /\ SentFrom(rx, Len(got) + Len(b), Len(rx))
  BY <1>1 DEF ReadInv, SentFrom
<1>4. Row(got, b, rx) = Byte(0, Len(got) + Len(b) + Len(rx))
  <2>1. got \in Seq(Nat \X Nat) /\ b \in Seq(Nat \X Nat) /\ rx \in Seq(Nat \X Nat)
    BY <1>1, <1>2
  <2>2. \A x, y, z \in Seq(Nat \X Nat) :
          SentFrom(x, 0, Len(x)) /\ SentFrom(y, Len(x), Len(y)) /\ SentFrom(z, Len(x) + Len(y), Len(z))
          => Row(x, y, z) = Byte(0, Len(x) + Len(y) + Len(z))
    BY ONLY InARow
  <2> QED
    BY ONLY <1>3, <2>1, <2>2
<1> QED
  BY <1>2, <1>4 DEF b, Row

\* A return that reports the bytes read, or fails.
LEMMA ReturnReadInv ==
  ASSUME ReadInv, NEW r, Return(r), call # NoCall,
         call.op = "read" => r = total \/ r = -1
  PROVE  ReadInv'
<1>1. call' = NoCall /\ Held' = 0 /\ call'.op # "read"
  BY DEF Return, NoCall, Held
<1>2. UNCHANGED <<nsent, rx, buf, total, nframes>>
  BY DEF Return, plcEnd
<1>3. CASE call.op = "read" /\ r = total /\ total # 0
  <2>1. total \in 1 .. Len(buf) /\ total \in Nat /\ r > 0
    BY <1>3 DEF ReadInv
  <2>2. got' = got \o SubSeq(buf, 1, total) /\ failed' = failed /\ Held = total
    BY <1>3, <2>1 DEF Return, Held
  <2> DEFINE b == SubSeq(buf, 1, total)
  <2>3. b \in Seq(Nat \X Nat) /\ Len(b) = total /\ \A i \in 1 .. total : b[i] = buf[i]
    <3>1. total \in 0 .. Len(buf) /\ buf \in Seq(Nat \X Nat)
      BY <2>1 DEF ReadInv
    <3> QED
      BY <3>1, PrefixOfBuf DEF b
  <2> HIDE DEF b
  <2>4. /\ got' \in Seq(Nat \X Nat) /\ Len(got') = Len(got) + total
        /\ \A i \in 1 .. Len(got) + total : got'[i] = IF i <= Len(got) THEN got[i] ELSE b[i - Len(got)]
    BY <2>2, <2>3, ConcatProperties DEF ReadInv, b
  <2>5. ASSUME failed = 0 PROVE SentFrom(got', 0, Len(got'))
    <3> SUFFICES ASSUME NEW i \in 1 .. Len(got') PROVE got'[i] = <<0, 0 + i>>
      BY DEF SentFrom
    <3>1. Len(got) \in Nat /\ i \in Nat /\ 1 <= i /\ i <= Len(got) + total
      BY <2>1, <2>4 DEF ReadInv
    <3>2. CASE i <= Len(got)
      <4>1. got'[i] = got[i] /\ i \in 1 .. Len(got)
        BY <2>1, <2>4, <3>1, <3>2
      <4> QED
        BY <2>5, <4>1 DEF ReadInv, SentFrom
    <3>3. CASE ~ (i <= Len(got))
      <4> DEFINE j == i - Len(got)
      <4>1. j \in 1 .. total /\ Len(got) + j = 0 + i
        BY <2>1, <3>1, <3>3
      <4>2. got'[i] = b[j]
        BY <2>1, <2>4, <3>1, <3>3
      <4> HIDE DEF j
      <4>3. buf[j] = <<0, Len(got) + j>>
        BY <2>2, <2>5, <4>1 DEF ReadInv, SentFrom
      <4> QED
        BY <2>3, <4>1, <4>2, <4>3
    <3> QED
      BY <3>2, <3>3
  <2>6. Len(got) \in Nat /\ total \in Nat /\ Len(rx) \in Nat
    BY <2>1 DEF ReadInv
  <2>7. failed = 0 => Len(got') + Held' + Len(rx') = nsent' /\ Len(got') + Held' = Len(got) + Held
    <3>1. failed = 0 => Len(got) + total + Len(rx) = nsent
      BY <2>2 DEF ReadInv
    <3>2. Len(got') + Held' = Len(got) + total
      BY <1>1, <2>4, <2>6
    <3> QED
      BY <1>2, <2>2, <3>1, <3>2
  <2>8. failed = 0 => SentFrom(rx', Len(got') + Held', Len(rx'))
    BY <1>2, <2>7 DEF ReadInv
  <2>9. SentFrom(buf', Len(got'), Held')
    BY <1>1 DEF SentFrom
  <2> QED
    BY <1>1, <1>2, <2>2, <2>4, <2>5, <2>7, <2>8, <2>9 DEF ReadInv
<1>4. CASE r = -1
  <2>1. got' = got /\ failed' = 1
    BY <1>4 DEF Return
  <2> QED
    BY <1>1, <1>2, <2>1 DEF ReadInv
<1>5. CASE call.op # "read" /\ r # -1
  <2>1. got' = got /\ Held = 0 /\ failed' \in {1, failed}
    BY <1>5 DEF Return, Held
  <2>2. failed' = 0 => failed = 0
    BY <2>1
  <2> QED
    BY <1>1, <1>2, <2>1, <2>2 DEF ReadInv
<1>6. CASE call.op = "read" /\ r = total /\ total = 0
  <2>1. got' = got /\ Held = 0 /\ failed' = failed
    BY <1>6 DEF Return, Held
  <2> QED
    BY <1>1, <1>2, <2>1 DEF ReadInv
<1> QED
  BY <1>3, <1>4, <1>5, <1>6

\* A byte read from the socket is stored behind those of the call.
LEMMA ReadByteInv ==
  ASSUME ReadInv, ReadByte
  PROVE  ReadInv'
<1> DEFINE S == Nat \X Nat
           n == total
<1>1. /\ call.op = "read" /\ total # call.count /\ rx # <<>> /\ rx' = Tail(rx)
      /\ buf' = [buf EXCEPT ![n + 1] = Head(rx)] /\ Counted(1)
      /\ UNCHANGED <<nsent, call, got, failed, nframes>>
  BY DEF ReadByte, In, plcEnd, caller
<1>2. n \in Nat /\ n + 1 \in 1 .. Len(buf) /\ n + 1 \in 0 .. UINT16_MAX /\ Len(buf) = call.count
  <2>1. call.count \in 0 .. UINT16_MAX /\ Len(buf) = call.count /\ n \in 0 .. call.count /\ n # call.count
    BY <1>1 DEF ReadInv
  <2> HIDE DEF n
  <2> QED
    BY <2>1
<1>3. total' = n + 1 /\ Held = n /\ Held' = n + 1
  <2>1. total' = n + 1
    BY <1>1, <1>2, NoWrap DEF Counted
  <2> QED
    BY <1>1, <2>1 DEF Held
<1>4. buf \in Seq(S) /\ rx \in Seq(S) /\ got \in Seq(S)
  BY DEF ReadInv
<1>5. /\ Tail(rx) \in Seq(S) /\ Head(rx) \in S /\ Head(rx) = rx[1] /\ Len(rx) \in Nat /\ Len(rx) # 0
      /\ Len(Tail(rx)) = Len(rx) - 1 /\ \A i \in 1 .. Len(rx) - 1 : Tail(rx)[i] = rx[i + 1]
  BY <1>1, <1>4
<1> HIDE DEF S, n
<1>6. buf' \in Seq(S) /\ Len(buf') = Len(buf) /\ \A j \in 1 .. Len(buf) : buf'[j] = IF j = n + 1 THEN Head(rx) ELSE buf[j]
  BY <1>1, <1>2, <1>4, <1>5, ExceptSeq
<1>7. Len(got) \in Nat
  BY <1>4
<1>8. ASSUME failed = 0
      PROVE  Len(got) + (n + 1) + Len(rx') = nsent /\ SentFrom(buf', Len(got), n + 1) /\ SentFrom(rx', Len(got) + (n + 1), Len(rx'))
  <2>1. /\ Len(got) + n + Len(rx) = nsent
        /\ \A i \in 1 .. n : buf[i] = <<0, Len(got) + i>>
        /\ \A i \in 1 .. Len(rx) : rx[i] = <<0, Len(got) + n + i>>
    BY <1>3, <1>8 DEF ReadInv, SentFrom
  <2>2. Len(got) + (n + 1) + Len(rx') = nsent
    BY <1>1, <1>2, <1>5, <1>7, <2>1
  <2>3. SentFrom(buf', Len(got), n + 1)
    <3> SUFFICES ASSUME NEW i \in 1 .. n + 1 PROVE buf'[i] = <<0, Len(got) + i>>
      BY DEF SentFrom
    <3>1. i \in 1 .. Len(buf)
      BY <1>2
    <3>2. CASE i = n + 1
      <4>1. buf'[i] = rx[1] /\ 1 \in 1 .. Len(rx) /\ Len(got) + n + 1 = Len(got) + i
        BY <1>2, <1>5, <1>6, <1>7, <3>1, <3>2
      <4> QED
        BY <2>1, <4>1
    <3>3. CASE i # n + 1
      <4>1. buf'[i] = buf[i] /\ i \in 1 .. n
        BY <1>2, <1>6, <3>1, <3>3
      <4> QED
        BY <2>1, <4>1
    <3> QED
      BY <3>2, <3>3
  <2>4. SentFrom(rx', Len(got) + (n + 1), Len(rx'))
    <3> SUFFICES ASSUME NEW i \in 1 .. Len(rx') PROVE rx'[i] = <<0, Len(got) + (n + 1) + i>>
      BY DEF SentFrom
    <3> DEFINE j == i + 1
    <3>1. j \in 1 .. Len(rx) /\ rx'[i] = rx[j] /\ Len(got) + n + j = Len(got) + (n + 1) + i
      BY <1>1, <1>2, <1>5, <1>7
    <3> HIDE DEF j
    <3> QED
      BY <2>1, <3>1
  <2> QED
    BY <2>2, <2>3, <2>4
<1>9. rx' \in Seq(S) /\ n + 1 \in 0 .. call.count
  BY <1>1, <1>2, <1>5
<1>10. failed' = 0 => Len(got') + Held' + Len(rx') = nsent' /\ SentFrom(got', 0, Len(got')) /\ SentFrom(buf', Len(got'), Held') /\ SentFrom(rx', Len(got') + Held', Len(rx'))
  BY <1>1, <1>3, <1>8 DEF ReadInv
<1> QED
  BY <1>1, <1>2, <1>3, <1>4, <1>6, <1>9, <1>10 DEF ReadInv, S

\* The PLC adds to the stream's end.
LEMMA PlcSendsInv ==
  ASSUME ReadInv, PlcSends
  PROVE  ReadInv'
<1> DEFINE S == Nat \X Nat
           e == <<0, nsent + 1>>
<1>1. /\ rx' = Append(rx, e) /\ nsent' = nsent + 1
      /\ UNCHANGED <<call, buf, total, got, failed, nframes>>
  BY DEF PlcSends, caller
<1>2. nsent \in Nat /\ e \in S /\ rx \in Seq(S) /\ got \in Seq(S)
  BY DEF ReadInv
<1> HIDE DEF S, e
<1>3. rx' \in Seq(S) /\ Len(rx') = Len(rx) + 1 /\ \A i \in 1 .. Len(rx) + 1 : rx'[i] = IF i <= Len(rx) THEN rx[i] ELSE e
  BY <1>1, <1>2, AppendProperties
<1>4. Held' = Held /\ (call.op = "read" => total \in Nat)
  BY <1>1 DEF Held, ReadInv
<1>5. Held \in Nat /\ Len(got) \in Nat /\ Len(rx) \in Nat
  BY <1>2, <1>4 DEF Held
<1>6. ASSUME failed = 0
      PROVE  Len(got) + Held + Len(rx') = nsent' /\ SentFrom(rx', Len(got) + Held, Len(rx'))
  <2>1. Len(got) + Held + Len(rx) = nsent /\ \A i \in 1 .. Len(rx) : rx[i] = <<0, Len(got) + Held + i>>
    BY <1>6 DEF ReadInv, SentFrom
  <2>2. Len(got) + Held + Len(rx') = nsent + 1
    BY <1>2, <1>3, <1>5, <2>1
  <2>3. ASSUME NEW i \in 1 .. Len(rx') PROVE rx'[i] = <<0, Len(got) + Held + i>>
    <3>1. CASE i <= Len(rx)
      <4>1. i \in 1 .. Len(rx) /\ rx'[i] = rx[i]
        BY <1>3, <1>5, <3>1
      <4> QED
        BY <2>1, <4>1
    <3>2. CASE ~ (i <= Len(rx))
      <4>1. rx'[i] = e /\ Len(got) + Held + i = nsent + 1
        <5>1. i = Len(rx) + 1 /\ i \in 1 .. Len(rx) + 1
          BY <1>3, <1>5, <3>2
        <5>2. Len(got) + Held + i = nsent + 1
          BY <1>5, <2>1, <5>1
        <5> QED
          BY <1>3, <3>2, <5>1, <5>2
      <4> QED
        BY <4>1 DEF e
    <3> QED
      BY <3>1, <3>2
  <2> QED
    BY <1>1, <2>2, <2>3 DEF SentFrom
<1>7. failed' = 0 => /\ Len(got') + Held' + Len(rx') = nsent' /\ SentFrom(got', 0, Len(got'))
                     /\ SentFrom(buf', Len(got'), Held') /\ SentFrom(rx', Len(got') + Held', Len(rx'))
  BY <1>1, <1>4, <1>6 DEF ReadInv
<1> QED
  BY <1>1, <1>2, <1>3, <1>7 DEF ReadInv, S

\* A call starts with an empty part of its buffer filled.
LEMMA CallReadInv ==
  ASSUME ReadInv, NEW op \in {"read", "write"}, NEW count \in Counts, NEW timed \in BOOLEAN, Call(op, count, timed)
  PROVE  ReadInv'
<1>1. /\ call = NoCall /\ call' = [op |-> op, count |-> count, timed |-> timed] /\ total' = 0
      /\ UNCHANGED <<nsent, rx, got, failed>>
  BY DEF Call, plcEnd, caller
<1>2. call'.op = op /\ call'.count = count /\ Held = 0 /\ Held' = 0
  BY <1>1 DEF Held, NoCall
<1>3. nframes \in Nat /\ nframes' \in Nat /\ count \in Nat /\ count \in 0 .. UINT16_MAX
  BY DEF Call, ReadInv
<1>4. buf' \in Seq(Nat \X Nat) /\ Len(buf') = count
  <2>1. CASE op = "write"
    BY <1>3, <2>1, FrameIsSeq DEF Call
  <2>2. CASE op = "read"
    <3>1. buf' = [i \in 1 .. count |-> <<0, 0>>]
      BY <2>2 DEF Call
    <3>2. buf' \in [1 .. count -> Nat \X Nat]
      BY <3>1
    <3>3. Seq(Nat \X Nat) = UNION {[1 .. m -> Nat \X Nat] : m \in Nat}
      BY SeqDef
    <3>4. buf' \in Seq(Nat \X Nat)
      BY <1>3, <3>2, <3>3
    <3> QED
      BY <1>3, <3>2, <3>4, LenProperties
  <2> QED
    BY <2>1, <2>2
<1>5. SentFrom(buf', Len(got'), Held')
  BY <1>2 DEF SentFrom
<1>6. failed' = 0 => /\ Len(got') + Held' + Len(rx') = nsent' /\ SentFrom(got', 0, Len(got'))
                     /\ SentFrom(rx', Len(got') + Held', Len(rx'))
  BY <1>1, <1>2 DEF ReadInv
<1> QED
  BY <1>1, <1>2, <1>3, <1>4, <1>5, <1>6 DEF ReadInv

\* Every step keeps what was read a prefix of what was sent.
LEMMA NextReadInv == ReadInv /\ [IONext]_ioVars => ReadInv'
<1> SUFFICES ASSUME ReadInv, [IONext]_ioVars PROVE ReadInv'
  OBVIOUS
<1>1. CASE PlcSends
  BY <1>1, PlcSendsInv
<1>2. CASE PlcCloses
  BY <1>2 DEF PlcCloses, ReadInv, caller, Held, SentFrom
<1>3. ASSUME NEW op \in {"read", "write"}, NEW count \in Counts, NEW timed \in BOOLEAN, Call(op, count, timed)
      PROVE  ReadInv'
  BY <1>3, CallReadInv
<1>4. CASE ReadTimeout
  BY <1>4, ReturnReadInv DEF ReadTimeout, In, NoCall
<1>5. CASE ReadByte
  BY <1>5, ReadByteInv
<1>6. CASE ReadEnd
  BY <1>6, ReturnReadInv DEF ReadEnd, In, NoCall
<1>7. CASE WriteTimeout
  BY <1>7, ReturnReadInv DEF WriteTimeout, In, NoCall
<1>8. CASE WriteBytes
  BY <1>8 DEF WriteBytes, In, ReadInv, plcEnd, caller, Held, SentFrom
<1>9. CASE IoFails
  BY <1>9, ReturnReadInv DEF IoFails, In, NoCall
<1>10. CASE LoopEnds
  BY <1>10, ReturnReadInv DEF LoopEnds
<1>11. CASE UNCHANGED ioVars
  BY <1>11 DEF ioVars, plcEnd, caller, ReadInv, Held, SentFrom
<1> QED
  BY <1>1, <1>2, <1>3, <1>4, <1>5, <1>6, <1>7, <1>8, <1>9, <1>10, <1>11 DEF IONext, Turn

\* Whatever the counts asked for, however read_fd_linux is cut short by its
\* timeout and whatever write takes, as long as no call has failed the bytes
\* reported, stored and waiting are all the PLC sent, once each and in order.
THEOREM StreamIsKept == IOSpec => []StreamKept
<1>1. ReadInv /\ [IONext]_ioVars => ReadInv'
  BY NextReadInv
<1> QED
  BY <1>1, InitReadInv, ReadInvKept, PTL DEF IOSpec

-----------------------------------------------------------------------------
\* Types

\* The inductive invariant, for a write that takes all it is given.
TypeInv ==
  /\ IOTypeOK /\ buf \in Seq(Nat \X Nat)
  /\ call.op = "none" => call = NoCall
  /\ call # NoCall => Len(buf) = call.count
  /\ call.op = "write" => total \in {0, call.count}

\* The types hold at start.
LEMMA InitTypeInv == IOInit => TypeInv
<1> SUFFICES ASSUME IOInit PROVE TypeInv
  OBVIOUS
<1>1. NoCall \in [op : {"none", "read", "write"}, count : Counts \cup {0}, timed : BOOLEAN]
  BY DEF NoCall
<1>2. buf = <<>> /\ Len(buf) = 0 /\ buf \in Seq(Nat \X Nat)
  BY DEF IOInit
<1> QED
  BY <1>1, <1>2 DEF IOInit, TypeInv, IOTypeOK, NoCall

\* A return leaves the buffer and the counter.
LEMMA ReturnTypeInv ==
  ASSUME TypeInv, NEW r \in Int, Return(r), open' \in 0 .. 1
  PROVE  TypeInv'
<1>1. NoCall \in [op : {"none", "read", "write"}, count : Counts \cup {0}, timed : BOOLEAN] /\ NoCall.op = "none"
  BY DEF NoCall
<1>2. call' = NoCall /\ failed' \in {1, failed} /\ UNCHANGED <<peer, nsent, rx, buf, total, nframes, tx>>
  BY DEF Return, plcEnd
<1> QED
  BY <1>1, <1>2 DEF TypeInv, IOTypeOK

\* Every step keeps the types.
LEMMA NextTypeInv ==
  ASSUME ~ ShortWrites
  PROVE  TypeInv /\ ReadInv /\ [IONext]_ioVars => TypeInv'
<1> SUFFICES ASSUME TypeInv, ReadInv, [IONext]_ioVars PROVE TypeInv'
  OBVIOUS
<1> USE DEF TypeInv, IOTypeOK
<1>0. total \in Int /\ -1 \in Int /\ 0 \in Int
  OBVIOUS
<1>1. CASE PlcSends
  BY <1>1 DEF PlcSends, caller
<1>2. CASE PlcCloses
  BY <1>2 DEF PlcCloses, caller
<1>3. ASSUME NEW op \in {"read", "write"}, NEW count \in Counts, NEW timed \in BOOLEAN, Call(op, count, timed)
      PROVE  TypeInv'
  <2>1. ReadInv' /\ buf' \in Seq(Nat \X Nat)
    BY <1>3, CallReadInv DEF ReadInv
  <2>2. call' = [op |-> op, count |-> count, timed |-> timed] /\ call'.op = op /\ call'.count = count
    BY <1>3 DEF Call
  <2>3. call' \in [op : {"none", "read", "write"}, count : Counts \cup {0}, timed : BOOLEAN]
    BY <2>2
  <2>4. Len(buf') = count
    <3>1. CASE op = "read"
      BY <2>1, <2>2, <3>1 DEF ReadInv
    <3>2. CASE op = "write"
      <4>1. nframes' \in Nat /\ count \in Nat /\ buf' = Byte(nframes', count)
        BY <1>3, <3>2 DEF Call
      <4> QED
        BY <4>1, FrameIsSeq
    <3> QED
      BY <3>1, <3>2
  <2>5. total' = 0 /\ nframes' \in 0 .. MaxFrames /\ UNCHANGED <<peer, nsent, open, rx, got, failed, wrote, tx>>
    BY <1>3 DEF Call, plcEnd, caller
  <2>6. total' \in 0 .. Len(buf') /\ Len(buf') \in Counts \cup {0}
    BY <2>4, <2>5
  <2> QED
    BY <2>1, <2>2, <2>3, <2>4, <2>5, <2>6
<1>4. CASE ReadTimeout
  BY <1>0, <1>4, ReturnTypeInv DEF ReadTimeout
<1>5. CASE ReadByte
  <2>1. ReadInv' /\ call' = call /\ call.op = "read"
    BY <1>5, ReadByteInv DEF ReadByte, In
  <2>2. UNCHANGED <<peer, nsent, open, failed, nframes>>
    BY <1>5 DEF ReadByte, plcEnd, caller
  <2>3. Len(buf') = call.count /\ total' \in 0 .. call.count /\ buf' \in Seq(Nat \X Nat) /\ Len(buf) = call.count
    BY <2>1 DEF ReadInv
  <2> QED
    BY <2>1, <2>2, <2>3
<1>6. CASE ReadEnd
  BY <1>0, <1>6, ReturnTypeInv DEF ReadEnd
<1>7. CASE WriteTimeout
  BY <1>0, <1>7, ReturnTypeInv DEF WriteTimeout
<1>8. CASE WriteBytes
  <2>1. call.op = "write" /\ total = 0 /\ UNCHANGED <<peer, nsent, open, rx, call, buf, failed, nframes>>
    BY <1>8 DEF WriteBytes, In, plcEnd, caller
  <2>2. Counted(call.count)
    BY <1>8 DEF WriteBytes, Taken
  <2>3. call # NoCall /\ Len(buf) = call.count /\ call.count \in 0 .. UINT16_MAX
    BY <2>1 DEF NoCall
  <2>4. total' = call.count
    BY <2>1, <2>2, <2>3, NoWrap DEF Counted
  <2> QED
    BY <2>1, <2>3, <2>4
<1>9. CASE IoFails
  BY <1>0, <1>9, ReturnTypeInv DEF IoFails
<1>10. CASE LoopEnds
  BY <1>0, <1>10, ReturnTypeInv DEF LoopEnds
<1>11. CASE UNCHANGED ioVars
  BY <1>11 DEF ioVars, plcEnd, caller
<1> QED
  BY <1>1, <1>2, <1>3, <1>4, <1>5, <1>6, <1>7, <1>8, <1>9, <1>10, <1>11 DEF IONext, Turn

\* If write takes all it is given, the counters of read_fd_linux and
\* write_fd_linux stay within the buffers they were called with.
THEOREM IOTypeCorrect ==
  ASSUME ~ ShortWrites
  PROVE  IOSpec => []IOTypeOK
<1>1. TypeInv /\ ReadInv /\ [IONext]_ioVars => TypeInv' /\ ReadInv'
  BY NextTypeInv, NextReadInv
<1>2. TypeInv => IOTypeOK
  BY DEF TypeInv
<1> QED
  BY <1>1, <1>2, InitTypeInv, InitReadInv, PTL DEF IOSpec

=============================================================================
