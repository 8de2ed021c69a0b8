---------------------------- MODULE HandlerTable ----------------------------
(***************************************************************************)
(* The table of message handlers of an MQTTClient (mqtt/MQTTClient.c): the *)
(* slots of messageHandlers, the calls that fill and clear them, and       *)
(* deliverMessage, which goes through them.  A client's calls come one     *)
(* after another; the two tasks that share a client are in MqttClient.     *)
(***************************************************************************)
EXTENDS TopicMatch, FiniteSets

CONSTANTS Filter, Handler, Topic,
          NULL,
          MAX_MESSAGE_HANDLERS

ASSUME HandlersAssumption ==
  /\ MAX_MESSAGE_HANDLERS \in Nat
  /\ NULL \notin Filter /\ NULL \notin Handler

VARIABLES messageHandlers,    \* the slots
          cleansession,       \* the session in progress was opened as clean
          calls,              \* the handlers the last call ran, with their filters
          rc                  \* what the last call returned

vars == <<messageHandlers, cleansession, calls, rc>>

Slot == 0 .. MAX_MESSAGE_HANDLERS - 1

SlotsOf(f) == {i \in Slot : messageHandlers[i].topicFilter = f}

\* i is the slot a loop over the slots in S stops at.
First(i, S) == i \in S /\ \A j \in S : i <= j

Store(i, f, h) ==
  messageHandlers' = [messageHandlers EXCEPT ![i] = [topicFilter |-> f, fp |-> h]]

NoFilters(t) == [i \in Slot |-> [t[i] EXCEPT !.topicFilter = NULL]]

Init ==
  /\ messageHandlers = [i \in Slot |-> [topicFilter |-> NULL, fp |-> NULL]]
  /\ cleansession = 0
  /\ calls = {}
  /\ rc = "SUCCESS"

\* MQTTClientInit: the fp of a slot stays.
ClientInit ==
  /\ messageHandlers' = NoFilters(messageHandlers)
  /\ cleansession' = 0
  /\ calls' = {}
  /\ UNCHANGED rc

\* MQTTConnectWithResults takes the caller's choice.
OpenSession(clean) == cleansession' = clean /\ calls' = {} /\ UNCHANGED <<messageHandlers, rc>>

\* MQTTCloseSession, with MQTTCleanSession.
CloseSession ==
  /\ messageHandlers' = IF cleansession = 1 THEN NoFilters(messageHandlers) ELSE messageHandlers
  /\ calls' = {}
  /\ UNCHANGED <<cleansession, rc>>

\* The filter's slot is not looked for before a free one is.
SlotNoExisting(f) == SlotsOf(NULL)

\* The slots MQTTSetMessageHandler may put f in: the one it has, or else the
\* free ones.
SlotFor(f) == IF SlotsOf(f) # {} THEN SlotsOf(f) ELSE SlotsOf(NULL)

SetMessageHandler(f, h) ==
  /\ \/ \E i \in Slot : First(i, SlotFor(f)) /\ Store(i, f, h) /\ rc' = "SUCCESS"
     \/ SlotFor(f) = {} /\ rc' = "FAILURE" /\ UNCHANGED messageHandlers
  /\ calls' = {}
  /\ UNCHANGED cleansession

\* Removing a handler clears only its fp.
RemoveFpOnly(f) ==
  /\ \/ \E i \in Slot : First(i, SlotsOf(f)) /\ Store(i, f, NULL) /\ rc' = "SUCCESS"
     \/ SlotsOf(f) = {} /\ rc' = "FAILURE" /\ UNCHANGED messageHandlers
  /\ calls' = {}
  /\ UNCHANGED cleansession

\* MQTTSetMessageHandler with no handler.
RemoveMessageHandler(f) ==
  /\ \/ \E i \in Slot : First(i, SlotsOf(f)) /\ Store(i, NULL, NULL) /\ rc' = "SUCCESS"
     \/ SlotsOf(f) = {} /\ rc' = "FAILURE" /\ UNCHANGED messageHandlers
  /\ calls' = {}
  /\ UNCHANGED cleansession

\* The pairs a set of slots holds.
Entries(S) == {<<messageHandlers[i].topicFilter, messageHandlers[i].fp>> : i \in S}

\* The slots whose fp deliverMessage calls, also those without a filter.
CalledAnyFp(n) == {i \in Slot : messageHandlers[i].fp # NULL}

\* It ends at the first slot that matches.
CalledFirst(n) == {i \in Slot : First(i, {j \in Slot : /\ messageHandlers[j].topicFilter # NULL
                                                      /\ Wanted(messageHandlers[j].topicFilter, n)})}

\* The slots whose fp deliverMessage calls.
Called(n) == {i \in Slot : /\ messageHandlers[i].topicFilter # NULL
                           /\ Wanted(messageHandlers[i].topicFilter, n)
                           /\ messageHandlers[i].fp # NULL}

\* No call sets defaultMessageHandler: it stays NULL.
deliverMessage(n) ==
  /\ calls' = Entries(Called(n))
  /\ rc' = IF Called(n) # {} THEN "SUCCESS" ELSE "FAILURE"
  /\ UNCHANGED <<messageHandlers, cleansession>>

Next ==
  \/ ClientInit
  \/ \E clean \in 0 .. 1 : OpenSession(clean)
  \/ CloseSession
  \/ \E f \in Filter : RemoveMessageHandler(f) \/ \E h \in Handler : SetMessageHandler(f, h)
  \/ \E n \in Topic : deliverMessage(n)

Spec == Init /\ [][Next]_vars

-----------------------------------------------------------------------------
\* The type of the slots, of the session flag and of the last call's outcome.
TypeOK ==
  /\ messageHandlers \in [Slot -> [topicFilter : Filter \cup {NULL}, fp : Handler \cup {NULL}]]
  /\ cleansession \in 0 .. 1
  /\ calls \subseteq Filter \X Handler
  /\ rc \in {"SUCCESS", "FAILURE"}

\* Whatever calls were made, no filter has two slots: MQTTSetMessageHandler
\* looks for the filter's slot before it takes a free one, and a free slot it
\* takes may lie before or after it.
OneSlotPerFilter ==
  \A i, j \in Slot : messageHandlers[i].topicFilter = messageHandlers[j].topicFilter =>
    i = j \/ messageHandlers[i].topicFilter = NULL

\* A slot in use has a handler to call, although MQTTCleanSession leaves the
\* old fp in the slots it frees.
UsedHasHandler ==
  \A i \in Slot : messageHandlers[i].topicFilter # NULL => messageHandlers[i].fp # NULL

\* The table is a bounded map from filters to handlers: setting a handler
\* fails only when all slots are taken by other filters, a message goes to
\* the latest handler of every filter it matches, and no handler is called
\* for a filter that was removed or cleared with its session.
Subs == INSTANCE Subscriptions
  WITH subs <- Entries(Slot \ SlotsOf(NULL)), result <- rc,
       Room <- MAX_MESSAGE_HANDLERS, Matches <- Wanted
IsBoundedMap == Subs!Spec
=============================================================================
