--------------------------- MODULE Subscriptions ---------------------------
(***************************************************************************)
(* What the message handlers of an MQTT client promise: a map from topic   *)
(* filters to handlers, of limited size, that sends a message to the       *)
(* handler of every filter it matches, and to no other.                    *)
(***************************************************************************)
EXTENDS Naturals, FiniteSets

CONSTANTS Filter, Handler, Topic,
          Room,               \* the most filters the map can hold
          Matches(_, _)       \* a filter matches a topic

VARIABLES subs,               \* pairs <<filter, handler>>, one for each filter
          calls,              \* the pairs the last call sent a message to
          result              \* what the last call returned

vars == <<subs, calls, result>>

Answer(ok) == result' = IF ok THEN "SUCCESS" ELSE "FAILURE"

Init == subs = {} /\ calls = {} /\ result = "SUCCESS"

Without(f) == {s \in subs : s[1] # f}

\* A filter that has a handler gets another one; a new filter needs room.
Fits(f) == Without(f) # subs \/ Cardinality(subs) < Room

Set(f, h) ==
  /\ \/ Fits(f) /\ subs' = Without(f) \cup {<<f, h>>} /\ result' = "SUCCESS"
     \/ ~ Fits(f) /\ UNCHANGED subs /\ result' = "FAILURE"
  /\ calls' = {}

Remove(f) ==
  /\ subs' = Without(f)
  /\ Answer(Without(f) # subs)
  /\ calls' = {}

Clear == subs' = {} /\ calls' = {} /\ UNCHANGED result

\* Calls that are no concern of the map.
Other == calls' = {} /\ UNCHANGED <<subs, result>>

Deliver(n) ==
  /\ calls' = {s \in subs : Matches(s[1], n)}
  /\ Answer(calls' # {})
  /\ UNCHANGED subs

Next ==
  \/ \E f \in Filter : Remove(f) \/ \E h \in Handler : Set(f, h)
  \/ Clear \/ Other
  \/ \E n \in Topic : Deliver(n)

Spec == Init /\ [][Next]_vars
=============================================================================
