--------------------------- MODULE MCHandlerTable ---------------------------
(***************************************************************************)
(* HandlerTable with filters that have no, one or both wildcards and       *)
(* topics that match several of them; and isTopicMatched against MQTT's    *)
(* rules for all short filters and topics.                                 *)
(***************************************************************************)
EXTENDS HandlerTable, SequencesExt

MCFilter == {<<"a">>, <<"#">>, <<"+", "/", "b">>, <<"a", "/", "#">>, <<"a", "/", "b">>}

MCTopic == {<<"a">>, <<"a", "b">>, <<"a", "/", "b">>, <<"a", "/", "b", "/", "b">>}

\* The well-formed filters of up to 4 characters and a longer one.
ShortFilter == {f \in SeqOf({"a", "/", "+", "#"}, 4) : CorrectFilter(f)}
               \cup {<<"+", "/", "+", "/", "#">>}

\* The names of up to 4 characters, and one whose levels are longer.
ShortName == {n \in SeqOf({"a", "b", "/"}, 4) : CorrectName(n)}
             \cup {<<"b", "/", "a", "b", "/", "a">>}

\* isTopicMatched agrees with MQTT's rules for filters and names "in correct
\* format", up to the two cases in which it is stricter and does not match:
\* '+' ends at the next separator, '#' takes all that is left, and a filter's
\* end matches only a name's end.  It does not depend on the state and is
\* stated of the initial one.
MatchAgrees ==
  Init => \A f \in ShortFilter, n \in ShortName :
            isTopicMatched(f, n) <=> MqttMatches(f, n) /\ ~ Stricter(f, n)
=============================================================================
