----------------------------- MODULE TopicMatch -----------------------------
(***************************************************************************)
(* isTopicMatched of mqtt/MQTTClient.c, and what MQTT says it should be.   *)
(* A topic filter and a topic name are sequences of characters.            *)
(***************************************************************************)
EXTENDS Naturals, Sequences

\* '+' also takes the rest of the topic, separators included.
PlusEndOfName(n, curn) == Len(n)

\* '+' in the filter: curn moves to the last character of its level.
PlusEnd(n, curn) ==
  LET skip[p \in 1 .. Len(n)] ==
        IF p < Len(n) /\ n[p + 1] # "/" THEN skip[p + 1] ELSE p
  IN skip[curn]

\* A round of the loop of isTopicMatched: the filter has c, and at is curn, or 0
\* once the loop has ended.  It ends at the end of the name, at a separator in
\* the name that the filter does not have, or at characters that differ.
Round(c, n, at) ==
  IF \/ at = 0 \/ at > Len(n)
     \/ n[at] = "/" /\ c # "/"
     \/ c \notin {"+", "#", n[at]}
    THEN 0
    ELSE CASE c = "+" -> PlusEnd(n, at) + 1
           [] c = "#" -> Len(n) + 1
           [] OTHER -> at + 1

\* curn[i] is where the loop is in the name when it gets to character i of the
\* filter.
isTopicMatched(f, n) ==
  LET curn[i \in 1 .. Len(f) + 1] == IF i = 1 THEN 1 ELSE Round(f[i - 1], n, curn[i - 1])
  IN curn[Len(f) + 1] = Len(n) + 1

\* deliverMessage: MQTTPacket_equals, or isTopicMatched.
Wanted(f, n) == f = n \/ isTopicMatched(f, n)

-----------------------------------------------------------------------------
\* MQTT: filters and names are compared level by level.

\* The levels of s: what is between its separators.
Levels(s) ==
  LET cut == {0, Len(s) + 1} \cup {i \in DOMAIN s : s[i] = "/"}
      upTo(i) == CHOOSE j \in cut : j > i /\ \A k \in cut : k > i => k >= j
      from[i \in cut] == IF i = Len(s) + 1 THEN <<>>
                         ELSE <<SubSeq(s, i + 1, upTo(i) - 1)>> \o from[upTo(i)]
  IN from[0]

LevelMatches(fl, nl) == fl = <<"+">> \/ fl = nl

\* '#' stands for the parent level and any number of levels below it.
MqttMatches(f, n) ==
  LET fl == Levels(f)
      nl == Levels(n)
      k == Len(fl)
  IN IF fl[k] = <<"#">>
       THEN Len(nl) >= k - 1 /\ \A i \in 1 .. k - 1 : LevelMatches(fl[i], nl[i])
       ELSE Len(nl) = k /\ \A i \in 1 .. k : LevelMatches(fl[i], nl[i])

\* "assume topic filter and name is in correct format": '#' is the whole
\* last level, '+' is a whole level, and names have no wildcards.
CorrectFilter(f) ==
  f # <<>> /\ \A i \in DOMAIN Levels(f) : \A j \in DOMAIN Levels(f)[i] :
    /\ Levels(f)[i][j] \in {"+", "#"} => Len(Levels(f)[i]) = 1
    /\ Levels(f)[i][j] = "#" => i = Len(Levels(f))
CorrectName(n) == n # <<>> /\ \A i \in DOMAIN n : n[i] \notin {"+", "#"}

\* Where the library is stricter than MQTT: '#' does not take the parent
\* level alone, and no wildcard takes an empty level.
Stricter(f, n) ==
  LET fl == Levels(f)
      nl == Levels(n)
  IN \/ fl[Len(fl)] = <<"#">> /\ Len(nl) < Len(fl)
     \/ \E i \in DOMAIN fl \cap DOMAIN nl : fl[i] \in {<<"+">>, <<"#">>} /\ nl[i] = <<>>
=============================================================================
