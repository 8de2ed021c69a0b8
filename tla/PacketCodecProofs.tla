------------------------- MODULE PacketCodecProofs -------------------------
(***************************************************************************)
(* Theorems about PacketCodec: what a serialiser writes, the deserialiser  *)
(* reads back, for every radix and for strings and payloads of any length. *)
(*                                                                         *)
(* The remaining length comes first.  MQTTPacket_encode is a recursive     *)
(* function; since a length has four digits at most, it is unrolled into   *)
(* Encoding, and so is the loop that reads the digits back.  Then the      *)
(* shape of a packet: Frame, with Holds saying which bytes are where in a  *)
(* buffer.  Then one round trip per packet type, along the positions the   *)
(* deserialiser computes.  Wire, at the end, is what the readers of        *)
(* PacketStream need to know of a packet.                                  *)
(*                                                                         *)
(* The loop over the filters of a packet is a recursive function whose     *)
(* argument grows in steps that depend on the bytes: LoopExists, a step of *)
(* FilterRead, shows by a least counterexample that it has a value.        *)
(***************************************************************************)
EXTENDS PacketCodec, WellFoundedInduction, TLAPS

USE RadixAssumption

\* MQTTPacket_encode unrolled: at most four digits.
Encoding(n) ==
  LET q == n \div Radix
      qq == q \div Radix
      qqq == qq \div Radix
  IN IF n < Radix THEN <<n>>
     ELSE IF q < Radix THEN <<Radix + (n % Radix), q>>
     ELSE IF qq < Radix THEN <<Radix + (n % Radix), Radix + (q % Radix), qq>>
     ELSE <<Radix + (n % Radix), Radix + (q % Radix), Radix + (qq % Radix), qqq>>

\* The division in MQTTPacket_encode's loop: d = length % 128, length /= 128.
LEMMA Quotient ==
  ASSUME NEW n \in Nat
  PROVE  /\ n \div Radix \in Nat
         /\ n % Radix \in 0 .. Radix - 1
         /\ n = (n \div Radix) * Radix + (n % Radix)
         /\ n >= Radix => n \div Radix \in 1 .. n - 1
         /\ n < Radix => n \div Radix = 0 /\ n % Radix = n
  OBVIOUS

\* A digit of MQTTPacket_encode is below the radix.
LEMMA Remainder ==
  ASSUME NEW n \in Nat
  PROVE  n % Radix \in Nat /\ n % Radix <= Radix - 1
  OBVIOUS

\* Dividing by the radix takes a length below m digits' range to the range of one digit less.
LEMMA QuotientBelow ==
  ASSUME NEW n \in Nat, NEW m \in Nat, n < m * Radix
  PROVE  n \div Radix < m
  OBVIOUS

\* The thresholds of MQTTPacket_len are numbers.
LEMMA Powers ==
  Radix * Radix \in Nat /\ Radix * Radix * Radix \in Nat /\ Limit \in Nat
  BY DEF Limit

\* Two buffers of the same length and bytes are equal.
LEMMA SeqEq ==
  ASSUME NEW S, NEW s \in Seq(S), NEW t \in Seq(S), Len(s) = Len(t), \A i \in 1 .. Len(s) : s[i] = t[i]
  PROVE  s = t
  OBVIOUS

\* Bytes written behind others, as by the serialisers' moving ptr: lengths add up.
LEMMA Concat ==
  ASSUME NEW S, NEW s \in Seq(S), NEW t \in Seq(S)
  PROVE  s \o t \in Seq(S) /\ Len(s \o t) = Len(s) + Len(t) /\ Len(s) \in Nat /\ Len(t) \in Nat
  OBVIOUS

\* Two bytes written one after another.
LEMMA Pair ==
  ASSUME NEW S, NEW a \in S, NEW b \in S
  PROVE  <<a>> \o <<b>> = <<a, b>>
<1> DEFINE s == <<a>> \o <<b>>
           t == <<a, b>>
<1>1. s \in Seq(S) /\ t \in Seq(S) /\ Len(s) = 2 /\ Len(t) = 2
  OBVIOUS
<1>2. s[1] = t[1] /\ s[2] = t[2]
  OBVIOUS
<1> HIDE DEF s, t
<1>3. s = t
  BY <1>1, <1>2, SeqEq
<1>4. QED BY <1>3 DEF s, t

\* MQTTPacket_encode computes the unrolled form for every length that four digits can carry.
LEMMA EncodeIs ==
  ASSUME NEW n \in 0 .. Limit - 1
  PROVE  MQTTPacket_encode(n) = Encoding(n)
\* Three bytes written one after another.
<1>Triple. ASSUME NEW S, NEW a \in S, NEW b \in S, NEW c \in S
           PROVE  <<a>> \o <<b, c>> = <<a, b, c>>
  <2> DEFINE s == <<a>> \o <<b, c>>
             t == <<a, b, c>>
  <2>1. s \in Seq(S) /\ t \in Seq(S) /\ Len(s) = 3 /\ Len(t) = 3
    OBVIOUS
  <2>2. s[1] = t[1] /\ s[2] = t[2] /\ s[3] = t[3]
    OBVIOUS
  <2> HIDE DEF s, t
  <2>3. s = t
    BY <2>1, <2>2, SeqEq
  <2>4. QED BY <2>3 DEF s, t
\* Four bytes written one after another.
<1>Quad. ASSUME NEW S, NEW a \in S, NEW b \in S, NEW c \in S, NEW d \in S
         PROVE  <<a>> \o <<b, c, d>> = <<a, b, c, d>>
  <2> DEFINE s == <<a>> \o <<b, c, d>>
             t == <<a, b, c, d>>
  <2>1. s \in Seq(S) /\ t \in Seq(S) /\ Len(s) = 4 /\ Len(t) = 4
    OBVIOUS
  <2>2. s[1] = t[1] /\ s[2] = t[2] /\ s[3] = t[3] /\ s[4] = t[4]
    OBVIOUS
  <2> HIDE DEF s, t
  <2>3. s = t
    BY <2>1, <2>2, SeqEq
  <2>4. QED BY <2>3 DEF s, t
\* The unrolled form obeys the loop of MQTTPacket_encode.
<1>EncodingStep. ASSUME NEW k \in 0 .. Limit - 1
                 PROVE  Encoding(k) = IF k < Radix THEN <<k>> ELSE <<Radix + (k % Radix)>> \o Encoding(k \div Radix)
  <2> DEFINE q == k \div Radix
             qq == q \div Radix
             qqq == qq \div Radix
  <2>0. k \in Nat /\ k < (Radix * Radix * Radix) * Radix
    BY Powers DEF Limit
  <2>1. q \in Nat /\ q < (Radix * Radix) * Radix
    BY <2>0, Quotient, QuotientBelow, Powers, Zenon
  <2>2. qq \in Nat /\ qq < Radix * Radix
    BY <2>1, Quotient, QuotientBelow, Powers, Zenon
  <2>3. qqq \in Nat /\ qqq < Radix
    <3>1. Radix \in Nat
      OBVIOUS
    <3>2. QED BY <2>2, <3>1, Quotient, QuotientBelow, Powers, Zenon
  <2>4. Encoding(q) = IF q < Radix THEN <<q>>
                      ELSE IF qq < Radix THEN <<Radix + (q % Radix), qq>>
                      ELSE <<Radix + (q % Radix), Radix + (qq % Radix), qqq>>
    BY <2>3, Zenon DEF Encoding
  <2>5. Encoding(k) = IF k < Radix THEN <<k>>
                      ELSE IF q < Radix THEN <<Radix + (k % Radix), q>>
                      ELSE IF qq < Radix THEN <<Radix + (k % Radix), Radix + (q % Radix), qq>>
                      ELSE <<Radix + (k % Radix), Radix + (q % Radix), Radix + (qq % Radix), qqq>>
    BY Zenon DEF Encoding
  <2> HIDE DEF q, qq, qqq
  <2>r. Radix + (k % Radix) \in Nat /\ Radix + (q % Radix) \in Nat /\ Radix + (qq % Radix) \in Nat
    BY <2>0, <2>1, <2>2, Quotient
  <2>6. Encoding(k) = IF k < Radix THEN <<k>> ELSE <<Radix + (k % Radix)>> \o Encoding(q)
    <3>1. CASE k < Radix
      BY <3>1, <2>5, Zenon
    <3>2. CASE ~ (k < Radix) /\ q < Radix
      BY <3>2, <2>1, <2>4, <2>5, <2>r, Pair, Zenon
    <3>3. CASE ~ (k < Radix) /\ ~ (q < Radix) /\ qq < Radix
      BY <3>3, <2>2, <2>4, <2>5, <2>r, <1>Triple, Zenon
    <3>4. CASE ~ (k < Radix) /\ ~ (q < Radix) /\ ~ (qq < Radix)
      BY <3>4, <2>3, <2>4, <2>5, <2>r, <1>Quad, ZenonT(40)
    <3>5. QED BY <3>1, <3>2, <3>3, <3>4, Zenon
  <2>7. QED BY <2>6, Zenon DEF q
<1> DEFINE Body(g) == [k \in 0 .. n |-> IF k < Radix THEN <<k>> ELSE <<Radix + (k % Radix)>> \o g[k \div Radix]]
           E == [k \in 0 .. n |-> Encoding(k)]
           e == CHOOSE g : g = Body(g)
<1>0. Limit \in Nat /\ n \in Nat
  BY DEF Limit
<1>1. ASSUME NEW k \in 0 .. n, ~ (k < Radix)
      PROVE  k \div Radix \in 0 .. n
  BY <1>0, <1>1, Quotient
<1>2. E = Body(E)
  <2>1. ASSUME NEW k \in 0 .. n
        PROVE  Encoding(k) = IF k < Radix THEN <<k>> ELSE <<Radix + (k % Radix)>> \o E[k \div Radix]
    <3>1. k \in 0 .. Limit - 1
      BY <1>0
    <3>2. QED BY <1>1, <3>1, <1>EncodingStep, Zenon
  <2>2. QED BY <2>1, Zenon
<1>3. e = Body(e)
  BY <1>2, Zenon
<1>4. MQTTPacket_encode(n) = e[n]
  BY Zenon DEF MQTTPacket_encode
<1> HIDE DEF e, E
<1>5. ASSUME NEW k \in 0 .. n
      PROVE  e[k] = IF k < Radix THEN <<k>> ELSE <<Radix + (k % Radix)>> \o e[k \div Radix]
  BY <1>3, Zenon
<1>s. ASSUME NEW k \in 0 .. n, k < Radix \/ e[k \div Radix] = Encoding(k \div Radix)
      PROVE  e[k] = Encoding(k)
  <2>1. k \in 0 .. Limit - 1
    BY <1>0
  <2>2. QED BY <1>5, <1>s, <2>1, <1>EncodingStep, Zenon
<1> DEFINE q == n \div Radix
           qq == q \div Radix
           qqq == qq \div Radix
<1>6. n < (Radix * Radix * Radix) * Radix /\ Radix \in Nat
  BY Powers DEF Limit
<1>7. q \in Nat /\ q < (Radix * Radix) * Radix
  BY <1>0, <1>6, Quotient, QuotientBelow, Powers, Zenon
<1>8. qq \in Nat /\ qq < Radix * Radix
  BY <1>7, Quotient, QuotientBelow, Powers, Zenon
<1>9. qqq \in Nat /\ qqq < Radix
  BY <1>6, <1>8, Quotient, QuotientBelow, Powers, Zenon
<1>10. n \in 0 .. n
  BY <1>0
<1>11. ~ (n < Radix) => q \in 0 .. n
  BY <1>10, <1>1, Zenon
<1>12. ~ (n < Radix) /\ ~ (q < Radix) => qq \in 0 .. n
  BY <1>11, <1>1, Zenon
<1>13. ~ (n < Radix) /\ ~ (q < Radix) /\ ~ (qq < Radix) => qqq \in 0 .. n
  BY <1>12, <1>1, Zenon
<1> HIDE DEF q, qq, qqq
<1>14. ~ (n < Radix) /\ ~ (q < Radix) /\ ~ (qq < Radix) => e[qqq] = Encoding(qqq)
  BY <1>9, <1>13, <1>s, Zenon
<1>15. ~ (n < Radix) /\ ~ (q < Radix) => e[qq] = Encoding(qq)
  BY <1>12, <1>14, <1>s, Zenon DEF qqq
<1>16. ~ (n < Radix) => e[q] = Encoding(q)
  BY <1>11, <1>15, <1>s, Zenon DEF qq
<1>17. e[n] = Encoding(n)
  BY <1>10, <1>16, <1>s, Zenon DEF q
<1>18. QED BY <1>4, <1>17, Zenon

\* The decoders' multiplier after j digits.
Multiplier(j) ==
  IF j = 0 THEN 1 ELSE IF j = 1 THEN Radix ELSE IF j = 2 THEN Radix * Radix
  ELSE IF j = 3 THEN Radix * Radix * Radix ELSE Limit

\* What the j-th digit adds to the length.
Term(ds, j) == (ds[j] % Radix) * Multiplier(j - 1)

\* The decoders' value after j digits.
Value(ds, j) ==
  IF j = 0 THEN 0 ELSE IF j = 1 THEN 0 + Term(ds, 1) ELSE IF j = 2 THEN 0 + Term(ds, 1) + Term(ds, 2)
  ELSE IF j = 3 THEN 0 + Term(ds, 1) + Term(ds, 2) + Term(ds, 3)
  ELSE 0 + Term(ds, 1) + Term(ds, 2) + Term(ds, 3) + Term(ds, 4)

\* multiplier *= 128, in each of the decoders' loops.
LEMMA MultiplierStep ==
  ASSUME NEW j \in 1 .. 4
  PROVE  Multiplier(j) = Multiplier(j - 1) * Radix /\ Multiplier(j) \in Nat /\ Multiplier(j - 1) \in Nat
<1>1. j = 1 \/ j = 2 \/ j = 3 \/ j = 4
  OBVIOUS
<1>2. CASE j = 1
  BY <1>2 DEF Multiplier
<1>3. CASE j = 2
  BY <1>3 DEF Multiplier
<1>4. CASE j = 3
  BY <1>4 DEF Multiplier
<1>5. CASE j = 4
  BY <1>5 DEF Multiplier, Limit
<1>6. QED BY <1>1, <1>2, <1>3, <1>4, <1>5

\* *value += (c & 127) * multiplier, in each of the decoders' loops.
LEMMA ValueStep ==
  ASSUME NEW ds, NEW j \in 1 .. 4
  PROVE  Value(ds, j) = Value(ds, j - 1) + Term(ds, j)
<1>1. j = 1 \/ j = 2 \/ j = 3 \/ j = 4
  OBVIOUS
<1>2. CASE j = 1
  BY <1>2 DEF Value
<1>3. CASE j = 2
  BY <1>3 DEF Value
<1>4. CASE j = 3
  BY <1>4 DEF Value
<1>5. CASE j = 4
  BY <1>5 DEF Value
<1>6. QED BY <1>1, <1>2, <1>3, <1>4, <1>5

\* The loop of MQTTPacket_decode computes the value of its digits.
LEMMA DigitsValueIs ==
  ASSUME NEW ds \in Seq(Nat), Len(ds) <= 4
  PROVE  DigitsValue(ds) = Value(ds, Len(ds))
\* A length has no digits or up to MAX_NO_OF_REMAINING_LENGTH_BYTES.
<1>UpToFour. ASSUME NEW n \in Nat, n <= 4
             PROVE  n = 0 \/ n = 1 \/ n = 2 \/ n = 3 \/ n = 4
  BY <1>UpToFour
<1> DEFINE Body(g) == [j \in 0 .. Len(ds) |->
                         IF j = 0 THEN [value |-> 0, multiplier |-> 1]
                         ELSE [value |-> g[j - 1].value + (ds[j] % Radix) * g[j - 1].multiplier,
                               multiplier |-> g[j - 1].multiplier * Radix]]
           At(j) == [value |-> Value(ds, j), multiplier |-> Multiplier(j)]
           W == [j \in 0 .. Len(ds) |-> At(j)]
           loop == CHOOSE g : g = Body(g)
<1>1. ASSUME NEW j \in 0 .. Len(ds), j # 0
      PROVE  j \in 1 .. 4 /\ j - 1 \in 0 .. Len(ds)
  BY <1>1
<1>2. At(0) = [value |-> 0, multiplier |-> 1]
  BY DEF Value, Multiplier
<1>3. ASSUME NEW j \in 0 .. Len(ds), j # 0
      PROVE  At(j) = [value |-> At(j - 1).value + (ds[j] % Radix) * At(j - 1).multiplier,
                      multiplier |-> At(j - 1).multiplier * Radix]
  BY <1>1, <1>3, ValueStep, MultiplierStep, Zenon DEF Term
<1> HIDE DEF At
<1>4. W = Body(W)
  <2>1. ASSUME NEW j \in 0 .. Len(ds)
        PROVE  At(j) = IF j = 0 THEN [value |-> 0, multiplier |-> 1]
                       ELSE [value |-> W[j - 1].value + (ds[j] % Radix) * W[j - 1].multiplier,
                             multiplier |-> W[j - 1].multiplier * Radix]
    BY <1>1, <1>2, <1>3, Zenon
  <2>2. QED BY <2>1, Zenon
<1>5. loop = Body(loop)
  BY <1>4, Zenon
<1>6. DigitsValue(ds) = loop[Len(ds)].value
  BY Zenon DEF DigitsValue
<1> HIDE DEF loop, W
<1>7. ASSUME NEW j \in 0 .. Len(ds), j # 0, loop[j - 1] = At(j - 1)
      PROVE  loop[j] = At(j)
  BY <1>5, <1>7, <1>3, Zenon
<1>8. loop[0] = At(0)
  <2>1. 0 \in 0 .. Len(ds)
    OBVIOUS
  <2>2. QED BY <2>1, <1>2, <1>5, Zenon
<1>9. 1 <= Len(ds) => loop[1] = At(1)
  BY <1>7, <1>8
<1>10. 2 <= Len(ds) => loop[2] = At(2)
  BY <1>7, <1>9
<1>11. 3 <= Len(ds) => loop[3] = At(3)
  BY <1>7, <1>10
<1>12. 4 <= Len(ds) => loop[4] = At(4)
  BY <1>7, <1>11
<1>n. Len(ds) \in Nat
  OBVIOUS
<1>l. Len(ds) = 0 \/ Len(ds) = 1 \/ Len(ds) = 2 \/ Len(ds) = 3 \/ Len(ds) = 4
  BY <1>n, <1>UpToFour, Zenon
<1>13. loop[Len(ds)] = At(Len(ds))
  BY <1>l, <1>8, <1>9, <1>10, <1>11, <1>12
<1>14. QED BY <1>6, <1>13 DEF At

\* What MQTTPacket_encode writes: one to four bytes, all but the last with the top bit set, whose value is the length.
LEMMA EncodeDigits ==
  ASSUME NEW n \in 0 .. Limit - 1
  PROVE  LET E == MQTTPacket_encode(n)
         IN /\ E \in Seq(Byte) /\ Len(E) \in 1 .. 4
            /\ \A i \in 1 .. Len(E) : More(E[i]) <=> i < Len(E)
            /\ Value(E, Len(E)) = n
\* Setting the top bit of a digit, as MQTTPacket_encode does, and masking it away, as the decoders do, gives the digit.
<1>DigitBits. ASSUME NEW x \in 0 .. Radix - 1
              PROVE  (Radix + x) % Radix = x /\ x % Radix = x
  OBVIOUS
\* Two digits of a remaining length, added up.
<1>TwoTerms. ASSUME NEW a \in Nat, NEW b \in Nat
             PROVE  0 + a * 1 = a /\ 0 + a * 1 + b * Radix = b * Radix + a
  OBVIOUS
\* Three digits of a remaining length, added up.
<1>ThreeTerms. ASSUME NEW a \in Nat, NEW b \in Nat, NEW c \in Nat
               PROVE  0 + a * 1 + b * Radix + c * (Radix * Radix) = (c * Radix + b) * Radix + a
  OBVIOUS
\* Four digits of a remaining length, added up.
<1>FourTerms. ASSUME NEW a \in Nat, NEW b \in Nat, NEW c \in Nat, NEW d \in Nat
              PROVE  0 + a * 1 + b * Radix + c * (Radix * Radix) + d * (Radix * Radix * Radix)
                       = ((d * Radix + c) * Radix + b) * Radix + a
  OBVIOUS
\* A digit that MQTTPacket_encode marks with the top bit is a byte, is told by the mark, and keeps its value.
<1>LowDigit. ASSUME NEW n1 \in Nat
             PROVE  /\ (Radix + (n1 % Radix)) % Radix = n1 % Radix
                    /\ Radix + (n1 % Radix) \in Byte /\ More(Radix + (n1 % Radix))
  <2>1. n1 % Radix \in 0 .. Radix - 1
    BY Remainder
  <2>2. (Radix + (n1 % Radix)) % Radix = n1 % Radix
    BY <2>1, <1>DigitBits
  <2>3. QED BY <2>1, <2>2 DEF Byte, More
\* The last digit has no mark: it is a byte below the radix.
<1>HighDigit. ASSUME NEW n1 \in Nat, n1 < Radix
              PROVE  n1 % Radix = n1 /\ n1 \in Byte /\ ~ More(n1)
  <2>1. n1 \in 0 .. Radix - 1
    BY <1>HighDigit
  <2>2. n1 % Radix = n1
    BY <2>1, <1>DigitBits
  <2>3. QED BY <2>1, <2>2 DEF Byte, More
<1> DEFINE E == MQTTPacket_encode(n)
           q == n \div Radix
           qq == q \div Radix
           qqq == qq \div Radix
           a == n % Radix
           b == q % Radix
           c == qq % Radix
<1>0. n \in Nat
  BY Powers
<1>1. n \in Nat /\ n < (Radix * Radix * Radix) * Radix /\ Radix \in Nat
  BY Powers DEF Limit
<1>2. q \in Nat /\ q < (Radix * Radix) * Radix /\ n = q * Radix + a /\ a \in Nat
  BY <1>1, Quotient, Remainder, QuotientBelow, Powers, Zenon
<1>3. qq \in Nat /\ qq < Radix * Radix /\ q = qq * Radix + b /\ b \in Nat
  BY <1>2, Quotient, Remainder, QuotientBelow, Powers, Zenon
<1>4. qqq \in Nat /\ qqq < Radix /\ qq = qqq * Radix + c /\ c \in Nat
  BY <1>1, <1>3, Quotient, Remainder, QuotientBelow, Powers, Zenon
<1>5. E = IF n < Radix THEN <<n>>
          ELSE IF q < Radix THEN <<Radix + a, q>>
          ELSE IF qq < Radix THEN <<Radix + a, Radix + b, qq>>
          ELSE <<Radix + a, Radix + b, Radix + c, qqq>>
  BY EncodeIs, Zenon DEF Encoding
<1>6. /\ (Radix + a) % Radix = a /\ Radix + a \in Byte /\ More(Radix + a)
      /\ (Radix + b) % Radix = b /\ Radix + b \in Byte /\ More(Radix + b)
      /\ (Radix + c) % Radix = c /\ Radix + c \in Byte /\ More(Radix + c)
  BY <1>1, <1>2, <1>3, <1>LowDigit, Zenon
<1> HIDE DEF E, q, qq, qqq, a, b, c
<1> SUFFICES /\ E \in Seq(Byte) /\ Len(E) \in 1 .. 4
             /\ \A i \in 1 .. Len(E) : More(E[i]) <=> i < Len(E)
             /\ Value(E, Len(E)) = n
  BY Zenon DEF E
<1>7. CASE n < Radix
  <2>1. n % Radix = n /\ n \in Byte /\ ~ More(n)
    BY <1>7, <1>1, <1>HighDigit, Zenon
  <2>2. E = <<n>>
    BY <1>5, <1>7, Zenon
  <2>3. E \in Seq(Byte) /\ Len(E) = 1 /\ E[1] = n
    BY <2>1, <2>2
  <2>4. Value(E, 1) = 0 + n * 1
    BY <2>1, <2>3 DEF Value, Term, Multiplier
  <2>5. Value(E, 1) = n
    BY <2>4, <1>1, <1>TwoTerms, Zenon
  <2>6. QED BY <2>1, <2>3, <2>5
<1>8. CASE ~ (n < Radix) /\ q < Radix
  <2>1. q % Radix = q /\ q \in Byte /\ ~ More(q)
    BY <1>8, <1>2, <1>HighDigit, Zenon
  <2>2. E = <<Radix + a, q>>
    BY <1>5, <1>8, Zenon
  <2>3. E \in Seq(Byte) /\ Len(E) = 2 /\ E[1] = Radix + a /\ E[2] = q
    BY <1>6, <2>1, <2>2
  <2>4. Value(E, 2) = 0 + a * 1 + q * Radix
    BY <1>6, <2>1, <2>3 DEF Value, Term, Multiplier
  <2>5. Value(E, 2) = n
    BY <2>4, <1>1, <1>2, <1>TwoTerms, Zenon
  <2>6. QED BY <1>6, <2>1, <2>3, <2>5
<1>9. CASE ~ (n < Radix) /\ ~ (q < Radix) /\ qq < Radix
  <2>1. qq % Radix = qq /\ qq \in Byte /\ ~ More(qq)
    BY <1>9, <1>3, <1>HighDigit, Zenon
  <2>2. E = <<Radix + a, Radix + b, qq>>
    BY <1>5, <1>9, Zenon
  <2>3. E \in Seq(Byte) /\ Len(E) = 3 /\ E[1] = Radix + a /\ E[2] = Radix + b /\ E[3] = qq
    BY <1>6, <2>1, <2>2
  <2>4. Value(E, 3) = 0 + a * 1 + b * Radix + qq * (Radix * Radix)
    BY <1>6, <2>1, <2>3 DEF Value, Term, Multiplier
  <2>5. Value(E, 3) = n
    <3>1. 0 + a * 1 + b * Radix + qq * (Radix * Radix) = (qq * Radix + b) * Radix + a
      BY <1>2, <1>3, <1>ThreeTerms, Zenon
    <3>2. n = (qq * Radix + b) * Radix + a
      BY <1>2, <1>3, Zenon
    <3>3. QED BY <2>4, <3>1, <3>2, Zenon
  <2>6. QED BY <1>6, <2>1, <2>3, <2>5
<1>10. CASE ~ (n < Radix) /\ ~ (q < Radix) /\ ~ (qq < Radix)
  <2>1. qqq % Radix = qqq /\ qqq \in Byte /\ ~ More(qqq)
    BY <1>4, <1>HighDigit, Zenon
  <2>2. E = <<Radix + a, Radix + b, Radix + c, qqq>>
    BY <1>5, <1>10, Zenon
  <2>3. E \in Seq(Byte) /\ Len(E) = 4 /\ E[1] = Radix + a /\ E[2] = Radix + b /\ E[3] = Radix + c /\ E[4] = qqq
    BY <1>6, <2>1, <2>2
  <2>4. Value(E, 4) = 0 + a * 1 + b * Radix + c * (Radix * Radix) + qqq * (Radix * Radix * Radix)
    BY <1>6, <2>1, <2>3 DEF Value, Term, Multiplier
  <2>5. Value(E, 4) = n
    <3>0. a \in Nat /\ b \in Nat /\ c \in Nat /\ qqq \in Nat
      BY <1>2, <1>3, <1>4, Zenon
    <3>1. 0 + a * 1 + b * Radix + c * (Radix * Radix) + qqq * (Radix * Radix * Radix)
            = ((qqq * Radix + c) * Radix + b) * Radix + a
      BY <3>0, <1>FourTerms, Zenon
    <3>2. n = ((qqq * Radix + c) * Radix + b) * Radix + a
      BY <1>2, <1>3, <1>4, Zenon
    <3>3. QED BY <2>4, <3>1, <3>2, Zenon
  <2>6. QED BY <1>6, <2>1, <2>3, <2>5
<1>11. QED BY <1>7, <1>8, <1>9, <1>10, Zenon

\* How many digits MQTTPacket_encode writes, by the thresholds.
LEMMA EncodeLength ==
  ASSUME NEW n \in 0 .. Limit - 1
  PROVE  /\ Len(MQTTPacket_encode(n)) =
              IF n < Radix THEN 1 ELSE IF n < Radix * Radix THEN 2 ELSE IF n < Radix * Radix * Radix THEN 3 ELSE 4
\* Dividing by the radix keeps a length at or above a threshold of one digit more.
<1>QuotientAbove. ASSUME NEW n1 \in Nat, NEW m \in Nat, n1 >= m * Radix
                  PROVE  n1 \div Radix >= m
  BY <1>QuotientAbove
<1> DEFINE q == n \div Radix
           qq == q \div Radix
<1>1. n \in Nat /\ Radix \in Nat /\ Radix * Radix \in Nat /\ Radix * Radix * Radix \in Nat
  BY Powers
<1>2. q \in Nat /\ qq \in Nat
  BY <1>1, Quotient, Zenon
<1>3. q < Radix <=> n < Radix * Radix
  <2>1. n < Radix * Radix => q < Radix
    BY <1>1, QuotientBelow, Zenon
  <2>2. n >= Radix * Radix => q >= Radix
    BY <1>1, <1>QuotientAbove, Zenon
  <2>3. QED BY <1>1, <1>2, <2>1, <2>2
<1>4. qq < Radix <=> n < Radix * Radix * Radix
  <2>1. n < (Radix * Radix) * Radix => q < Radix * Radix
    BY <1>1, QuotientBelow, Zenon
  <2>2. n >= (Radix * Radix) * Radix => q >= Radix * Radix
    BY <1>1, <1>QuotientAbove, Zenon
  <2>3. q < Radix * Radix => qq < Radix
    BY <1>1, <1>2, QuotientBelow, Zenon
  <2>4. q >= Radix * Radix => qq >= Radix
    BY <1>1, <1>2, <1>QuotientAbove, Zenon
  <2>5. QED BY <1>1, <1>2, <2>1, <2>2, <2>3, <2>4
<1>5. Len(MQTTPacket_encode(n)) = IF n < Radix THEN 1 ELSE IF q < Radix THEN 2 ELSE IF qq < Radix THEN 3 ELSE 4
  BY EncodeIs DEF Encoding
<1> HIDE DEF q, qq
<1>6. QED BY <1>3, <1>4, <1>5, Zenon

\* MQTTPacket_len asks for the bytes that a packet takes or for one more, and never for less.
LEMMA RoomFor ==
  ASSUME NEW n \in 0 .. Limit - 1
  PROVE  MQTTPacket_len(n) - (1 + Len(MQTTPacket_encode(n)) + n) \in {0, 1}
<1> DEFINE r2 == Radix * Radix
           r3 == Radix * Radix * Radix
<1>1. n \in Nat /\ Radix \in Nat /\ r2 \in Nat /\ r3 \in Nat /\ Radix < r2 /\ r2 < r3 - 1
  <2>1. n \in Nat /\ Radix \in Nat /\ r2 \in Nat /\ r3 \in Nat
    BY Powers
  <2>2. Radix < r2
    OBVIOUS
  <2>3. r2 < r3 - 1
    OBVIOUS
  <2>4. QED BY <2>1, <2>2, <2>3
<1>2. Len(MQTTPacket_encode(n)) = IF n < Radix THEN 1 ELSE IF n < r2 THEN 2 ELSE IF n < r3 THEN 3 ELSE 4
  BY EncodeLength, Zenon
<1>3. MQTTPacket_len(n) = n + 1 + (IF n + 1 < Radix THEN 1 ELSE IF n + 1 < r2 THEN 2 ELSE IF n + 1 < r3 - 1 THEN 3 ELSE 4)
  BY Zenon DEF MQTTPacket_len
<1> HIDE DEF r2, r3
<1>4. QED BY <1>1, <1>2, <1>3

\* The remaining length, for every value that four digits can carry: MQTTPacket_encode writes one to four
\* bytes, MQTTPacket_decode gets the value back from them, and MQTTPacket_len, which adds the header byte before
\* it looks at the thresholds, asks for as many bytes as the packet takes or for one more.
THEOREM RemainingLength ==
  ASSUME NEW n \in 0 .. Limit - 1
  PROVE  /\ MQTTPacket_encode(n) \in Seq(Byte) /\ Len(MQTTPacket_encode(n)) \in 1 .. MAX_NO_OF_REMAINING_LENGTH_BYTES
         /\ DigitsValue(MQTTPacket_encode(n)) = n
         /\ MQTTPacket_len(n) - (1 + Len(MQTTPacket_encode(n)) + n) \in {0, 1}
<1> DEFINE E == MQTTPacket_encode(n)
<1>1. E \in Seq(Byte) /\ Len(E) \in 1 .. 4 /\ Value(E, Len(E)) = n
  BY EncodeDigits, Zenon
<1> HIDE DEF E
<1>2. Len(E) <= 4
  <2> DEFINE l == Len(E)
  <2>1. l \in 1 .. 4
    BY <1>1, Zenon
  <2> HIDE DEF l
  <2>2. l <= 4
    BY ONLY <2>1
  <2>3. QED BY <2>2, Zenon DEF l
<1>3. E \in Seq(Nat)
  BY <1>1 DEF Byte
<1>4. DigitsValue(E) = n
  BY <1>1, <1>2, <1>3, DigitsValueIs, Zenon
<1>5. QED BY <1>1, <1>4, RoomFor, Zenon DEF E, MAX_NO_OF_REMAINING_LENGTH_BYTES

-----------------------------------------------------------------------------
\* The bytes x are in buffer d from position at.
Holds(d, at, x) ==
  /\ at \in Nat \ {0} /\ at + Len(x) <= Len(d) + 1
  /\ \A i \in 1 .. Len(x) : d[at + i - 1] = x[i]

\* A buffer that holds two pieces holds the first, and the second behind it: the reader's curdata moves along.
LEMMA HoldsParts ==
  ASSUME NEW d \in Seq(Byte), NEW x \in Seq(Byte), NEW y \in Seq(Byte), NEW at, Holds(d, at, x \o y)
  PROVE  Holds(d, at, x) /\ Holds(d, at + Len(x), y)
<1>1. at \in Nat \ {0} /\ at + Len(x) + Len(y) <= Len(d) + 1 /\ Len(x) \in Nat /\ Len(y) \in Nat
  BY DEF Holds
<1>2. \A i \in 1 .. Len(x) : d[at + i - 1] = x[i]
  BY <1>1 DEF Holds
<1>3. ASSUME NEW i \in 1 .. Len(y)
      PROVE  d[at + Len(x) + i - 1] = y[i]
  <2>1. Len(x) + i \in 1 .. Len(x \o y) /\ (x \o y)[Len(x) + i] = y[i]
    OBVIOUS
  <2>2. d[at + (Len(x) + i) - 1] = y[i]
    BY <2>1, Zenon DEF Holds
  <2>3. at + (Len(x) + i) - 1 = at + Len(x) + i - 1
    BY <1>1
  <2>4. QED BY <2>2, <2>3
<1>4. QED BY <1>1, <1>2, <1>3 DEF Holds

\* Reading as many bytes as a piece has gives the piece.
LEMMA HoldsSubSeq ==
  ASSUME NEW d \in Seq(Byte), NEW x \in Seq(Byte), NEW at, Holds(d, at, x)
  PROVE  SubSeq(d, at, at + Len(x) - 1) = x
<1> DEFINE s == SubSeq(d, at, at + Len(x) - 1)
<1>1. at \in Nat \ {0} /\ at + Len(x) <= Len(d) + 1 /\ Len(x) \in Nat /\ Len(d) \in Nat
  BY DEF Holds
<1>2. s \in Seq(Byte) /\ Len(s) = Len(x)
  BY <1>1
<1>3. \A i \in 1 .. Len(x) : s[i] = d[at + i - 1]
  BY <1>1
<1> HIDE DEF s
<1>4. \A i \in 1 .. Len(s) : s[i] = x[i]
  BY <1>2, <1>3 DEF Holds
<1>5. s = x
  BY <1>2, <1>4, SeqEq
<1>6. QED BY <1>5 DEF s

\* A packet as every serialiser writes it: header byte, remaining length, body.
Frame(h, body) == <<h>> \o MQTTPacket_encode(Len(body)) \o body

\* Bytes are numbers.
LEMMA BytesAreNats ==
  ASSUME NEW s \in Seq(Byte)
  PROVE  s \in Seq(Nat)
<1>1. \A i \in 1 .. Len(s) : s[i] \in Byte
  OBVIOUS
<1>2. \A i \in 1 .. Len(s) : s[i] \in Nat
  BY <1>1, Zenon DEF Byte
<1>3. Len(s) \in Nat /\ DOMAIN s = 1 .. Len(s)
  OBVIOUS
<1>4. QED BY <1>2, <1>3

\* Where the deserialisers find the parts of a packet: curdata and enddata are the ends of the body.
LEMMA FrameShape ==
  ASSUME NEW h \in Byte, NEW body \in Seq(Byte), Len(body) < Limit
  PROVE  LET s == Frame(h, body)
             E == MQTTPacket_encode(Len(body))
         IN /\ s \in Seq(Byte) /\ E \in Seq(Byte) /\ Len(E) \in 1 .. 4
            /\ Len(s) = 1 + Len(E) + Len(body) /\ s[1] = h
            /\ DigitsAt(s, 2) = E /\ Start(s) = 2 + Len(E) /\ End(s) = Len(s) + 1
            /\ Holds(s, 2, E) /\ Holds(s, 2 + Len(E), body)
\* MQTTPacket_decodeBuf finds the digits of the remaining length behind the header byte.
<1>DigitsFound. ASSUME NEW d \in Seq(Byte), NEW E \in Seq(Byte), NEW L \in 1 .. 4, Len(E) = L, Holds(d, 2, E),
                       \A i \in 1 .. L : More(E[i]) <=> i < L
                PROVE  DigitsAt(d, 2) = E
  <2> DEFINE P(k) == /\ k = MAX_NO_OF_REMAINING_LENGTH_BYTES \/ ~ More(d[2 + k - 1])
                     /\ \A j \in 1 .. k - 1 : More(d[2 + j - 1])
             n == CHOOSE k \in 1 .. MAX_NO_OF_REMAINING_LENGTH_BYTES : P(k)
  <2>0. MAX_NO_OF_REMAINING_LENGTH_BYTES = 4
    BY DEF MAX_NO_OF_REMAINING_LENGTH_BYTES
  <2>1. \A i \in 1 .. L : More(d[2 + i - 1]) <=> i < L
    BY <1>DigitsFound DEF Holds
  <2>2. P(L) /\ L \in 1 .. MAX_NO_OF_REMAINING_LENGTH_BYTES
    <3>1. ~ More(d[2 + L - 1])
      BY <2>1
    <3>2. \A j \in 1 .. L - 1 : j \in 1 .. L /\ j < L
      OBVIOUS
    <3>3. QED BY <2>0, <2>1, <3>1, <3>2, Zenon
  <2>3. ASSUME NEW k \in 1 .. MAX_NO_OF_REMAINING_LENGTH_BYTES, P(k)
        PROVE  k = L
    <3>0. k \in 1 .. 4
      BY <2>0
    <3>1. ASSUME k < L
          PROVE  FALSE
      <4>1. k \in 1 .. L /\ k # 4
        BY <3>0, <3>1
      <4>2. QED BY <2>0, <2>1, <2>3, <3>1, <4>1, Zenon
    <3>2. ASSUME L < k
          PROVE  FALSE
      <4>1. L \in 1 .. k - 1 /\ L \in 1 .. L /\ ~ (L < L)
        BY <3>0, <3>2
      <4>2. QED BY <2>1, <2>3, <4>1, Zenon
    <3>3. QED BY <3>0, <3>1, <3>2
  <2>4. n = L
    BY <2>2, <2>3, Zenon
  <2>5. DigitsAt(d, 2) = SubSeq(d, 2, 2 + n - 1)
    BY Zenon DEF DigitsAt
  <2>6. QED BY <1>DigitsFound, <2>4, <2>5, HoldsSubSeq, Zenon
<1> DEFINE s == Frame(h, body)
           E == MQTTPacket_encode(Len(body))
           n == Len(body)
<1>0. n \in Nat /\ n \in 0 .. Limit - 1
  BY Powers
<1>1. E \in Seq(Byte) /\ Len(E) \in 1 .. 4 /\ (\A i \in 1 .. Len(E) : More(E[i]) <=> i < Len(E)) /\ Value(E, Len(E)) = n
  BY <1>0, EncodeDigits, Zenon
<1>e. s = <<h>> \o E \o body
  BY Zenon DEF Frame
<1> HIDE DEF s, E
<1>2. s \in Seq(Byte) /\ Len(s) = 1 + Len(E) + n /\ s[1] = h
  BY <1>e, <1>1
<1>3. Holds(s, 1, s)
  BY <1>2 DEF Holds
<1>4. <<h>> \in Seq(Byte) /\ Len(<<h>>) = 1 /\ <<h>> \o E \in Seq(Byte) /\ Len(<<h>> \o E) = 1 + Len(E)
  BY <1>1
<1>5. Holds(s, 1, <<h>> \o E) /\ Holds(s, 1 + Len(<<h>> \o E), body)
  <2>1. Holds(s, 1, (<<h>> \o E) \o body)
    BY <1>3, <1>e, Zenon
  <2>2. QED BY <2>1, <1>2, <1>4, HoldsParts, Zenon
<1>6. Holds(s, 1 + Len(<<h>>), E)
  BY <1>2, <1>1, <1>4, <1>5, HoldsParts, Zenon
<1>7. Holds(s, 2, E) /\ Holds(s, 2 + Len(E), body)
  <2>1. 1 + Len(<<h>>) = 2 /\ 1 + Len(<<h>> \o E) = 2 + Len(E)
    BY <1>1, <1>4
  <2>2. QED BY <1>5, <1>6, <2>1
<1>8. DigitsAt(s, 2) = E
  BY <1>1, <1>2, <1>7, <1>DigitsFound, Zenon
<1>9. Start(s) = 2 + Len(E)
  BY <1>8, Zenon DEF Start
<1>10. DigitsValue(E) = n
  <2>1. E \in Seq(Nat)
    BY <1>1, BytesAreNats, Zenon
  <2>3. Len(E) <= 4
    BY <1>1
  <2>2. QED BY <1>1, <2>1, <2>3, DigitsValueIs, Zenon
<1>11. End(s) = Len(s) + 1
  <2>1. End(s) = 2 + Len(E) + n
    BY <1>8, <1>9, <1>10, Zenon DEF End
  <2>2. QED BY <2>1, <1>0, <1>1, <1>2
<1>12. QED BY <1>1, <1>2, <1>7, <1>8, <1>9, <1>11, Zenon DEF s, E

\* readInt gets back what writeInt wrote.
LEMMA IntHeld ==
  ASSUME NEW n \in UShort, NEW d \in Seq(Byte), NEW at, Holds(d, at, Int16(n))
  PROVE  IntAt(d, at) = n
<1>1. Len(Int16(n)) = 2 /\ Int16(n)[1] = (n \div 256) % 256 /\ Int16(n)[2] = n % 256
  BY DEF Int16
<1>2. at \in Nat /\ d[at + 1 - 1] = (n \div 256) % 256 /\ d[at + 2 - 1] = n % 256
  BY <1>1 DEF Holds
<1>3. d[at] = (n \div 256) % 256 /\ d[at + 1] = n % 256
  BY <1>2
<1>4. 256 * ((n \div 256) % 256) + (n % 256) = n
  BY DEF UShort
<1>5. QED BY <1>3, <1>4 DEF IntAt

\* writeInt writes two bytes.
LEMMA Int16Bytes ==
  ASSUME NEW n \in UShort
  PROVE  Int16(n) \in Seq(Byte) /\ Len(Int16(n)) = 2
<1>1. (n \div 256) % 256 \in Byte /\ n % 256 \in Byte
  BY DEF UShort, Byte
<1>2. QED BY <1>1 DEF Int16

\* writeMQTTString writes the length, in two bytes, and the string.
LEMMA TextBytes ==
  ASSUME NEW t \in Text
  PROVE  /\ t \in Seq(Byte) /\ Len(t) \in UShort
         /\ MQTTString(t) \in Seq(Byte) /\ Len(MQTTString(t)) = 2 + Len(t)
<1>1. t \in Seq(Byte) /\ Len(t) \in UShort
  BY DEF Text, UShort
<1>2. Int16(Len(t)) \in Seq(Byte) /\ Len(Int16(Len(t))) = 2
  BY <1>1, Int16Bytes, Zenon
<1> DEFINE u == Int16(Len(t))
<1> HIDE DEF u
<1>3. u \o t \in Seq(Byte) /\ Len(u \o t) = 2 + Len(t)
  <2>1. u \in Seq(Byte) /\ Len(u) = 2
    BY <1>2, Zenon DEF u
  <2>2. QED BY <1>1, <2>1, Concat, Zenon
<1>4. QED BY <1>1, <1>3, Zenon DEF MQTTString, u

\* readMQTTLenString gets back what writeMQTTString wrote, and finds that it fits before enddata.
LEMMA TextHeld ==
  ASSUME NEW t \in Text, NEW d \in Seq(Byte), NEW at, Holds(d, at, MQTTString(t))
  PROVE  /\ Past(d, at) = at + 2 + Len(t)
         /\ StringAt(d, at) = t
         /\ \A end \in Nat : at + 2 + Len(t) <= end => StringFits(d, at, end)
<1>1. t \in Seq(Byte) /\ Len(t) \in UShort /\ Int16(Len(t)) \in Seq(Byte) /\ Len(Int16(Len(t))) = 2
  BY TextBytes, Int16Bytes
<1>2. Holds(d, at, Int16(Len(t))) /\ Holds(d, at + Len(Int16(Len(t))), t)
  BY <1>1, HoldsParts, Zenon DEF MQTTString
<1>3. IntAt(d, at) = Len(t) /\ Holds(d, at + 2, t)
  BY <1>1, <1>2, IntHeld
<1>4. at \in Nat /\ Len(t) \in Nat
  BY <1>3, <1>1 DEF Holds, UShort
<1>5. Past(d, at) = at + 2 + Len(t)
  BY <1>3, Zenon DEF Past
<1>6. StringAt(d, at) = t
  <2>1. SubSeq(d, at + 2, at + 2 + Len(t) - 1) = t
    BY <1>1, <1>3, HoldsSubSeq, Zenon
  <2>2. at + 2 + Len(t) - 1 = at + 1 + Len(t)
    BY <1>4
  <2>3. QED BY <1>3, <2>1, <2>2, Zenon DEF StringAt
<1>7. \A end \in Nat : at + 2 + Len(t) <= end => StringFits(d, at, end)
  BY <1>3, <1>4 DEF StringFits
<1>8. QED BY <1>5, <1>6, <1>7

-----------------------------------------------------------------------------
HIDE RadixAssumption

\* The values of a flag of one bit.
Bit == {0, 1}
\* The values of a QoS.
QoS == 0 .. 2
\* The values of the type in an MQTTHeader.
PacketType == 1 .. 14

\* The packet types and the flags given to MQTTHeader are in range.
LEMMA PacketTypes ==
  /\ CONNECT \in PacketType /\ CONNACK \in PacketType /\ PUBLISH \in PacketType /\ SUBSCRIBE \in PacketType
  /\ SUBACK \in PacketType /\ UNSUBSCRIBE \in PacketType /\ UNSUBACK \in PacketType
  /\ PINGREQ \in PacketType /\ PINGRESP \in PacketType /\ DISCONNECT \in PacketType
  /\ \A t \in PUBACK .. PUBCOMP : t \in PacketType
  /\ 0 \in Bit /\ 0 \in QoS /\ 1 \in QoS
  BY DEF PacketType, Bit, QoS, CONNECT, CONNACK, PUBLISH, PUBACK, PUBCOMP, SUBSCRIBE, SUBACK, UNSUBSCRIBE, UNSUBACK,
         PINGREQ, PINGRESP, DISCONNECT

\* The bit fields of MQTTHeader: each keeps its value.
LEMMA HeaderBits ==
  ASSUME NEW type \in PacketType, NEW dup \in Bit, NEW qos \in QoS, NEW retain \in Bit,
         NEW h, h = HeaderByte(type, dup, qos, retain)
  PROVE  h \in Byte /\ TypeOf(h) = type /\ DupOf(h) = dup /\ QosOf(h) = qos /\ RetainOf(h) = retain
<1>1. qos % 4 = qos
  BY DEF QoS
<1>2. h = 16 * type + 8 * dup + 2 * qos + retain
  BY <1>1, Zenon DEF HeaderByte
<1>3. h \in Byte
  BY <1>2 DEF Byte, PacketType, Bit, QoS
<1>4. h \div 16 = type
  BY <1>2 DEF PacketType, Bit, QoS
<1>5. (h \div 8) % 2 = dup
  BY <1>2 DEF PacketType, Bit, QoS
<1>6. (h \div 2) % 4 = qos
  BY <1>2 DEF PacketType, Bit, QoS
<1>7. h % 2 = retain
  BY <1>2 DEF PacketType, Bit, QoS
<1>8. QED BY <1>2, <1>3, <1>4, <1>5, <1>6, <1>7, Zenon DEF TypeOf, DupOf, QosOf, RetainOf

\* A serialiser that gives the length of its body writes a packet of this form.
LEMMA WrittenFrame ==
  ASSUME NEW needs, NEW h, NEW body
  PROVE  Written(needs, h, Len(body), body).bytes = Frame(h, body) /\ Written(needs, h, Len(body), body).needs = needs
  BY Zenon DEF Written, Frame

\* The serialiser for each packet type.
LEMMA SerializerOf ==
  ASSUME NEW p
  PROVE  /\ p.type = CONNECT => Serializer(p) = MQTTSerialize_connect(p)
         /\ p.type = CONNACK => Serializer(p) = MQTTSerialize_connack(p)
         /\ p.type = PUBLISH => Serializer(p) = MQTTSerialize_publish(p)
         /\ p.type \in PUBACK .. PUBCOMP => Serializer(p) = MQTTSerialize_ack(p)
         /\ p.type = SUBSCRIBE => Serializer(p) = MQTTSerialize_subscribe(p)
         /\ p.type = SUBACK => Serializer(p) = MQTTSerialize_suback(p)
         /\ p.type = UNSUBSCRIBE => Serializer(p) = MQTTSerialize_unsubscribe(p)
         /\ p.type = UNSUBACK => Serializer(p) = MQTTSerialize_unsuback(p)
         /\ p.type \in {PINGREQ, PINGRESP, DISCONNECT} => Serializer(p) = MQTTSerialize_zero(p.type)
  BY DEF Serializer, CONNECT, CONNACK, PUBLISH, PUBACK, PUBCOMP, SUBSCRIBE, SUBACK, UNSUBSCRIBE, UNSUBACK,
         PINGREQ, PINGRESP, DISCONNECT

\* The deserialiser for each packet type.
LEMMA DeserializerOf ==
  ASSUME NEW d
  PROVE  /\ TypeOf(d[1]) = CONNECT => Deserialize(d) = MQTTDeserialize_connect(d)
         /\ TypeOf(d[1]) = CONNACK => Deserialize(d) = MQTTDeserialize_connack(d)
         /\ TypeOf(d[1]) = PUBLISH => Deserialize(d) = MQTTDeserialize_publish(d)
         /\ TypeOf(d[1]) \in PUBACK .. PUBCOMP => Deserialize(d) = MQTTDeserialize_ack(d)
         /\ TypeOf(d[1]) = SUBSCRIBE => Deserialize(d) = MQTTDeserialize_subscribe(d)
         /\ TypeOf(d[1]) = SUBACK => Deserialize(d) = MQTTDeserialize_suback(d)
         /\ TypeOf(d[1]) = UNSUBSCRIBE => Deserialize(d) = MQTTDeserialize_unsubscribe(d)
         /\ TypeOf(d[1]) = UNSUBACK => Deserialize(d) = MQTTDeserialize_unsuback(d)
         /\ TypeOf(d[1]) \in {PINGREQ, PINGRESP, DISCONNECT} => Deserialize(d) = [type |-> TypeOf(d[1])]
  BY DEF Deserialize, CONNECT, CONNACK, PUBLISH, PUBACK, PUBCOMP, SUBSCRIBE, SUBACK, UNSUBSCRIBE, UNSUBACK,
         PINGREQ, PINGRESP, DISCONNECT

\* A packet for which MQTTPacket_len is within a buffer of B bytes has a length that four digits can carry.
LEMMA LenAbove ==
  ASSUME NEW body \in Seq(Byte), NEW B \in 0 .. Limit, ~ (MQTTPacket_len(Len(body)) > B)
  PROVE  Len(body) < Limit
<1> DEFINE n == Len(body)
           k == IF n + 1 < Radix THEN 1 ELSE IF n + 1 < Radix * Radix THEN 2
                ELSE IF n + 1 < Radix * Radix * Radix - 1 THEN 3 ELSE 4
<1>1. n \in Nat /\ k \in Nat
  OBVIOUS
<1>2. MQTTPacket_len(n) = n + 1 + k
  BY Zenon DEF MQTTPacket_len
<1>3. Limit \in Nat
  BY Powers, Zenon
<1> HIDE DEF n, k
<1>4. n < Limit
  BY <1>1, <1>2, <1>3, SMT DEF n
<1>5. QED BY <1>4 DEF n

\* The arguments of MQTTSerialize_publish.
LEMMA PublishFields ==
  ASSUME NEW p \in PublishPackets
  PROVE  /\ p.type = PUBLISH /\ p.dup \in Bit /\ p.qos \in QoS /\ p.retained \in Bit /\ p.id \in UShort
         /\ p.topic \in Text /\ p.payload \in Seq(Byte) /\ (p.qos = 0 => p.id = 0)
         /\ p = [type |-> PUBLISH, dup |-> p.dup, qos |-> p.qos, retained |-> p.retained, id |-> p.id,
                 topic |-> p.topic, payload |-> p.payload]
  BY DEF PublishPackets, Bit, QoS

\* The body of a PUBLISH: topic, packet id when there is one, payload.
PublishBody(p) == MQTTString(p.topic) \o (IF p.qos > 0 THEN Int16(p.id) ELSE <<>>) \o p.payload

\* MQTTSerialize_publish writes as many bytes as MQTTSerialize_publishLength says.
LEMMA PublishFrame ==
  ASSUME NEW p \in PublishPackets
  PROVE  /\ PublishBody(p) \in Seq(Byte) /\ Len(PublishBody(p)) = publishLength(p)
         /\ Serialize(p) = Frame(HeaderByte(PUBLISH, p.dup, p.qos, p.retained), PublishBody(p))
         /\ Needs(p) = MQTTPacket_len(publishLength(p))
<1> DEFINE i == IF p.qos > 0 THEN Int16(p.id) ELSE <<>>
           t == MQTTString(p.topic)
<1>1. t \in Seq(Byte) /\ Len(t) = 2 + Len(p.topic) /\ p.payload \in Seq(Byte) /\ p.topic \in Seq(Byte)
  BY PublishFields, TextBytes, Zenon
<1>2. i \in Seq(Byte) /\ Len(i) = IF p.qos > 0 THEN 2 ELSE 0
  <2>1. CASE p.qos > 0
    BY <2>1, PublishFields, Int16Bytes, Zenon
  <2>2. CASE ~ (p.qos > 0)
    BY <2>2
  <2>3. QED BY <2>1, <2>2, Zenon
<1>b. PublishBody(p) = t \o i \o p.payload
  BY Zenon DEF PublishBody
<1>l. publishLength(p) = 2 + Len(p.topic) + Len(p.payload) + (IF p.qos > 0 THEN 2 ELSE 0)
  BY Zenon DEF publishLength
<1> HIDE DEF i, t
<1>3. PublishBody(p) \in Seq(Byte) /\ Len(PublishBody(p)) = publishLength(p)
  <2>1. PublishBody(p) \in Seq(Byte) /\ Len(PublishBody(p)) = Len(t) + Len(i) + Len(p.payload)
    <3>1. t \in Seq(Byte) /\ i \in Seq(Byte) /\ p.payload \in Seq(Byte)
      BY <1>1, <1>2, Zenon
    <3>2. t \o i \o p.payload \in Seq(Byte) /\ Len(t \o i \o p.payload) = Len(t) + Len(i) + Len(p.payload)
      BY <3>1
    <3>3. QED BY <1>b, <3>2, Zenon
  <2>2. Len(p.topic) \in Nat /\ Len(p.payload) \in Nat
    BY <1>1, Concat, Zenon
  <2>3. Len(t) + Len(i) + Len(p.payload) = publishLength(p)
    <3> DEFINE k == IF p.qos > 0 THEN 2 ELSE 0
    <3>1. k \in Nat
      OBVIOUS
    <3>2. Len(i) = k /\ publishLength(p) = 2 + Len(p.topic) + Len(p.payload) + k
      BY <1>2, <1>l, Zenon
    <3> HIDE DEF k
    <3>3. \A m, n \in Nat : 2 + m + k + n = 2 + m + n + k
      BY <3>1
    <3>4. QED BY <3>2, <3>3, <2>2, <1>1, Zenon
  <2>4. QED BY <2>1, <2>3, Zenon
<1>4. Serializer(p) = MQTTSerialize_publish(p)
  BY PublishFields, SerializerOf, Zenon
<1>5. MQTTSerialize_publish(p) = Written(MQTTPacket_len(publishLength(p)), HeaderByte(PUBLISH, p.dup, p.qos, p.retained),
                                         Len(PublishBody(p)), PublishBody(p))
  BY <1>3, Zenon DEF MQTTSerialize_publish, PublishBody
<1>6. /\ Serializer(p).bytes = Frame(HeaderByte(PUBLISH, p.dup, p.qos, p.retained), PublishBody(p))
      /\ Serializer(p).needs = MQTTPacket_len(publishLength(p))
  BY <1>4, <1>5, WrittenFrame
<1>7. QED BY <1>3, <1>6, Zenon DEF Serialize, Needs

\* Buffer d is a packet with header byte h and the body.
Framed(h, body, d) == h \in Byte /\ body \in Seq(Byte) /\ Len(body) < Limit /\ d = Frame(h, body)

\* The body of a packet in a buffer: from curdata to enddata.
LEMMA FrameBody ==
  ASSUME NEW h, NEW body, NEW d, Framed(h, body, d)
  PROVE  /\ d \in Seq(Byte) /\ d[1] = h /\ Start(d) \in Nat /\ Start(d) >= 3 /\ Holds(d, Start(d), body)
         /\ End(d) = Start(d) + Len(body) /\ End(d) = Len(d) + 1 /\ End(d) \in Nat /\ Len(body) \in Nat
<1> DEFINE E == MQTTPacket_encode(Len(body))
<1>0. h \in Byte /\ body \in Seq(Byte) /\ Len(body) < Limit /\ d = Frame(h, body)
  BY Zenon DEF Framed
<1>1. /\ d \in Seq(Byte) /\ Len(E) \in 1 .. 4 /\ Len(d) = 1 + Len(E) + Len(body) /\ d[1] = h
      /\ Start(d) = 2 + Len(E) /\ End(d) = Len(d) + 1 /\ Holds(d, 2 + Len(E), body)
  BY <1>0, FrameShape, Zenon
<1> DEFINE e == Len(E)
           n == Len(body)
<1>2. n \in Nat
  BY <1>0
<1>3. e \in 1 .. 4 /\ Start(d) = 2 + e /\ End(d) = 1 + e + n + 1
  BY <1>1, Zenon
<1> HIDE DEF E, e, n
<1>4. Start(d) \in Nat /\ Start(d) >= 3 /\ End(d) = Start(d) + n /\ End(d) \in Nat
  BY <1>2, <1>3
<1>5. QED BY <1>1, <1>2, <1>3, <1>4, Zenon DEF e, n

\* Buffer d is a packet whose body has three parts.
Framed3(h, x, y, z, d) ==
  x \in Seq(Byte) /\ y \in Seq(Byte) /\ z \in Seq(Byte) /\ Framed(h, x \o y \o z, d)

\* Where the three parts of a body are.
LEMMA Frame3 ==
  ASSUME NEW h, NEW x, NEW y, NEW z, NEW d, Framed3(h, x, y, z, d)
  PROVE  /\ d \in Seq(Byte) /\ d[1] = h /\ Start(d) \in Nat /\ End(d) \in Nat
         /\ Holds(d, Start(d), x) /\ Holds(d, Start(d) + Len(x), y) /\ Holds(d, Start(d) + Len(x) + Len(y), z)
         /\ End(d) = Start(d) + Len(x) + Len(y) + Len(z)
         /\ Len(x) \in Nat /\ Len(y) \in Nat /\ Len(z) \in Nat
<1> DEFINE body == x \o y \o z
           at == Start(d)
<1>0. x \in Seq(Byte) /\ y \in Seq(Byte) /\ z \in Seq(Byte) /\ Framed(h, body, d)
  BY Zenon DEF Framed3
<1>1. x \o y \in Seq(Byte) /\ Len(x \o y) = Len(x) + Len(y) /\ Len(x) \in Nat /\ Len(y) \in Nat /\ Len(z) \in Nat
  BY <1>0
<1>2. body \in Seq(Byte) /\ Len(body) = Len(x) + Len(y) + Len(z)
  BY <1>0
<1> HIDE DEF body
<1>4. d \in Seq(Byte) /\ d[1] = h /\ at \in Nat /\ Holds(d, at, body) /\ End(d) = at + Len(body) /\ End(d) \in Nat
  BY <1>0, FrameBody, Zenon
<1>5. Holds(d, at, (x \o y) \o z)
  BY <1>4, Zenon DEF body
<1> HIDE DEF at
<1>6. Holds(d, at, x \o y) /\ Holds(d, at + Len(x \o y), z)
  BY <1>0, <1>1, <1>4, <1>5, HoldsParts, Zenon
<1>7. Holds(d, at, x) /\ Holds(d, at + Len(x), y)
  BY <1>0, <1>4, <1>6, HoldsParts, Zenon
<1>8. at + Len(x \o y) = at + Len(x) + Len(y) /\ at + Len(body) = at + Len(x) + Len(y) + Len(z)
  <2> DEFINE lx == Len(x)
             ly == Len(y)
             lz == Len(z)
  <2>1. lx \in Nat /\ ly \in Nat /\ lz \in Nat /\ Len(x \o y) = lx + ly /\ Len(body) = lx + ly + lz /\ at \in Nat
    BY <1>1, <1>2, <1>4, Zenon
  <2> HIDE DEF lx, ly, lz
  <2>2. at + (lx + ly) = at + lx + ly /\ at + (lx + ly + lz) = at + lx + ly + lz
    BY <2>1
  <2>3. QED BY <2>1, <2>2, Zenon DEF lx, ly, lz
<1>9. QED BY <1>1, <1>4, <1>6, <1>7, <1>8, Zenon DEF at

\* The arguments of MQTTSerialize_publish, and i the bytes of the packet id.
PublishFor(dup, qos, retained, id, topic, payload, i) ==
  /\ dup \in Bit /\ qos \in QoS /\ retained \in Bit /\ id \in UShort /\ (qos = 0 => id = 0)
  /\ topic \in Text /\ payload \in Seq(Byte) /\ i = (IF qos > 0 THEN Int16(id) ELSE <<>>)
  /\ Len(MQTTString(topic)) + Len(i) + Len(payload) < Limit

\* MQTTDeserialize_publish gets back the packet that MQTTSerialize_publish wrote.
LEMMA PublishRoundTrip ==
  ASSUME NEW p \in PublishPackets, publishLength(p) < Limit
  PROVE  Deserialize(Serialize(p)) = p
\* Likewise for three pieces of a buffer.
<1>Concat3. ASSUME NEW S, NEW s \in Seq(S), NEW t \in Seq(S), NEW u \in Seq(S)
            PROVE  s \o t \o u \in Seq(S) /\ Len(s \o t \o u) = Len(s) + Len(t) + Len(u)
  OBVIOUS
\* A packet of three parts that is short enough.
<1>FrameOf3. ASSUME NEW h \in Byte, NEW x \in Seq(Byte), NEW y \in Seq(Byte), NEW z \in Seq(Byte),
                    Len(x) + Len(y) + Len(z) < Limit, NEW d, d = Frame(h, x \o y \o z)
             PROVE  Framed3(h, x, y, z, d)
  BY <1>FrameOf3, <1>Concat3 DEF Framed3, Framed
\* MQTTDeserialize_publish gets every field back from the bytes of a PUBLISH, the id only for a QoS above 0.
<1>PublishRead. ASSUME NEW dup, NEW qos, NEW retained, NEW id, NEW topic, NEW payload, NEW i,
                       PublishFor(dup, qos, retained, id, topic, payload, i)
                PROVE  Deserialize(Frame(HeaderByte(PUBLISH, dup, qos, retained), MQTTString(topic) \o i \o payload)) =
                         [type |-> PUBLISH, dup |-> dup, qos |-> qos, retained |-> retained, id |-> id,
                          topic |-> topic, payload |-> payload]
  <2>0. /\ dup \in Bit /\ qos \in QoS /\ retained \in Bit /\ id \in UShort
        /\ topic \in Text /\ payload \in Seq(Byte)
    BY <1>PublishRead, Zenon DEF PublishFor
  <2>i. i = (IF qos > 0 THEN Int16(id) ELSE <<>>) /\ (qos = 0 => id = 0)
    BY <1>PublishRead, Zenon DEF PublishFor
  <2> DEFINE h == HeaderByte(PUBLISH, dup, qos, retained)
             t == MQTTString(topic)
             d == Frame(h, t \o i \o payload)
             at == Start(d)
             k == IF qos > 0 THEN 2 ELSE 0
             m == Len(topic)
             l == Len(payload)
  <2>1. h \in Byte /\ TypeOf(h) = PUBLISH /\ DupOf(h) = dup /\ QosOf(h) = qos /\ RetainOf(h) = retained
    <3>1. PUBLISH \in PacketType
      BY PacketTypes, Zenon
    <3>2. h = HeaderByte(PUBLISH, dup, qos, retained)
      OBVIOUS
    <3> HIDE DEF h
    <3>3. QED BY <3>1, <3>2, <2>0, HeaderBits
  <2>2. t \in Seq(Byte) /\ Len(t) = 2 + m /\ topic \in Seq(Byte)
    BY <2>0, TextBytes, Zenon
  <2>3. i \in Seq(Byte) /\ Len(i) = k /\ k \in Nat
    <3>1. CASE qos > 0
      BY <3>1, <2>0, <2>i, Int16Bytes
    <3>2. CASE ~ (qos > 0)
      BY <3>2, <2>i
    <3>3. QED BY <3>1, <3>2, Zenon
  <2>4. m \in Nat /\ l \in Nat
    BY <2>0, <2>2
  <2> HIDE DEF h, t, k, m, l
  <2>5. Len(t) + Len(i) + Len(payload) < Limit
    BY <1>PublishRead, Zenon DEF PublishFor, t
  <2>d. d = Frame(h, t \o i \o payload)
    BY Zenon
  <2> HIDE DEF d
  <2>6. /\ d \in Seq(Byte) /\ d[1] = h /\ at \in Nat
        /\ Holds(d, at, t) /\ Holds(d, at + Len(t), i) /\ Holds(d, at + Len(t) + Len(i), payload)
        /\ End(d) = at + Len(t) + Len(i) + Len(payload)
    <3>1. Framed3(h, t, i, payload, d)
      BY <2>0, <2>1, <2>2, <2>3, <2>5, <2>d, <1>FrameOf3, Zenon
    <3>2. QED BY <3>1, Frame3
  <2>e. End(d) = at + (2 + m) + k + l
    BY <2>2, <2>3, <2>6, Zenon DEF l
  <2>7. /\ End(d) \in Nat /\ at + 2 + m = at + (2 + m) /\ at + 2 + m <= End(d)
        /\ at + (2 + m) + k = at + 2 + m + k
        /\ at + (2 + m) + k + l - 1 = End(d) - 1
    <3>1. at \in Nat /\ m \in Nat /\ k \in Nat /\ l \in Nat
      BY <2>3, <2>4, <2>6, Zenon
    <3> HIDE DEF at
    <3>2. QED BY <3>1, <2>e
  <2>8. Past(d, at) = at + 2 + m /\ StringAt(d, at) = topic /\ StringFits(d, at, End(d))
    BY <2>0, <2>6, <2>7, TextHeld, Zenon DEF t, m
  <2>9. (IF qos > 0 THEN IntAt(d, Past(d, at)) ELSE 0) = id
    <3>1. CASE qos > 0
      <4>1. Holds(d, Past(d, at), Int16(id))
        BY <3>1, <2>i, <2>2, <2>6, <2>7, <2>8, Zenon
      <4>2. QED BY <3>1, <4>1, <2>0, <2>6, IntHeld, Zenon
    <3>2. CASE ~ (qos > 0)
      BY <3>2, <2>0, <2>i DEF QoS
    <3>3. QED BY <3>1, <3>2, Zenon
  <2>10. SubSeq(d, Past(d, at) + k, End(d) - 1) = payload
    <3>1. SubSeq(d, at + Len(t) + Len(i), at + Len(t) + Len(i) + Len(payload) - 1) = payload
      BY <2>0, <2>6, HoldsSubSeq, Zenon
    <3>2. QED BY <3>1, <2>2, <2>3, <2>7, <2>8, Zenon DEF l
  <2>11. MQTTDeserialize_publish(d) =
           [type |-> PUBLISH, dup |-> dup, qos |-> qos, retained |-> retained, id |-> id,
            topic |-> topic, payload |-> payload]
    BY <2>1, <2>6, <2>8, <2>9, <2>10, Zenon DEF MQTTDeserialize_publish, k
  <2>12. Deserialize(d) = MQTTDeserialize_publish(d)
    BY <2>1, <2>6, DeserializerOf, Zenon
  <2>13. QED BY <2>11, <2>12, Zenon DEF d, h, t
<1> DEFINE i == IF p.qos > 0 THEN Int16(p.id) ELSE <<>>
           t == MQTTString(p.topic)
           l == p.payload
<1>1. Serialize(p) = Frame(HeaderByte(PUBLISH, p.dup, p.qos, p.retained), t \o i \o l) /\ Len(t \o i \o l) < Limit
  BY PublishFrame, Zenon DEF PublishBody
<1>2. t \in Seq(Byte) /\ l \in Seq(Byte)
  BY PublishFields, TextBytes, Zenon
<1>3. i \in Seq(Byte)
  BY PublishFields, Int16Bytes
<1>i. i = IF p.qos > 0 THEN Int16(p.id) ELSE <<>>
  OBVIOUS
<1> HIDE DEF i, t, l
<1>4. Len(t) + Len(i) + Len(l) < Limit
  BY <1>1, <1>2, <1>3
<1>5. Deserialize(Frame(HeaderByte(PUBLISH, p.dup, p.qos, p.retained), t \o i \o l)) =
        [type |-> PUBLISH, dup |-> p.dup, qos |-> p.qos, retained |-> p.retained, id |-> p.id,
         topic |-> p.topic, payload |-> p.payload]
  <2>1. Len(MQTTString(p.topic)) + Len(i) + Len(p.payload) < Limit
    BY <1>4, Zenon DEF t, l
  <2>2. /\ p.dup \in Bit /\ p.qos \in QoS /\ p.retained \in Bit /\ p.id \in UShort
        /\ p.topic \in Text /\ p.payload \in Seq(Byte) /\ (p.qos = 0 => p.id = 0)
    BY PublishFields, Zenon
  <2>3. PublishFor(p.dup, p.qos, p.retained, p.id, p.topic, p.payload, i)
    BY <2>1, <2>2, <1>i, Zenon DEF PublishFor
  <2>4. QED BY <2>3, <1>PublishRead DEF t, l
<1>6. QED BY <1>1, <1>5, PublishFields, Zenon

\* The bodies of acknowledgements are short enough for the remaining length.
LEMMA SmallBodies ==
  4 < Limit /\ 2 < Limit /\ 0 < Limit
<1>1. Radix * Radix >= 9
  BY RadixAssumption
<1>2. Radix * Radix * Radix >= 9
  BY RadixAssumption, <1>1
<1>3. Limit >= 9
  BY RadixAssumption, <1>2 DEF Limit
<1>4. QED BY <1>3, Powers

\* MQTTDeserialize_ack gets back type, dup and id.
LEMMA AckRead ==
  ASSUME NEW type \in PacketType, NEW dup \in Bit, NEW qos \in QoS, NEW id \in UShort,
         NEW d, d = Frame(HeaderByte(type, dup, qos, 0), Int16(id))
  PROVE  /\ Framed(HeaderByte(type, dup, qos, 0), Int16(id), d) /\ TypeOf(d[1]) = type
         /\ MQTTDeserialize_ack(d) = [type |-> type, dup |-> dup, id |-> id]
<1> DEFINE h == HeaderByte(type, dup, qos, 0)
<1>1. h = HeaderByte(type, dup, qos, 0) /\ 0 \in Bit
  BY PacketTypes, Zenon
<1> HIDE DEF h
<1>2. h \in Byte /\ TypeOf(h) = type /\ DupOf(h) = dup
  BY <1>1, HeaderBits
<1>3. Int16(id) \in Seq(Byte) /\ Len(Int16(id)) = 2
  BY Int16Bytes, Zenon
<1>4. Len(Int16(id)) < Limit
  BY <1>3, SmallBodies, Zenon
<1>5. Framed(h, Int16(id), d)
  BY <1>1, <1>2, <1>3, <1>4, Zenon DEF Framed
<1>6. d \in Seq(Byte) /\ d[1] = h /\ Start(d) \in Nat /\ Holds(d, Start(d), Int16(id)) /\ End(d) = Start(d) + 2
  <2>1. d \in Seq(Byte) /\ d[1] = h /\ Start(d) \in Nat /\ Holds(d, Start(d), Int16(id)) /\ End(d) = Start(d) + Len(Int16(id))
    BY <1>5, FrameBody
  <2>2. QED BY <2>1, <1>3, Zenon
<1>7. IntAt(d, Start(d)) = id
  BY <1>6, IntHeld, Zenon
<1>8. ~ (End(d) - Start(d) < 2)
  BY <1>6
<1>9. MQTTDeserialize_ack(d) = [type |-> type, dup |-> dup, id |-> id]
  BY <1>2, <1>6, <1>7, <1>8, Zenon DEF MQTTDeserialize_ack
<1>10. QED BY <1>1, <1>2, <1>5, <1>6, <1>9, Zenon

\* The arguments of MQTTSerialize_ack.
LEMMA AckFields ==
  ASSUME NEW types, NEW p \in AckPackets(types)
  PROVE  p.type \in types /\ p.dup = 0 /\ p.id \in UShort /\ p = [type |-> p.type, dup |-> 0, id |-> p.id]
  BY DEF AckPackets

\* MQTTDeserialize_ack gets back what MQTTSerialize_ack wrote; four bytes, as it asks for.
LEMMA AckRoundTrip ==
  ASSUME NEW p \in AckPackets(PUBACK .. PUBCOMP)
  PROVE  /\ \E h, body : Framed(h, body, Serialize(p)) /\ Len(body) = 2
         /\ Needs(p) = 4
         /\ Deserialize(Serialize(p)) = p
<1> DEFINE q == IF p.type = PUBREL THEN 1 ELSE 0
           h == HeaderByte(p.type, 0, q, 0)
           d == Frame(h, Int16(p.id))
<1>1. p.type \in PUBACK .. PUBCOMP /\ p.dup = 0 /\ p.id \in UShort /\ p = [type |-> p.type, dup |-> 0, id |-> p.id]
  BY AckFields, Zenon
<1>2. p.type \in PacketType /\ q \in QoS /\ 0 \in Bit
  BY <1>1, PacketTypes, Zenon
<1>3. Len(Int16(p.id)) = 2
  BY <1>1, Int16Bytes, Zenon
<1>4. MQTTSerialize_ack(p) = Written(4, h, Len(Int16(p.id)), Int16(p.id))
  BY <1>1, <1>3, Zenon DEF MQTTSerialize_ack
<1>5. Serialize(p) = d /\ Needs(p) = 4
  <2>1. Serializer(p) = MQTTSerialize_ack(p)
    BY <1>1, SerializerOf, Zenon
  <2>2. QED BY <1>4, <2>1, WrittenFrame DEF Serialize, Needs
<1> HIDE DEF q
<1>d. d = Frame(HeaderByte(p.type, 0, q, 0), Int16(p.id))
  OBVIOUS
<1> HIDE DEF d
<1>6. /\ Framed(h, Int16(p.id), d) /\ TypeOf(d[1]) = p.type
      /\ MQTTDeserialize_ack(d) = [type |-> p.type, dup |-> 0, id |-> p.id]
  BY <1>1, <1>2, <1>d, AckRead
<1>7. Deserialize(d) = MQTTDeserialize_ack(d)
  BY <1>1, <1>6, DeserializerOf, Zenon
<1>8. QED BY <1>1, <1>3, <1>5, <1>6, <1>7, Zenon

\* MQTTDeserialize_unsuback gets back what MQTTSerialize_unsuback wrote.
LEMMA UnsubackRoundTrip ==
  ASSUME NEW p \in AckPackets({UNSUBACK})
  PROVE  /\ \E h, body : Framed(h, body, Serialize(p)) /\ Len(body) = 2
         /\ Deserialize(Serialize(p)) = p
<1> DEFINE h == HeaderByte(UNSUBACK, 0, 0, 0)
           d == Frame(h, Int16(p.id))
<1>1. p.type = UNSUBACK /\ p.dup = 0 /\ p.id \in UShort /\ p = [type |-> UNSUBACK, dup |-> 0, id |-> p.id]
  BY AckFields
<1>2. UNSUBACK \in PacketType /\ 0 \in QoS /\ 0 \in Bit
  BY PacketTypes, Zenon
<1>3. Len(Int16(p.id)) = 2
  BY <1>1, Int16Bytes, Zenon
<1>4. MQTTSerialize_unsuback(p) = Written(2, h, Len(Int16(p.id)), Int16(p.id))
  BY <1>3, Zenon DEF MQTTSerialize_unsuback
<1>5. Serialize(p) = d
  <2>1. Serializer(p) = MQTTSerialize_unsuback(p)
    BY <1>1, SerializerOf, Zenon
  <2>2. QED BY <1>4, <2>1, WrittenFrame DEF Serialize
<1>d. d = Frame(HeaderByte(UNSUBACK, 0, 0, 0), Int16(p.id))
  OBVIOUS
<1> HIDE DEF d
<1>6. /\ Framed(h, Int16(p.id), d) /\ TypeOf(d[1]) = UNSUBACK
      /\ MQTTDeserialize_ack(d) = [type |-> UNSUBACK, dup |-> 0, id |-> p.id]
  BY <1>1, <1>2, <1>d, AckRead
<1>7. Deserialize(d) = MQTTDeserialize_unsuback(d)
  BY <1>6, DeserializerOf, Zenon
<1>8. MQTTDeserialize_unsuback(d) = p
  BY <1>1, <1>6 DEF MQTTDeserialize_unsuback
<1>9. QED BY <1>3, <1>5, <1>6, <1>7, <1>8, Zenon

\* A packet without a body, as MQTTSerialize_zero writes it, is told by its type; two bytes, as it asks for.
LEMMA ZeroRoundTrip ==
  ASSUME NEW p \in [type : {PINGREQ, PINGRESP, DISCONNECT}]
  PROVE  /\ \E h, body : Framed(h, body, Serialize(p)) /\ Len(body) = 0
         /\ Needs(p) = 2
         /\ Deserialize(Serialize(p)) = p
<1> DEFINE h == HeaderByte(p.type, 0, 0, 0)
           d == Frame(h, <<>>)
<1>1. p.type \in {PINGREQ, PINGRESP, DISCONNECT} /\ p = [type |-> p.type]
  OBVIOUS
<1>2. p.type \in PacketType /\ 0 \in Bit /\ 0 \in QoS
  BY <1>1, PacketTypes, Zenon
<1>3. Len(<<>>) = 0 /\ <<>> \in Seq(Byte)
  OBVIOUS
<1>4. MQTTSerialize_zero(p.type) = Written(2, h, Len(<<>>), <<>>)
  BY <1>3, Zenon DEF MQTTSerialize_zero
<1>5. Serialize(p) = d /\ Needs(p) = 2
  <2>1. Serializer(p) = MQTTSerialize_zero(p.type)
    BY <1>1, SerializerOf, Zenon
  <2>2. QED BY <1>4, <2>1, WrittenFrame DEF Serialize, Needs
<1>6. h \in Byte /\ TypeOf(h) = p.type
  <2>1. h = HeaderByte(p.type, 0, 0, 0)
    OBVIOUS
  <2> HIDE DEF h
  <2>2. QED BY <1>2, <2>1, HeaderBits
<1>7. Len(<<>>) < Limit
  BY <1>3, SmallBodies, Zenon
<1>8. Framed(h, <<>>, d)
  BY <1>3, <1>6, <1>7, Zenon DEF Framed
<1> HIDE DEF d, h
<1>9. d[1] = h
  BY <1>8, FrameBody
<1>10. Deserialize(d) = p
  BY <1>1, <1>6, <1>9, DeserializerOf, Zenon
<1>11. QED BY <1>3, <1>5, <1>8, <1>10, Zenon

\* readChar, twice.
LEMMA TwoHeld ==
  ASSUME NEW d, NEW at, NEW a, NEW b, Holds(d, at, <<a, b>>)
  PROVE  d[at] = a /\ d[at + 1] = b
<1>1. at \in Nat /\ d[at + 1 - 1] = a /\ d[at + 2 - 1] = b
  BY DEF Holds
<1>2. QED BY <1>1

\* MQTTDeserialize_connack gets back what MQTTSerialize_connack wrote.
LEMMA ConnackRoundTrip ==
  ASSUME NEW p \in [type : {CONNACK}, sessionPresent : {0, 1}, rc : Byte]
  PROVE  /\ \E h, body : Framed(h, body, Serialize(p)) /\ Len(body) = 2
         /\ Deserialize(Serialize(p)) = p
<1> DEFINE h == HeaderByte(CONNACK, 0, 0, 0)
           x == <<p.sessionPresent, p.rc>>
           d == Frame(h, x)
<1>1. /\ p.type = CONNACK /\ p.sessionPresent \in Byte /\ p.sessionPresent % 2 = p.sessionPresent /\ p.rc \in Byte
      /\ p = [type |-> CONNACK, sessionPresent |-> p.sessionPresent, rc |-> p.rc]
  BY DEF Byte
<1>2. CONNACK \in PacketType /\ 0 \in Bit /\ 0 \in QoS
  BY PacketTypes, Zenon
<1>3. x \in Seq(Byte) /\ Len(x) = 2 /\ x[1] = p.sessionPresent /\ x[2] = p.rc
  BY <1>1
<1>4. MQTTSerialize_connack(p) = Written(2, h, Len(x), x)
  BY <1>3, Zenon DEF MQTTSerialize_connack
<1> HIDE DEF x
<1>5. Serialize(p) = d
  <2>1. Serializer(p) = MQTTSerialize_connack(p)
    BY <1>1, SerializerOf, Zenon
  <2>2. QED BY <1>4, <2>1, WrittenFrame DEF Serialize
<1>6. h \in Byte /\ TypeOf(h) = CONNACK
  <2>1. h = HeaderByte(CONNACK, 0, 0, 0)
    OBVIOUS
  <2> HIDE DEF h
  <2>2. QED BY <1>2, <2>1, HeaderBits
<1>7. Len(x) < Limit
  BY <1>3, SmallBodies, Zenon
<1>8. Framed(h, x, d)
  BY <1>3, <1>6, <1>7, Zenon DEF Framed
<1> HIDE DEF d, h
<1>9. d[1] = h /\ Start(d) \in Nat /\ Holds(d, Start(d), x) /\ End(d) = Start(d) + Len(x)
  BY <1>8, FrameBody
<1>12. d[Start(d)] = p.sessionPresent /\ d[Start(d) + 1] = p.rc
  BY <1>9, TwoHeld DEF x
<1>13. ~ (End(d) - Start(d) < 2)
  BY <1>3, <1>9
<1>14. MQTTDeserialize_connack(d) = p
  BY <1>1, <1>12, <1>13, Zenon DEF MQTTDeserialize_connack
<1>15. Deserialize(d) = p
  BY <1>6, <1>9, <1>14, DeserializerOf, Zenon
<1>16. QED BY <1>3, <1>5, <1>8, <1>15, Zenon

\* MQTTDeserialize_suback gets back what MQTTSerialize_suback wrote, the code as a signed char.
LEMMA SubackRoundTrip ==
  ASSUME NEW p \in [type : {SUBACK}, id : UShort, granted : OneFilter(Byte)]
  PROVE  /\ \E h, body : Framed(h, body, Serialize(p)) /\ Len(body) = 3
         /\ Deserialize(Serialize(p)) = AsRead(p)
\* readChar: a byte of a piece.
<1>HeldByte. ASSUME NEW d, NEW at, NEW x, Holds(d, at, x), NEW i \in Nat, i < Len(x), Len(x) \in Nat
             PROVE  d[at + i] = x[i + 1]
  <2>1. at \in Nat /\ i + 1 \in 1 .. Len(x) /\ at + (i + 1) - 1 = at + i
    BY <1>HeldByte DEF Holds
  <2>2. QED BY <1>HeldByte, <2>1, Zenon DEF Holds
\* The arguments of MQTTSerialize_suback.
<1>SubackFields. ASSUME NEW p1 \in [type : {SUBACK}, id : UShort, granted : OneFilter(Byte)]
                 PROVE  /\ p1.type = SUBACK /\ p1.id \in UShort /\ p1.granted \in Seq(Byte) /\ Len(p1.granted) = 1
                        /\ p1 = [type |-> SUBACK, id |-> p1.id, granted |-> p1.granted]
  BY DEF OneFilter
\* MQTTDeserialize_suback gets back the id and the granted code, the code as a signed char.
<1>SubackRead. ASSUME NEW id \in UShort, NEW g \in Seq(Byte), Len(g) = 1,
                      NEW d, d = Frame(HeaderByte(SUBACK, 0, 0, 0), Int16(id) \o g)
               PROVE  /\ Framed(HeaderByte(SUBACK, 0, 0, 0), Int16(id) \o g, d) /\ Len(Int16(id) \o g) = 3
                      /\ Deserialize(d) = [type |-> SUBACK, id |-> id,
                                           granted |-> [i \in DOMAIN g |-> IF g[i] > 127 THEN g[i] - 256 ELSE g[i]]]
  <2> DEFINE h == HeaderByte(SUBACK, 0, 0, 0)
             x == Int16(id)
             at == Start(d)
  <2>1. h \in Byte /\ TypeOf(h) = SUBACK
    <3>1. h = HeaderByte(SUBACK, 0, 0, 0) /\ SUBACK \in PacketType /\ 0 \in Bit /\ 0 \in QoS
      BY PacketTypes, Zenon
    <3> HIDE DEF h
    <3>2. QED BY <3>1, HeaderBits
  <2>2. x \in Seq(Byte) /\ Len(x) = 2
    BY Int16Bytes, Zenon
  <2> HIDE DEF x
  <2>3. x \o g \in Seq(Byte) /\ Len(x \o g) = 3
    <3>1. x \o g \in Seq(Byte) /\ Len(x \o g) = 2 + 1
      BY <1>SubackRead, <2>2, Concat, Zenon
    <3>2. QED BY <3>1
  <2>4. Len(x \o g) < Limit
    <3>1. 3 < Limit
      BY SmallBodies, Powers
    <3>2. QED BY <2>3, <3>1, Zenon
  <2>5. Framed(h, x \o g, d)
    BY <1>SubackRead, <2>1, <2>3, <2>4, Zenon DEF Framed, x
  <2> HIDE DEF h
  <2>6. d \in Seq(Byte) /\ d[1] = h /\ at \in Nat /\ Holds(d, at, x \o g) /\ End(d) = at + Len(x \o g)
    BY <2>5, FrameBody, Zenon
  <2>7. Holds(d, at, x) /\ Holds(d, at + 2, g)
    BY <2>2, <2>6, HoldsParts, Zenon
  <2>8. IntAt(d, at) = id
    BY <2>6, <2>7, IntHeld, Zenon DEF x
  <2>9. d[at + 2 + 0] = g[0 + 1]
    <3>1. 0 \in Nat /\ 0 < Len(g) /\ Len(g) \in Nat
      BY <1>SubackRead
    <3>2. QED BY <1>SubackRead, <2>7, <3>1, <1>HeldByte, Zenon
  <2> HIDE DEF at
  <2>10. at + 2 + 0 = at + 1 + 1 /\ 0 + 1 = 1 /\ End(d) - at - 2 = 1 /\ ~ (1 < 0) /\ ~ (1 > maxcount + 1)
    BY <2>3, <2>6 DEF maxcount
  <2>11. d[at + 1 + 1] = g[1]
    BY <2>9, <2>10, Zenon
  <2>12. [i \in 1 .. 1 |-> CharAt(d, at + 1 + i)] = [i \in DOMAIN g |-> IF g[i] > 127 THEN g[i] - 256 ELSE g[i]]
    <3>1. DOMAIN g = 1 .. 1 /\ \A i \in 1 .. 1 : i = 1
      BY <1>SubackRead
    <3>2. \A i \in 1 .. 1 : CharAt(d, at + 1 + i) = IF g[i] > 127 THEN g[i] - 256 ELSE g[i]
      BY <2>11, <3>1, Zenon DEF CharAt
    <3>3. QED BY <3>1, <3>2, Zenon
  <2>13. MQTTDeserialize_suback(d) =
           [type |-> SUBACK, id |-> id, granted |-> [i \in 1 .. 1 |-> CharAt(d, at + 1 + i)]]
    <3>1. MQTTDeserialize_suback(d) =
            CASE End(d) - at - 2 < 0 -> Short(d)
              [] End(d) - at - 2 > maxcount + 1 -> Bad
              [] OTHER -> [type |-> SUBACK, id |-> IntAt(d, at),
                           granted |-> [i \in 1 .. (End(d) - at - 2) |-> CharAt(d, at + 1 + i)]]
      BY Zenon DEF MQTTDeserialize_suback, at
    <3>2. QED BY <2>8, <2>10, <3>1, Zenon
  <2>14. Deserialize(d) = MQTTDeserialize_suback(d)
    BY <2>1, <2>6, DeserializerOf, Zenon
  <2>15. QED BY <2>3, <2>5, <2>12, <2>13, <2>14, Zenon DEF x, h
<1> DEFINE h == HeaderByte(SUBACK, 0, 0, 0)
           x == Int16(p.id)
           g == p.granted
           d == Frame(h, x \o g)
           c == [i \in DOMAIN g |-> IF g[i] > 127 THEN g[i] - 256 ELSE g[i]]
<1>1. /\ p.type = SUBACK /\ p.id \in UShort /\ g \in Seq(Byte) /\ Len(g) = 1
      /\ p = [type |-> SUBACK, id |-> p.id, granted |-> g]
  BY <1>SubackFields, Zenon
<1>2. Framed(h, x \o g, d) /\ Len(x \o g) = 3 /\ Deserialize(d) = [type |-> SUBACK, id |-> p.id, granted |-> c]
  <2>1. d = Frame(HeaderByte(SUBACK, 0, 0, 0), Int16(p.id) \o g)
    OBVIOUS
  <2> HIDE DEF d, g
  <2>2. QED BY <2>1, <1>1, <1>SubackRead
<1>3. MQTTSerialize_suback(p) = Written(2 + Len(g), h, Len(x \o g), x \o g)
  <2>1. 2 + Len(g) = Len(x \o g)
    BY <1>1, <1>2
  <2>2. MQTTSerialize_suback(p) = Written(2 + Len(g), h, 2 + Len(g), x \o g)
    BY Zenon DEF MQTTSerialize_suback
  <2>3. QED BY <2>1, <2>2, Zenon
<1>4. Serialize(p) = d
  <2>1. Serializer(p) = MQTTSerialize_suback(p)
    BY <1>1, SerializerOf, Zenon
  <2> DEFINE b == x \o g
             n == 2 + Len(g)
  <2>2. Serializer(p) = Written(n, h, Len(b), b)
    BY <1>3, <2>1, Zenon
  <2> HIDE DEF b, n, h
  <2>3. Serializer(p).bytes = Frame(h, b)
    BY <2>2, WrittenFrame
  <2>4. QED BY <2>3, Zenon DEF Serialize, b, h
<1>5. AsRead(p) = [type |-> SUBACK, id |-> p.id, granted |-> c]
  <2>1. AsRead(p) = [p EXCEPT !.granted = c]
    BY <1>1, Zenon DEF AsRead
  <2> HIDE DEF c
  <2>2. QED BY <2>1, <1>1
<1>6. QED BY <1>2, <1>4, <1>5, Zenon

\* A loop over positions up to E: nxt moves on wherever ok holds.
Advances(N, E, ok, nxt) ==
  /\ N \in Nat \ {0} /\ E \in Nat /\ E <= N
  /\ \A at \in ok : nxt[at] \in Nat /\ at < nxt[at] /\ nxt[at] <= N
\* f gives the positions such a loop visits, and 0 where it gives up.
IsLoop(f, N, E, ok, nxt) ==
  f = [at \in 1 .. N |-> IF at >= E THEN <<>> ELSE IF at \in ok THEN <<at>> \o f[nxt[at]] ELSE <<0>>]

\* The loop of MQTTSerialize_subscribeLength, for one filter.
LEMMA TotalOne ==
  ASSUME NEW s \in Seq(Nat), Len(s) = 1
  PROVE  Total(s) = s[1]
<1> DEFINE Body(g) == [i \in 0 .. Len(s) |-> IF i = 0 THEN 0 ELSE g[i - 1] + s[i]]
           W == [i \in 0 .. Len(s) |-> IF i = 0 THEN 0 ELSE s[1]]
           len == CHOOSE g : g = Body(g)
<1>1. \A i \in 0 .. Len(s) : i # 0 => i = 1
  OBVIOUS
<1>2. 0 \in 0 .. Len(s) /\ 1 \in 0 .. Len(s) /\ 1 - 1 = 0 /\ 1 # 0 /\ 0 + s[1] = s[1]
  BY SMTT(30)
<1>3. \A i \in 0 .. Len(s) : (IF i = 0 THEN 0 ELSE s[1]) = IF i = 0 THEN 0 ELSE W[i - 1] + s[i]
  <2>1. W[0] = 0
    BY <1>2, Zenon
  <2> HIDE DEF W
  <2>2. QED BY <1>1, <1>2, <2>1, Zenon
<1>4. W = Body(W)
  BY <1>3, Zenon
<1>5. len = Body(len)
  BY <1>4, Zenon
<1>6. Total(s) = len[Len(s)]
  BY Zenon DEF Total
<1> HIDE DEF len
<1>7. len[0] = 0
  BY <1>2, <1>5, Zenon
<1>8. len[1] = len[0] + s[1]
  BY <1>2, <1>5, Zenon
<1>9. QED BY <1>2, <1>6, <1>7, <1>8, Zenon

\* The loop of MQTTSerialize_subscribe, for one filter.
LEMMA JoinedOne ==
  ASSUME NEW s \in Seq(Seq(Byte)), Len(s) = 1
  PROVE  Joined(s) = s[1]
<1> DEFINE Body(g) == [i \in 0 .. Len(s) |-> IF i = 0 THEN <<>> ELSE g[i - 1] \o s[i]]
           W == [i \in 0 .. Len(s) |-> IF i = 0 THEN <<>> ELSE s[1]]
           ptr == CHOOSE g : g = Body(g)
<1>1. \A i \in 0 .. Len(s) : i # 0 => i = 1
  OBVIOUS
<1>2. 0 \in 0 .. Len(s) /\ 1 \in 0 .. Len(s) /\ 1 - 1 = 0 /\ 1 # 0 /\ s[1] \in Seq(Byte)
  OBVIOUS
<1>e. <<>> \o s[1] = s[1]
  BY <1>2
<1>3. \A i \in 0 .. Len(s) : (IF i = 0 THEN <<>> ELSE s[1]) = IF i = 0 THEN <<>> ELSE W[i - 1] \o s[i]
  <2>1. W[0] = <<>>
    BY <1>2, Zenon
  <2> HIDE DEF W
  <2>2. QED BY <1>1, <1>2, <1>e, <2>1, Zenon
<1>4. W = Body(W)
  BY <1>3, Zenon
<1>5. ptr = Body(ptr)
  BY <1>4, Zenon
<1>6. Joined(s) = ptr[Len(s)]
  BY Zenon DEF Joined
<1> HIDE DEF ptr
<1>7. ptr[0] = <<>>
  BY <1>2, <1>5, Zenon
<1>8. ptr[1] = ptr[0] \o s[1]
  BY <1>2, <1>5, Zenon
<1>9. QED BY <1>e, <1>6, <1>7, <1>8, Zenon

\* A loop that writes nothing.
LEMMA JoinedNone ==
  Joined(<<>>) = <<>>
<1> DEFINE Body(g) == [i \in 0 .. Len(<<>>) |-> IF i = 0 THEN <<>> ELSE g[i - 1] \o <<>>[i]]
           W == [i \in 0 .. Len(<<>>) |-> <<>>]
           ptr == CHOOSE g : g = Body(g)
<1>1. 0 \in 0 .. Len(<<>>) /\ Len(<<>>) = 0 /\ \A i \in 0 .. Len(<<>>) : i = 0
  OBVIOUS
<1>2. W = Body(W)
  BY <1>1, Zenon
<1>3. ptr = Body(ptr)
  BY <1>2, Zenon
<1>4. Joined(<<>>) = ptr[Len(<<>>)]
  BY Zenon DEF Joined
<1> HIDE DEF ptr
<1>5. QED BY <1>1, <1>3, <1>4, Zenon

\* The order in which pieces are put together does not matter.
LEMMA Assoc ==
  ASSUME NEW x \in Seq(Byte), NEW y \in Seq(Byte), NEW z \in Seq(Byte)
  PROVE  x \o (y \o z) = x \o y \o z
<1> DEFINE s == x \o (y \o z)
           t == x \o y \o z
<1>1. s \in Seq(Byte) /\ t \in Seq(Byte) /\ Len(s) = Len(x) + Len(y) + Len(z) /\ Len(t) = Len(x) + Len(y) + Len(z)
  OBVIOUS
<1>2. \A i \in 1 .. Len(s) : s[i] = t[i]
  OBVIOUS
<1> HIDE DEF s, t
<1>3. s = t
  BY <1>1, <1>2, SeqEq
<1>4. QED BY <1>3 DEF s, t

\* An array of one filter.
LEMMA OneSeq ==
  ASSUME NEW S, NEW f \in OneFilter(S)
  PROVE  f[1] \in S /\ DOMAIN f = 1 .. 1 /\ f = [i \in 1 .. 1 |-> f[1]] /\ \A i \in 1 .. 1 : i = 1
<1>1. f \in Seq(S) /\ Len(f) = 1
  BY DEF OneFilter
<1>2. f[1] \in S /\ DOMAIN f = 1 .. 1 /\ (\A i \in 1 .. 1 : i = 1) /\ f = [i \in DOMAIN f |-> f[i]]
  BY <1>1
<1>3. \A i \in 1 .. 1 : f[i] = f[1]
  BY <1>2, Zenon
<1>4. f = [i \in 1 .. 1 |-> f[1]]
  BY <1>2, <1>3, Zenon
<1>5. QED BY <1>2, <1>4

\* Buffer d is a packet with an id, one filter, and k bytes z behind it.
FilterIn(h, id, text, z, k, d) ==
  id \in UShort /\ text \in Text /\ k = Len(z) /\ Framed3(h, Int16(id), MQTTString(text), z, d)

\* Where the loop over filters finds the id, the filter and what is behind it.
LEMMA FilterRead ==
  ASSUME NEW h, NEW id, NEW text, NEW z, NEW k, NEW d, FilterIn(h, id, text, z, k, d)
  PROVE  /\ d[1] = h /\ IntAt(d, Start(d)) = id /\ FiltersFrom(d, k) = <<Start(d) + 2>>
         /\ Start(d) + 2 \in Nat /\ Start(d) + 2 # 0
         /\ StringAt(d, Start(d) + 2) = text /\ Holds(d, Past(d, Start(d) + 2), z)
\* A byte of a buffer is a number.
<1>ByteNat. ASSUME NEW d1 \in Seq(Byte), NEW a \in 1 .. Len(d1)
            PROVE  d1[a] \in Nat
  <2>1. d1 \in Seq(Nat)
    BY BytesAreNats, Zenon
  <2>2. QED BY <2>1
\* A set of positions that is not empty has a least one: the loop over filters ends.
<1>LeastNat. ASSUME NEW T \in SUBSET Nat, T # {}
             PROVE  \E x \in T : \A y \in T : ~ (y < x)
  <2>1. PICK x \in T : \A y \in T : ~ (<<y, x>> \in OpToRel(<, Nat))
    BY <1>LeastNat, WFMin, NatLessThanWellFounded, Zenon
  <2>2. ASSUME NEW y \in T, y < x
        PROVE  FALSE
    <3>1. <<y, x>> \in OpToRel(<, Nat)
      BY <2>2 DEF OpToRel
    <3>2. QED BY <2>1, <3>1, Zenon
  <2>3. QED BY <2>2, Zenon
\* A loop whose position grows has a result, whatever the bytes are (by induction on the position).
<1>LoopExists. ASSUME NEW N, NEW E, NEW ok, NEW nxt, Advances(N, E, ok, nxt)
               PROVE  \E f : IsLoop(f, N, E, ok, nxt)
  <2> DEFINE B(f, at) == IF at >= E THEN <<>> ELSE IF at \in ok THEN <<at>> \o f[nxt[at]] ELSE <<0>>
             G(a, f) == f = [at \in a .. N |-> B(f, at)]
             T == {j \in Nat : j < N /\ ~ \E f : G(N - j, f)}
  <2> USE DEF Advances
  <2>1. \E f : G(N, f)
    <3> DEFINE f == [at \in N .. N |-> <<>>]
    <3>1. \A at \in N .. N : B(f, at) = <<>>
      BY <1>LoopExists
    <3>2. G(N, f)
      BY <3>1, Zenon
    <3>3. QED BY <3>2, Zenon
  <2>2. ASSUME NEW a \in Nat \ {0}, a < N, \E f : G(a + 1, f)
        PROVE  \E f : G(a, f)
    <3>1. PICK g : G(a + 1, g)
      BY <2>2
    <3> DEFINE f == [at \in a .. N |-> IF at = a THEN B(g, a) ELSE g[at]]
    <3>2. ASSUME NEW at \in a .. N
          PROVE  f[at] = B(f, at)
      <4>1. at \in Nat /\ a <= at
        BY <2>2
      <4>2. at \in ok => nxt[at] \in a .. N /\ nxt[at] # a /\ nxt[at] \in a + 1 .. N
        BY <1>LoopExists, <4>1
      <4>3. at \in ok => f[nxt[at]] = g[nxt[at]]
        BY <4>2, Zenon
      <4>7. f[at] = IF at = a THEN B(g, a) ELSE g[at]
        BY Zenon
      <4> HIDE DEF f
      <4>4. B(f, at) = B(g, at)
        BY <4>3, Zenon
      <4>5. at # a => at \in a + 1 .. N
        BY <4>1, <2>2
      <4>6. at # a => g[at] = B(g, at)
        BY <3>1, <4>5, Zenon
      <4>8. QED BY <4>4, <4>6, <4>7, Zenon
    <3>3. f = [at \in a .. N |-> B(f, at)]
      <4>1. f = [at \in a .. N |-> f[at]]
        BY Zenon
      <4> HIDE DEF f, B
      <4>2. QED BY <3>2, <4>1, Zenon
    <3>4. QED BY <3>3, Zenon
  <2> HIDE DEF G
  <2>3. T = {}
    <3> SUFFICES ASSUME T # {}
                 PROVE  FALSE
      OBVIOUS
    <3>1. PICK j \in T : \A y \in T : ~ (y < j)
      BY <1>LeastNat, Zenon
    <3>2. j \in Nat /\ j < N /\ ~ \E f : G(N - j, f)
      BY <3>1
    <3>3. j # 0
      <4>1. N - 0 = N
        BY <1>LoopExists
      <4>2. QED BY <2>1, <3>2, <4>1, Zenon
    <3>4. j - 1 \in Nat /\ j - 1 < N /\ j - 1 < j /\ N - (j - 1) = N - j + 1 /\ N - j \in Nat \ {0} /\ N - j < N
      BY <1>LoopExists, <3>2, <3>3
    <3>5. \E f : G(N - (j - 1), f)
      BY <3>1, <3>4, Zenon
    <3>6. QED BY <2>2, <3>2, <3>4, <3>5, Zenon
  <2>4. N - 1 \in Nat /\ N - 1 < N /\ N - (N - 1) = 1
    BY <1>LoopExists
  <2>5. \E f : G(1, f)
    BY <2>3, <2>4, Zenon
  <2>6. QED BY <2>5, Zenon DEF G, IsLoop
\* The loop of MQTTDeserialize_subscribe and MQTTDeserialize_unsubscribe over a packet with one filter.
<1>OneFilterFound. ASSUME NEW d1 \in Seq(Byte), End(d1) \in Nat, End(d1) <= Len(d1) + 1, NEW extra \in Nat,
                          NEW at \in Nat \ {0}, at = Start(d1) + 2, at < End(d1), StringFits(d1, at, End(d1)), Past(d1, at) + extra = End(d1)
                   PROVE  FiltersFrom(d1, extra) = <<at>>
  <2> DEFINE N == End(d1) + 2
             Fit(a) == StringFits(d1, a, End(d1)) /\ Past(d1, a) + extra <= End(d1)
             ok == {a \in 1 .. N : Fit(a)}
             nxt == [a \in ok |-> Past(d1, a) + extra]
             Body(f) == [a \in 1 .. N |->
                           IF a >= End(d1) THEN <<>>
                           ELSE IF StringFits(d1, a, End(d1)) /\ Past(d1, a) + extra <= End(d1)
                                  THEN <<a>> \o f[Past(d1, a) + extra]
                           ELSE <<0>>]
             f == CHOOSE g : g = Body(g)
  <2>1. ASSUME NEW a \in ok
        PROVE  nxt[a] \in Nat /\ a < nxt[a] /\ nxt[a] <= N
    <3>1. a \in Nat \ {0} /\ End(d1) - a > 1 /\ Past(d1, a) + extra <= End(d1)
      BY <2>1 DEF StringFits
    <3>2. a \in 1 .. Len(d1) /\ a + 1 \in 1 .. Len(d1)
      BY <1>OneFilterFound, <3>1
    <3>3. d1[a] \in Nat /\ d1[a + 1] \in Nat
      BY <3>2, <1>ByteNat, Zenon
    <3>4. Past(d1, a) \in Nat /\ a < Past(d1, a)
      <4> DEFINE x == d1[a]
                 y == d1[a + 1]
      <4>1. x \in Nat /\ y \in Nat /\ Past(d1, a) = a + 2 + (256 * x + y)
        BY <3>3, Zenon DEF Past, IntAt
      <4> HIDE DEF x, y
      <4>2. QED BY <3>1, <4>1
    <3>5. nxt[a] = Past(d1, a) + extra
      BY <2>1, Zenon
    <3>6. QED BY <1>OneFilterFound, <3>1, <3>4, <3>5
  <2>2. \E g : g = [a \in 1 .. N |-> IF a >= End(d1) THEN <<>> ELSE IF a \in ok THEN <<a>> \o g[nxt[a]] ELSE <<0>>]
    <3>1. N \in Nat \ {0} /\ End(d1) <= N
      BY <1>OneFilterFound
    <3> HIDE DEF N, ok, nxt
    <3>2. Advances(N, End(d1), ok, nxt)
      BY <1>OneFilterFound, <2>1, <3>1, Zenon DEF Advances
    <3>3. \E g : IsLoop(g, N, End(d1), ok, nxt)
      BY <3>2, <1>LoopExists
    <3>4. QED BY <3>3, Zenon DEF IsLoop
  <2>3. PICK g : g = [a \in 1 .. N |-> IF a >= End(d1) THEN <<>> ELSE IF a \in ok THEN <<a>> \o g[nxt[a]] ELSE <<0>>]
    BY <2>2, Zenon
  <2>4. \A a \in 1 .. N : (a \in ok <=> Fit(a)) /\ (a \in ok => nxt[a] = Past(d1, a) + extra)
    BY Zenon
  <2> HIDE DEF ok, nxt
  <2>5. g = Body(g)
    <3>1. ASSUME NEW a \in 1 .. N
          PROVE  (IF a >= End(d1) THEN <<>> ELSE IF a \in ok THEN <<a>> \o g[nxt[a]] ELSE <<0>>) =
                 (IF a >= End(d1) THEN <<>>
                  ELSE IF StringFits(d1, a, End(d1)) /\ Past(d1, a) + extra <= End(d1)
                         THEN <<a>> \o g[Past(d1, a) + extra]
                  ELSE <<0>>)
      BY <2>4, Zenon
    <3>2. QED BY <2>3, <3>1, Zenon
  <2>6. f = Body(f)
    BY <2>5, Zenon
  <2>7. FiltersFrom(d1, extra) = f[Start(d1) + 2]
    BY Zenon DEF FiltersFrom
  <2> HIDE DEF f
  <2>8. End(d1) \in 1 .. N /\ End(d1) >= End(d1) /\ at \in 1 .. N /\ ~ (at >= End(d1)) /\ End(d1) <= End(d1)
    BY <1>OneFilterFound
  <2> HIDE DEF N
  <2>9. f[End(d1)] = <<>>
    BY <2>6, <2>8, Zenon
  <2>10. f[at] = <<at>> \o f[Past(d1, at) + extra]
    BY <1>OneFilterFound, <2>6, <2>8, Zenon
  <2>11. <<at>> \o <<>> = <<at>>
    OBVIOUS
  <2>12. QED BY <1>OneFilterFound, <2>7, <2>9, <2>10, <2>11, Zenon
<1> DEFINE at == Start(d) + 2
           m == Len(text)
<1>0. id \in UShort /\ text \in Text /\ k = Len(z) /\ Framed3(h, Int16(id), MQTTString(text), z, d)
  BY Zenon DEF FilterIn
<1>1. Len(Int16(id)) = 2 /\ Len(MQTTString(text)) = 2 + m /\ text \in Seq(Byte)
  BY <1>0, Int16Bytes, TextBytes, Zenon
<1>2. /\ d \in Seq(Byte) /\ d[1] = h /\ Start(d) \in Nat /\ End(d) \in Nat
      /\ Holds(d, Start(d), Int16(id)) /\ Holds(d, Start(d) + Len(Int16(id)), MQTTString(text))
      /\ Holds(d, Start(d) + Len(Int16(id)) + Len(MQTTString(text)), z)
      /\ End(d) = Start(d) + Len(Int16(id)) + Len(MQTTString(text)) + Len(z) /\ Len(z) \in Nat
  BY <1>0, Frame3
<1>3. Holds(d, at, MQTTString(text)) /\ Holds(d, at + (2 + m), z) /\ End(d) = at + (2 + m) + k
  BY <1>0, <1>1, <1>2, Zenon
<1>4. m \in Nat /\ k \in Nat
  BY <1>0, <1>1, <1>2
<1>5. End(d) <= Len(d) + 1
  <2>1. at + (2 + m) + k <= Len(d) + 1
    BY <1>0, <1>3, Zenon DEF Holds
  <2>2. QED BY <2>1, <1>3, Zenon
<1>6. IntAt(d, Start(d)) = id
  BY <1>0, <1>2, IntHeld, Zenon
<1> HIDE DEF at, m
<1>a. at \in Nat
  BY <1>2 DEF at
<1>7. at + 2 + m = at + (2 + m) /\ at + (2 + m) \in Nat /\ at + 2 + m <= End(d) /\ at < End(d) /\ at # 0
  <2>1. at # 0
    BY <1>2 DEF at
  <2>2. QED BY <2>1, <1>a, <1>2, <1>3, <1>4
<1>8. Past(d, at) = at + 2 + m /\ StringAt(d, at) = text /\ StringFits(d, at, End(d))
  BY <1>0, <1>2, <1>3, <1>7, TextHeld, Zenon DEF m
<1>9. Past(d, at) + k = End(d) /\ Holds(d, Past(d, at), z)
  BY <1>3, <1>7, <1>8, Zenon
<1>10. FiltersFrom(d, k) = <<at>>
  <2>1. at \in Nat \ {0} /\ at = Start(d) + 2
    BY <1>a, <1>7 DEF at
  <2>2. d \in Seq(Byte) /\ End(d) \in Nat /\ k \in Nat
    BY <1>2, <1>4, Zenon
  <2>3. QED BY <2>1, <2>2, <1>5, <1>7, <1>8, <1>9, <1>OneFilterFound
<1>11. QED BY <1>2, <1>6, <1>a, <1>7, <1>8, <1>9, <1>10, Zenon DEF at

\* An array of one element.
LEMMA SequenceOfOne ==
  ASSUME NEW S, NEW x \in S
  PROVE  [i \in 1 .. 1 |-> x] \in Seq(S) /\ Len([i \in 1 .. 1 |-> x]) = 1 /\ [i \in 1 .. 1 |-> x][1] = x
  OBVIOUS

\* The header byte of SUBSCRIBE and UNSUBSCRIBE, whose QoS bits are 1.
LEMMA FilterHeader ==
  ASSUME NEW type \in PacketType, NEW h, h = HeaderByte(type, 0, 1, 0)
  PROVE  h \in Byte /\ TypeOf(h) = type /\ DupOf(h) = 0
<1>1. 0 \in Bit /\ 1 \in QoS
  BY PacketTypes, Zenon
<1>2. QED BY <1>1, HeaderBits

\* MQTTDeserialize_subscribe gets back what MQTTSerialize_subscribe wrote into a buffer it found large enough.
LEMMA SubscribeRoundTrip ==
  ASSUME NEW p \in SubscribePackets, NEW B \in 0 .. Limit, ~ (Needs(p) > B)
  PROVE  /\ \E h, body : Framed(h, body, Serialize(p)) /\ Len(body) = subscribeLength(p)
         /\ Needs(p) = MQTTPacket_len(subscribeLength(p))
         /\ Deserialize(Serialize(p)) = p
\* writeChar behind other bytes.
<1>LastByte. ASSUME NEW x \in Seq(Byte), NEW b \in Byte
             PROVE  Append(x, b) = x \o <<b>> /\ x \o <<>> = x /\ <<b>> \in Seq(Byte) /\ Len(<<b>>) = 1
  OBVIOUS
\* MQTTDeserialize_subscribe gets back id, filter and QoS.
<1>SubscribeRead. ASSUME NEW id, NEW text, NEW q \in QoS, NEW h, TypeOf(h) = SUBSCRIBE, DupOf(h) = 0, NEW d, FilterIn(h, id, text, <<q>>, 1, d)
                  PROVE  Deserialize(d) = [type |-> SUBSCRIBE, dup |-> 0, id |-> id, filters |-> [i \in 1 .. 1 |-> <<text, q>>]]
  <2> DEFINE at == Start(d) + 2
  <2>1. d[1] = h /\ IntAt(d, Start(d)) = id /\ StringAt(d, at) = text /\ Holds(d, Past(d, at), <<q>>) /\ at \in Nat /\ at # 0
    BY <1>SubscribeRead, FilterRead
  <2>2. FiltersFrom(d, 1) = <<at>>
    BY <1>SubscribeRead, FilterRead
  <2>3. CharAt(d, Past(d, at)) = q
    <3>1. d[Past(d, at) + 1 - 1] = q /\ Past(d, at) \in Nat
      BY <2>1 DEF Holds
    <3>2. d[Past(d, at)] = q
      BY <3>1
    <3>3. ~ (q > 127)
      BY DEF QoS
    <3>4. QED BY <3>2, <3>3, Zenon DEF CharAt
  <2> HIDE DEF at
  <2>4. DOMAIN <<at>> = 1 .. 1 /\ \A i \in 1 .. 1 : <<at>>[i] = at
    OBVIOUS
  <2>5. FiltersFit(d, 1)
    BY <2>1, <2>2, <2>4, Zenon DEF FiltersFit
  <2>6. [i \in DOMAIN FiltersFrom(d, 1) |->
           <<StringAt(d, FiltersFrom(d, 1)[i]), CharAt(d, Past(d, FiltersFrom(d, 1)[i]))>>] = [i \in 1 .. 1 |-> <<text, q>>]
    BY <2>1, <2>2, <2>3, <2>4, Zenon
  <2>7. MQTTDeserialize_subscribe(d) = [type |-> SUBSCRIBE, dup |-> 0, id |-> id, filters |-> [i \in 1 .. 1 |-> <<text, q>>]]
    BY <1>SubscribeRead, <2>1, <2>5, <2>6, Zenon DEF MQTTDeserialize_subscribe
  <2>8. QED BY <1>SubscribeRead, <2>1, <2>7, DeserializerOf, Zenon
\* The arguments of MQTTSerialize_subscribe.
<1>SubscribeFields. ASSUME NEW p1 \in SubscribePackets
                    PROVE  /\ p1.type = SUBSCRIBE /\ p1.dup = 0 /\ p1.id \in UShort /\ p1.filters \in OneFilter(Text \X (0 .. 2))
                           /\ p1 = [type |-> SUBSCRIBE, dup |-> 0, id |-> p1.id, filters |-> p1.filters]
  BY DEF SubscribePackets
<1> DEFINE h == HeaderByte(SUBSCRIBE, 0, 1, 0)
           text == p.filters[1][1]
           q == p.filters[1][2]
           x == Int16(p.id)
           y == MQTTString(text)
           z == <<q>>
           n == 2 + Len(text) + 1
<1>1. /\ p.type = SUBSCRIBE /\ p.dup = 0 /\ p.id \in UShort /\ p.filters \in OneFilter(Text \X (0 .. 2))
      /\ p = [type |-> SUBSCRIBE, dup |-> 0, id |-> p.id, filters |-> p.filters]
  BY <1>SubscribeFields, Zenon
<1>2. /\ p.filters[1] \in Text \X (0 .. 2) /\ DOMAIN p.filters = 1 .. 1
      /\ p.filters = [i \in 1 .. 1 |-> p.filters[1]] /\ \A i \in 1 .. 1 : i = 1
  <2> DEFINE F == p.filters
             S == Text \X (0 .. 2)
  <2>1. F \in OneFilter(S)
    BY <1>1, Zenon
  <2> HIDE DEF F, S
  <2>2. F[1] \in S /\ DOMAIN F = 1 .. 1 /\ F = [i \in 1 .. 1 |-> F[1]] /\ \A i \in 1 .. 1 : i = 1
    BY <2>1, OneSeq, Zenon
  <2>3. QED BY <2>2, Zenon DEF F, S
<1>3. text \in Text /\ q \in 0 .. 2 /\ p.filters[1] = <<text, q>>
  BY <1>2
<1>4. q \in QoS /\ q \in Byte
  BY <1>3 DEF QoS, Byte
<1>5. x \in Seq(Byte) /\ Len(x) = 2 /\ y \in Seq(Byte) /\ Len(y) = 2 + Len(text) /\ text \in Seq(Byte)
  BY <1>1, <1>3, Int16Bytes, TextBytes, Zenon
<1>6. z \in Seq(Byte) /\ Len(z) = 1 /\ Append(y, q) = y \o z
  BY <1>4, <1>5, <1>LastByte, Zenon
<1>7. h \in Byte /\ TypeOf(h) = SUBSCRIBE /\ DupOf(h) = 0
  <2>1. h = HeaderByte(SUBSCRIBE, 0, 1, 0) /\ SUBSCRIBE \in PacketType
    BY PacketTypes, Zenon
  <2> HIDE DEF h
  <2>2. QED BY <2>1, FilterHeader
<1>8. subscribeLength(p) = 2 + n
  <2>1. [i \in DOMAIN p.filters |-> 2 + Len(p.filters[i][1]) + 1] = [i \in 1 .. 1 |-> n]
    BY <1>2, Zenon
  <2>2. n \in Nat
    BY <1>5
  <2> HIDE DEF n
  <2>3. Total([i \in 1 .. 1 |-> n]) = n
    <3> DEFINE s == [i \in 1 .. 1 |-> n]
    <3>1. s \in Seq(Nat) /\ Len(s) = 1 /\ s[1] = n
      BY <2>2, SequenceOfOne, Zenon
    <3> HIDE DEF s
    <3>2. Total(s) = n
      BY <3>1, TotalOne, Zenon
    <3>3. QED BY <3>2, Zenon DEF s
  <2>4. QED BY <2>1, <2>3, Zenon DEF subscribeLength
<1>9. Joined([i \in DOMAIN p.filters |-> Append(MQTTString(p.filters[i][1]), p.filters[i][2])]) = y \o z
  <2>1. [i \in DOMAIN p.filters |-> Append(MQTTString(p.filters[i][1]), p.filters[i][2])] = [i \in 1 .. 1 |-> y \o z]
    BY <1>2, <1>6, Zenon
  <2> DEFINE b == y \o z
  <2>2. b \in Seq(Byte)
    BY <1>5, <1>6, Concat, Zenon
  <2> HIDE DEF b
  <2> DEFINE s == [i \in 1 .. 1 |-> b]
  <2>3. s \in Seq(Seq(Byte)) /\ Len(s) = 1 /\ s[1] = b
    BY <2>2, SequenceOfOne, Zenon
  <2> HIDE DEF s
  <2>4. Joined(s) = b
    BY <2>3, JoinedOne, Zenon
  <2>5. QED BY <2>1, <2>4, Zenon DEF s, b
<1> DEFINE body == x \o y \o z
<1>10. x \o (y \o z) = body
  BY <1>5, <1>6, Assoc, ZenonT(40)
<1>11. Len(body) = subscribeLength(p) /\ body \in Seq(Byte)
  <2>1. body \in Seq(Byte) /\ Len(body) = Len(x) + Len(y) + Len(z)
    <3> HIDE DEF x, y, z
    <3>1. x \in Seq(Byte) /\ y \in Seq(Byte) /\ z \in Seq(Byte)
      BY <1>5, <1>6, Zenon
    <3>2. QED BY <3>1
  <2>2. Len(text) \in Nat
    BY <1>5
  <2>3. \A m \in Nat : 2 + (2 + m) + 1 = 2 + (2 + m + 1)
    OBVIOUS
  <2>4. QED BY <2>1, <2>2, <2>3, <1>5, <1>6, <1>8, Zenon
<1>12. Serializer(p) = Written(MQTTPacket_len(subscribeLength(p)), h, Len(body), body)
  <2>1. Serializer(p) = MQTTSerialize_subscribe(p)
    BY <1>1, SerializerOf, Zenon
  <2>2. MQTTSerialize_subscribe(p) =
          Written(MQTTPacket_len(subscribeLength(p)), h, subscribeLength(p),
                  x \o Joined([i \in DOMAIN p.filters |-> Append(MQTTString(p.filters[i][1]), p.filters[i][2])]))
    BY <1>1, Zenon DEF MQTTSerialize_subscribe
  <2>3. QED BY <2>1, <2>2, <1>9, <1>10, <1>11, Zenon
<1> DEFINE d == Frame(h, body)
<1>13. Serialize(p) = d /\ Needs(p) = MQTTPacket_len(subscribeLength(p))
  <2> HIDE DEF body, h
  <2>1. QED BY <1>12, WrittenFrame DEF Serialize, Needs
<1>n. Len(body) < Limit
  <2> HIDE DEF body
  <2>1. QED BY <1>11, <1>13, LenAbove
<1>14. Framed(h, body, d)
  BY <1>7, <1>11, <1>n, Zenon DEF Framed
<1>15. FilterIn(h, p.id, text, z, 1, d)
  BY <1>1, <1>3, <1>5, <1>6, <1>14, Zenon DEF FilterIn, Framed3
<1> HIDE DEF d, h, text, q, body
<1>16. Deserialize(d) = [type |-> SUBSCRIBE, dup |-> 0, id |-> p.id, filters |-> [i \in 1 .. 1 |-> <<text, q>>]]
  BY <1>4, <1>7, <1>15, <1>SubscribeRead
<1>17. Deserialize(d) = p
  <2>1. [i \in 1 .. 1 |-> <<text, q>>] = p.filters
    BY <1>2, <1>3, Zenon
  <2>2. QED BY <1>1, <1>16, <2>1, Zenon
<1>18. QED BY <1>11, <1>13, <1>14, <1>17, Zenon

\* MQTTDeserialize_unsubscribe gets back what MQTTSerialize_unsubscribe wrote into a buffer it found large enough.
LEMMA UnsubscribeRoundTrip ==
  ASSUME NEW p \in UnsubscribePackets, NEW B \in 0 .. Limit, ~ (Needs(p) > B)
  PROVE  /\ \E h, body : Framed(h, body, Serialize(p)) /\ Len(body) = unsubscribeLength(p)
         /\ Needs(p) = MQTTPacket_len(unsubscribeLength(p))
         /\ Deserialize(Serialize(p)) = p
\* MQTTDeserialize_unsubscribe gets back id and filter.
<1>UnsubscribeRead. ASSUME NEW id, NEW text, NEW h, TypeOf(h) = UNSUBSCRIBE, DupOf(h) = 0, NEW d, FilterIn(h, id, text, <<>>, 0, d)
                    PROVE  Deserialize(d) = [type |-> UNSUBSCRIBE, dup |-> 0, id |-> id, filters |-> [i \in 1 .. 1 |-> text]]
  <2> DEFINE at == Start(d) + 2
  <2>1. d[1] = h /\ IntAt(d, Start(d)) = id /\ StringAt(d, at) = text /\ at # 0
    BY <1>UnsubscribeRead, FilterRead
  <2>2. FiltersFrom(d, 0) = <<at>>
    BY <1>UnsubscribeRead, FilterRead
  <2> HIDE DEF at
  <2>4. DOMAIN <<at>> = 1 .. 1 /\ \A i \in 1 .. 1 : <<at>>[i] = at
    OBVIOUS
  <2>5. FiltersFit(d, 0)
    BY <2>1, <2>2, <2>4, Zenon DEF FiltersFit
  <2>6. [i \in DOMAIN FiltersFrom(d, 0) |-> StringAt(d, FiltersFrom(d, 0)[i])] = [i \in 1 .. 1 |-> text]
    BY <2>1, <2>2, <2>4, Zenon
  <2>7. MQTTDeserialize_unsubscribe(d) = [type |-> UNSUBSCRIBE, dup |-> 0, id |-> id, filters |-> [i \in 1 .. 1 |-> text]]
    BY <1>UnsubscribeRead, <2>1, <2>5, <2>6, Zenon DEF MQTTDeserialize_unsubscribe
  <2>8. QED BY <1>UnsubscribeRead, <2>1, <2>7, DeserializerOf, Zenon
\* The arguments of MQTTSerialize_unsubscribe.
<1>UnsubscribeFields. ASSUME NEW p1 \in UnsubscribePackets
                      PROVE  /\ p1.type = UNSUBSCRIBE /\ p1.dup = 0 /\ p1.id \in UShort /\ p1.filters \in OneFilter(Text)
                             /\ p1 = [type |-> UNSUBSCRIBE, dup |-> 0, id |-> p1.id, filters |-> p1.filters]
  BY DEF UnsubscribePackets
<1> DEFINE h == HeaderByte(UNSUBSCRIBE, 0, 1, 0)
           text == p.filters[1]
           x == Int16(p.id)
           y == MQTTString(text)
           z == <<>>
           n == 2 + Len(text)
<1>1. /\ p.type = UNSUBSCRIBE /\ p.dup = 0 /\ p.id \in UShort /\ p.filters \in OneFilter(Text)
      /\ p = [type |-> UNSUBSCRIBE, dup |-> 0, id |-> p.id, filters |-> p.filters]
  BY <1>UnsubscribeFields, Zenon
<1>2. /\ p.filters[1] \in Text /\ DOMAIN p.filters = 1 .. 1
      /\ p.filters = [i \in 1 .. 1 |-> p.filters[1]] /\ \A i \in 1 .. 1 : i = 1
  <2> DEFINE F == p.filters
             S == Text
  <2>1. F \in OneFilter(S)
    BY <1>1, Zenon
  <2> HIDE DEF F, S
  <2>2. F[1] \in S /\ DOMAIN F = 1 .. 1 /\ F = [i \in 1 .. 1 |-> F[1]] /\ \A i \in 1 .. 1 : i = 1
    BY <2>1, OneSeq, Zenon
  <2>3. QED BY <2>2, Zenon DEF F, S
<1>3. text \in Text
  BY <1>2, Zenon
<1>5. x \in Seq(Byte) /\ Len(x) = 2 /\ y \in Seq(Byte) /\ Len(y) = 2 + Len(text) /\ text \in Seq(Byte)
  BY <1>1, <1>3, Int16Bytes, TextBytes, Zenon
<1>6. z \in Seq(Byte) /\ Len(z) = 0 /\ y = y \o z
  BY <1>5
<1>7. h \in Byte /\ TypeOf(h) = UNSUBSCRIBE /\ DupOf(h) = 0
  <2>1. h = HeaderByte(UNSUBSCRIBE, 0, 1, 0) /\ UNSUBSCRIBE \in PacketType
    BY PacketTypes, Zenon
  <2> HIDE DEF h
  <2>2. QED BY <2>1, FilterHeader
<1>8. unsubscribeLength(p) = 2 + n
  <2>1. [i \in DOMAIN p.filters |-> 2 + Len(p.filters[i])] = [i \in 1 .. 1 |-> n]
    BY <1>2, Zenon
  <2>2. n \in Nat
    BY <1>5
  <2> HIDE DEF n
  <2>3. Total([i \in 1 .. 1 |-> n]) = n
    <3> DEFINE s == [i \in 1 .. 1 |-> n]
    <3>1. s \in Seq(Nat) /\ Len(s) = 1 /\ s[1] = n
      BY <2>2, SequenceOfOne, Zenon
    <3> HIDE DEF s
    <3>2. Total(s) = n
      BY <3>1, TotalOne, Zenon
    <3>3. QED BY <3>2, Zenon DEF s
  <2>4. QED BY <2>1, <2>3, Zenon DEF unsubscribeLength
<1>9. Joined([i \in DOMAIN p.filters |-> MQTTString(p.filters[i])]) = y \o z
  <2>1. [i \in DOMAIN p.filters |-> MQTTString(p.filters[i])] = [i \in 1 .. 1 |-> y \o z]
    BY <1>2, <1>6, Zenon
  <2> DEFINE b == y \o z
  <2>2. b \in Seq(Byte)
    BY <1>5, <1>6, Concat, Zenon
  <2> HIDE DEF b
  <2> DEFINE s == [i \in 1 .. 1 |-> b]
  <2>3. s \in Seq(Seq(Byte)) /\ Len(s) = 1 /\ s[1] = b
    BY <2>2, SequenceOfOne, Zenon
  <2> HIDE DEF s
  <2>4. Joined(s) = b
    BY <2>3, JoinedOne, Zenon
  <2>5. QED BY <2>1, <2>4, Zenon DEF s, b
<1> DEFINE body == x \o y \o z
<1>10. x \o (y \o z) = body
  <2>1. x \in Seq(Byte) /\ y \in Seq(Byte) /\ z \in Seq(Byte)
    BY <1>5, <1>6, Zenon
  <2> HIDE DEF x, y, z
  <2>2. QED BY <2>1, Assoc, Zenon
<1>11. Len(body) = unsubscribeLength(p) /\ body \in Seq(Byte)
  <2>1. body \in Seq(Byte) /\ Len(body) = Len(x) + Len(y) + Len(z)
    <3> HIDE DEF x, y, z
    <3>1. x \in Seq(Byte) /\ y \in Seq(Byte) /\ z \in Seq(Byte)
      BY <1>5, <1>6, Zenon
    <3>2. QED BY <3>1
  <2>2. Len(text) \in Nat
    BY <1>5
  <2>3. \A m \in Nat : 2 + (2 + m) + 0 = 2 + (2 + m)
    OBVIOUS
  <2>4. QED BY <2>1, <2>2, <2>3, <1>5, <1>6, <1>8, Zenon
<1>12. Serializer(p) = Written(MQTTPacket_len(unsubscribeLength(p)), h, Len(body), body)
  <2>1. Serializer(p) = MQTTSerialize_unsubscribe(p)
    BY <1>1, SerializerOf, Zenon
  <2>2. MQTTSerialize_unsubscribe(p) =
          Written(MQTTPacket_len(unsubscribeLength(p)), h, unsubscribeLength(p),
                  x \o Joined([i \in DOMAIN p.filters |-> MQTTString(p.filters[i])]))
    BY <1>1, Zenon DEF MQTTSerialize_unsubscribe
  <2>3. QED BY <2>1, <2>2, <1>9, <1>10, <1>11, Zenon
<1> DEFINE d == Frame(h, body)
<1>13. Serialize(p) = d /\ Needs(p) = MQTTPacket_len(unsubscribeLength(p))
  <2> HIDE DEF body, h
  <2>1. QED BY <1>12, WrittenFrame DEF Serialize, Needs
<1>n. Len(body) < Limit
  <2> HIDE DEF body
  <2>1. QED BY <1>11, <1>13, LenAbove
<1>14. Framed(h, body, d)
  BY <1>7, <1>11, <1>n, Zenon DEF Framed
<1>15. FilterIn(h, p.id, text, z, 0, d)
  BY <1>1, <1>3, <1>5, <1>6, <1>14, Zenon DEF FilterIn, Framed3
<1> HIDE DEF d, h, text, body
<1>16. Deserialize(d) = [type |-> UNSUBSCRIBE, dup |-> 0, id |-> p.id, filters |-> [i \in 1 .. 1 |-> text]]
  BY <1>7, <1>15, <1>UnsubscribeRead
<1>17. Deserialize(d) = p
  <2>1. [i \in 1 .. 1 |-> text] = p.filters
    BY <1>2, Zenon DEF text
  <2>2. QED BY <1>1, <1>16, <2>1, Zenon
<1>18. QED BY <1>11, <1>13, <1>14, <1>17, Zenon

\* Buffer d has the optional string s at a position, before end.
OptIn(s, d, at, end) ==
  /\ s \in Optional(Text) /\ d \in Seq(Byte) /\ at \in Nat /\ end \in Nat
  /\ Holds(d, at, OptString(s)) /\ at + OptLength(s) <= end

\* Buffer d is a packet whose body has the eight parts of a CONNECT.
Framed8(h, a, b, c, e, w, m, u, p, d) ==
  /\ a \in Seq(Byte) /\ b \in Seq(Byte) /\ c \in Seq(Byte) /\ e \in Seq(Byte)
  /\ w \in Seq(Byte) /\ m \in Seq(Byte) /\ u \in Seq(Byte) /\ p \in Seq(Byte)
  /\ Framed(h, a \o b \o c \o e \o w \o m \o u \o p, d)

\* Buffer d has x and y one after another.
LastIn(d, at, x, y) ==
  at \in Nat /\ x \in Seq(Byte) /\ y \in Seq(Byte) /\ d \in Seq(Byte) /\ Holds(d, at, x \o y)

\* MQTTDeserialize_connect with its positions as parameters.
ConnectFrom(d, end, version, flags, cid, will, message, user, pass) ==
  LET Bit2(n) == (flags \div n) % 2 = 1
      Opt(bit, at) == IF bit THEN <<StringAt(d, at)>> ELSE <<>>
      Num(bit) == IF bit THEN 1 ELSE 0
      ok == /\ StringFits(d, Start(d), end)
            /\ MQTTPacket_checkVersion(StringAt(d, Start(d)), version)
            /\ StringFits(d, cid, end)
            /\ Bit2(4) => StringFits(d, will, end) /\ StringFits(d, message, end)
            /\ Bit2(128) => end - user >= 3 /\ StringFits(d, user, end)
            /\ Bit2(64) => Bit2(128) /\ end - pass >= 3 /\ StringFits(d, pass, end)
  IN IF ~ ok THEN Bad
     ELSE [type |-> CONNECT, version |-> version, clean |-> Num(Bit2(2)), keepAlive |-> IntAt(d, cid - 2),
           clientID |-> StringAt(d, cid),
           willTopic |-> Opt(Bit2(4), will), willMessage |-> Opt(Bit2(4), message),
           willQos |-> Num(Bit2(4)) * ((flags \div 8) % 4), willRetain |-> Num(Bit2(4) /\ Bit2(32)),
           username |-> Opt(Bit2(128), user), password |-> Opt(Bit2(64), pass)]

\* MQTTDeserialize_connect from the position of the client id.
ConnectAt(d, flags, cid) ==
  LET will == Past(d, cid)
      message == IF (flags \div 4) % 2 = 1 THEN Past(d, will) ELSE will
      user == IF (flags \div 4) % 2 = 1 THEN Past(d, message) ELSE will
      pass == IF (flags \div 128) % 2 = 1 THEN Past(d, user) ELSE user
  IN ConnectFrom(d, End(d), d[Past(d, Start(d))], flags, cid, will, message, user, pass)

\* The arguments of MQTTSerialize_connect, with f the flags, h the header byte and d the packet.
ConnectFor(v, cl, ka, id, wt, wm, wq, wr, un, pw, f, h, d) ==
  /\ v \in {3, 4} /\ cl \in Bit /\ ka \in UShort /\ id \in Text
  /\ wt \in Optional(Text) /\ wm \in Optional(Text) /\ wq \in QoS /\ wr \in Bit
  /\ un \in Optional(Text) /\ pw \in Optional(Text)
  /\ (un # <<>> => un[1] # <<>>) /\ (pw # <<>> => pw[1] # <<>>)
  /\ Flag(wt) = Flag(wm) /\ (wt = <<>> => wq = 0 /\ wr = 0) /\ (un = <<>> => pw = <<>>)
  /\ f = 128 * Flag(un) + 64 * Flag(pw) + Flag(wt) * (32 * wr + 8 * wq + 4) + 2 * cl
  /\ Framed8(h, MQTTString(Protocol(v)), <<v, f>>, Int16(ka), MQTTString(id),
             OptString(wt), OptString(wm), OptString(un), OptString(pw), d)

\* What MQTTDeserialize_connect finds at each of its positions.
ConnectPlaced(d, v, ka, id, wt, wm, un, pw, f, h, P2, P3, P4, P5, P6, P7, P8) ==
  /\ d \in Seq(Byte) /\ d[1] = h
  /\ P2 \in Nat /\ P3 \in Nat /\ P4 \in Nat /\ P5 \in Nat /\ P6 \in Nat /\ P7 \in Nat /\ P8 \in Nat /\ End(d) \in Nat
  /\ P4 = P2 + 4 /\ P4 - 2 = P3
  /\ Past(d, Start(d)) = P2 /\ StringAt(d, Start(d)) = Protocol(v) /\ StringFits(d, Start(d), End(d))
  /\ d[P2] = v /\ d[P2 + 1] = f /\ IntAt(d, P3) = ka
  /\ Past(d, P4) = P5 /\ StringAt(d, P4) = id /\ StringFits(d, P4, End(d))
  /\ P6 = P5 + OptLength(wt) /\ P7 = P6 + OptLength(wm) /\ P8 = P7 + OptLength(un)
  /\ OptIn(wt, d, P5, End(d)) /\ OptIn(wm, d, P6, End(d)) /\ OptIn(un, d, P7, End(d)) /\ OptIn(pw, d, P8, End(d))

\* The flags as MQTTSerialize_connect sets them.
FlagsOf(fu, fp, fw, wr, wq, cl, f) ==
  /\ fu \in Bit /\ fp \in Bit /\ fw \in Bit /\ wr \in Bit /\ wq \in QoS /\ cl \in Bit
  /\ f = 128 * fu + 64 * fp + fw * (32 * wr + 8 * wq + 4) + 2 * cl

\* MQTTDeserialize_connect gets back what MQTTSerialize_connect wrote into a buffer it found large enough.
LEMMA ConnectRoundTrip ==
  ASSUME NEW p \in ConnectPackets, NEW size \in 0 .. Limit, ~ (Needs(p) > size)
  PROVE  /\ \E h, body : Framed(h, body, Serialize(p)) /\ Len(body) = connectLength(p)
         /\ Needs(p) = MQTTPacket_len(connectLength(p))
         /\ Deserialize(Serialize(p)) = p
\* The bit fields of MQTTConnectFlags: each keeps its value.
<1>FlagBits. ASSUME NEW fu \in Bit, NEW fp \in Bit, NEW fw \in Bit, NEW wr \in Bit, NEW wq \in QoS, NEW cl \in Bit,
                    NEW f, f = 128 * fu + 64 * fp + fw * (32 * wr + 8 * wq + 4) + 2 * cl
             PROVE  /\ f \in Byte /\ (f \div 128) % 2 = fu /\ (f \div 64) % 2 = fp /\ (f \div 4) % 2 = fw /\ (f \div 2) % 2 = cl
                    /\ fw = 1 => (f \div 8) % 4 = wq /\ (f \div 32) % 2 = wr
  <2>1. CASE fw = 0
    <3>1. f = 128 * fu + 64 * fp + 2 * cl
      BY <1>FlagBits, <2>1 DEF Bit, QoS
    <3>2. f \in Byte
      BY <3>1 DEF Bit, Byte
    <3>3. (f \div 128) % 2 = fu
      BY <3>1 DEF Bit
    <3>4. (f \div 64) % 2 = fp
      BY <3>1 DEF Bit
    <3>5. (f \div 4) % 2 = 0
      BY <3>1 DEF Bit
    <3>6. (f \div 2) % 2 = cl
      BY <3>1 DEF Bit
    <3>7. 0 # 1
      OBVIOUS
    <3>8. QED BY <2>1, <3>2, <3>3, <3>4, <3>5, <3>6, <3>7, Zenon
  <2>2. CASE fw = 1
    <3>1. f = 128 * fu + 64 * fp + 32 * wr + 8 * wq + 4 + 2 * cl
      BY <1>FlagBits, <2>2 DEF Bit, QoS
    <3>2. f \in Byte
      BY <3>1 DEF Bit, QoS, Byte
    <3>3. (f \div 128) % 2 = fu
      BY <3>1 DEF Bit, QoS
    <3>4. (f \div 64) % 2 = fp
      BY <3>1 DEF Bit, QoS
    <3>5. (f \div 4) % 2 = 1
      BY <3>1 DEF Bit, QoS
    <3>6. (f \div 2) % 2 = cl
      BY <3>1 DEF Bit, QoS
    <3>7. (f \div 8) % 4 = wq
      BY <3>1 DEF Bit, QoS
    <3>8. (f \div 32) % 2 = wr
      BY <3>1 DEF Bit, QoS
    <3>9. QED BY <2>2, <3>2, <3>3, <3>4, <3>5, <3>6, <3>7, <3>8, Zenon
  <2>3. QED BY <2>1, <2>2 DEF Bit
\* An optional string that is given.
<1>OptOne. ASSUME NEW S, NEW s \in Optional(S), s # <<>>
           PROVE  s[1] \in S /\ Len(s) = 1 /\ s = <<s[1]>>
  <2>1. s \in Seq(S) /\ Len(s) <= 1
    BY DEF Optional
  <2>2. Len(s) \in Nat /\ Len(s) # 0
    BY <1>OptOne, <2>1
  <2>3. Len(s) = 1
    <3>1. \A n \in Nat : n <= 1 /\ n # 0 => n = 1
      OBVIOUS
    <3>2. QED BY <2>1, <2>2, <3>1, Zenon
  <2>4. s[1] \in S
    BY <2>1, <2>3
  <2>5. s = <<s[1]>>
    BY <2>1, <2>3, <2>4
  <2>6. QED BY <2>3, <2>4, <2>5
\* An optional string in MQTTSerialize_connect: nothing, or length and bytes.
<1>OptBytes. ASSUME NEW s \in Optional(Text)
             PROVE  /\ OptString(s) \in Seq(Byte) /\ Len(OptString(s)) = OptLength(s) /\ OptLength(s) \in Nat
                    /\ Flag(s) \in Bit /\ (Flag(s) = 1 <=> s # <<>>) /\ (Flag(s) = 0 <=> s = <<>>)
  <2>1. CASE s = <<>>
    BY <2>1 DEF OptString, OptLength, Flag, Bit
  <2>2. CASE s # <<>>
    <3>1. s[1] \in Text /\ Len(s) = 1
      BY <2>2, <1>OptOne, Zenon
    <3>2. MQTTString(s[1]) \in Seq(Byte) /\ Len(MQTTString(s[1])) = 2 + Len(s[1]) /\ s[1] \in Seq(Byte)
      BY <3>1, TextBytes, Zenon
    <3> DEFINE m == Len(s[1])
    <3>3. m \in Nat
      BY <3>2
    <3> HIDE DEF m
    <3>4. 2 + m = m + 2 /\ m + 2 \in Nat
      BY <3>3
    <3>5. Flag(s) = 1 /\ 1 \in Bit /\ 1 # 0
      BY <3>1 DEF Flag, Bit
    <3>6. OptString(s) = MQTTString(s[1]) /\ OptLength(s) = m + 2
      BY <2>2, Zenon DEF OptString, OptLength, m
    <3>7. QED BY <2>2, <3>2, <3>4, <3>5, <3>6, Zenon DEF m
  <2>3. QED BY <2>1, <2>2, Zenon
\* MQTTDeserialize_connect reads an optional string as its flag says, and its tests let it.
<1>OptHeld. ASSUME NEW s, NEW d, NEW at, NEW end, OptIn(s, d, at, end)
            PROVE  /\ (IF Flag(s) = 1 THEN Past(d, at) ELSE at) = at + OptLength(s)
                   /\ (IF Flag(s) = 1 THEN <<StringAt(d, at)>> ELSE <<>>) = s
                   /\ Flag(s) = 1 => StringFits(d, at, end)
                   /\ Flag(s) = 1 /\ s[1] # <<>> => end - at >= 3
  <2>0. /\ s \in Optional(Text) /\ d \in Seq(Byte) /\ at \in Nat /\ end \in Nat
        /\ Holds(d, at, OptString(s)) /\ at + OptLength(s) <= end
    BY <1>OptHeld, Zenon DEF OptIn
  <2>f. Flag(s) = 1 <=> s # <<>>
    BY <2>0, <1>OptBytes, Zenon
  <2>1. CASE s = <<>>
    <3>1. OptLength(s) = 0
      BY <2>1 DEF OptLength
    <3>2. at + 0 = at
      BY <2>0
    <3>3. QED BY <2>1, <2>f, <3>1, <3>2, Zenon
  <2>2. CASE s # <<>>
    <3>1. s[1] \in Text /\ s = <<s[1]>>
      BY <2>0, <2>2, <1>OptOne, Zenon
    <3> DEFINE m == Len(s[1])
               t == s[1]
    <3>2. OptString(s) = MQTTString(t) /\ OptLength(s) = m + 2
      BY <2>2, Zenon DEF OptString, OptLength
    <3>3. t \in Seq(Byte) /\ t \in Text
      BY <3>1, TextBytes, Zenon
    <3>4. m \in Nat /\ (t # <<>> => m >= 1)
      BY <3>3
    <3>5. /\ Past(d, at) = at + 2 + m /\ StringAt(d, at) = t
          /\ \A e \in Nat : at + 2 + m <= e => StringFits(d, at, e)
      <4> HIDE DEF t
      <4>1. Holds(d, at, MQTTString(t))
        BY <2>0, <3>2, Zenon
      <4>2. QED BY <4>1, <2>0, <3>3, TextHeld, Zenon DEF t
    <3> HIDE DEF m, t
    <3>6. at + (m + 2) = at + 2 + m /\ at + 2 + m <= end /\ (t # <<>> => end - at >= 3)
      BY <2>0, <3>2, <3>4
    <3>7. QED BY <2>0, <2>f, <2>2, <3>1, <3>2, <3>5, <3>6, Zenon DEF t
  <2>3. QED BY <2>1, <2>2, Zenon
\* The reader's position behind a piece.
<1>LastPart. ASSUME NEW d, NEW at, NEW x, NEW y, LastIn(d, at, x, y)
             PROVE  /\ Holds(d, at, x) /\ Holds(d, at + Len(x), y)
                    /\ at + Len(x) \in Nat /\ at + Len(x \o y) = at + Len(x) + Len(y)
  <2>0. at \in Nat /\ x \in Seq(Byte) /\ y \in Seq(Byte) /\ d \in Seq(Byte) /\ Holds(d, at, x \o y)
    BY <1>LastPart, Zenon DEF LastIn
  <2>1. Holds(d, at, x) /\ Holds(d, at + Len(x), y)
    BY <2>0, HoldsParts, Zenon
  <2>2. Len(x) \in Nat /\ Len(y) \in Nat /\ Len(x \o y) = Len(x) + Len(y)
    BY <2>0
  <2> DEFINE n == Len(x)
             k == Len(y)
  <2> HIDE DEF n, k
  <2>3. at + n \in Nat /\ at + (n + k) = at + n + k
    BY <2>0, <2>2 DEF n, k
  <2>4. QED BY <2>1, <2>2, <2>3, Zenon DEF n, k
\* Where the eight parts are.
<1>Frame8. ASSUME NEW h, NEW a, NEW b, NEW c, NEW e, NEW w, NEW m, NEW u, NEW p1, NEW d, Framed8(h, a, b, c, e, w, m, u, p1, d)
           PROVE  /\ d \in Seq(Byte) /\ d[1] = h /\ Start(d) \in Nat /\ End(d) \in Nat
                  /\ Holds(d, Start(d), a)
                  /\ Holds(d, Start(d) + Len(a), b) /\ Start(d) + Len(a) \in Nat
                  /\ Holds(d, Start(d) + Len(a) + Len(b), c) /\ Start(d) + Len(a) + Len(b) \in Nat
                  /\ Holds(d, Start(d) + Len(a) + Len(b) + Len(c), e) /\ Start(d) + Len(a) + Len(b) + Len(c) \in Nat
                  /\ Holds(d, Start(d) + Len(a) + Len(b) + Len(c) + Len(e), w) /\ Start(d) + Len(a) + Len(b) + Len(c) + Len(e) \in Nat
                  /\ Holds(d, Start(d) + Len(a) + Len(b) + Len(c) + Len(e) + Len(w), m) /\ Start(d) + Len(a) + Len(b) + Len(c) + Len(e) + Len(w) \in Nat
                  /\ Holds(d, Start(d) + Len(a) + Len(b) + Len(c) + Len(e) + Len(w) + Len(m), u) /\ Start(d) + Len(a) + Len(b) + Len(c) + Len(e) + Len(w) + Len(m) \in Nat
                  /\ Holds(d, Start(d) + Len(a) + Len(b) + Len(c) + Len(e) + Len(w) + Len(m) + Len(u), p1) /\ Start(d) + Len(a) + Len(b) + Len(c) + Len(e) + Len(w) + Len(m) + Len(u) \in Nat
                  /\ End(d) = Start(d) + Len(a) + Len(b) + Len(c) + Len(e) + Len(w) + Len(m) + Len(u) + Len(p1)
  <2> DEFINE at == Start(d)
             X2 == a \o b
             X3 == X2 \o c
             X4 == X3 \o e
             X5 == X4 \o w
             X6 == X5 \o m
             X7 == X6 \o u
             X8 == X7 \o p1
  <2>0. /\ a \in Seq(Byte) /\ b \in Seq(Byte) /\ c \in Seq(Byte) /\ e \in Seq(Byte)
        /\ w \in Seq(Byte) /\ m \in Seq(Byte) /\ u \in Seq(Byte) /\ p1 \in Seq(Byte)
    BY <1>Frame8, Zenon DEF Framed8
  <2>1. Framed(h, X8, d)
    BY <1>Frame8, Zenon DEF Framed8
  <2>2. X2 \in Seq(Byte)
    <3>1. a \in Seq(Byte) /\ b \in Seq(Byte)
      BY <2>0, Zenon
    <3>2. QED BY <3>1
  <2>3. X3 \in Seq(Byte)
    <3>1. X2 \in Seq(Byte) /\ c \in Seq(Byte)
      BY <2>0, <2>2, Zenon
    <3> HIDE DEF X2
    <3>2. QED BY <3>1
  <2>4. X4 \in Seq(Byte)
    <3>1. X3 \in Seq(Byte) /\ e \in Seq(Byte)
      BY <2>0, <2>3, Zenon
    <3> HIDE DEF X3
    <3>2. QED BY <3>1
  <2>5. X5 \in Seq(Byte)
    <3>1. X4 \in Seq(Byte) /\ w \in Seq(Byte)
      BY <2>0, <2>4, Zenon
    <3> HIDE DEF X4
    <3>2. QED BY <3>1
  <2>6. X6 \in Seq(Byte)
    <3>1. X5 \in Seq(Byte) /\ m \in Seq(Byte)
      BY <2>0, <2>5, Zenon
    <3> HIDE DEF X5
    <3>2. QED BY <3>1
  <2>7. X7 \in Seq(Byte)
    <3>1. X6 \in Seq(Byte) /\ u \in Seq(Byte)
      BY <2>0, <2>6, Zenon
    <3> HIDE DEF X6
    <3>2. QED BY <3>1
  <2>8. d \in Seq(Byte) /\ d[1] = h /\ at \in Nat /\ Holds(d, at, X8) /\ End(d) = at + Len(X8) /\ End(d) \in Nat
    <3> HIDE DEF X8
    <3>1. QED BY <2>1, FrameBody
  <2> HIDE DEF at
  <2>9. Holds(d, at, X7) /\ Holds(d, at + Len(X7), p1) /\ at + Len(X7) \in Nat /\ at + Len(X8) = at + Len(X7) + Len(p1)
    <3> HIDE DEF X7
    <3>1. LastIn(d, at, X7, p1)
      BY <2>0, <2>7, <2>8, <2>8, Zenon DEF LastIn
    <3>2. QED BY <3>1, <1>LastPart
  <2>10. Holds(d, at, X6) /\ Holds(d, at + Len(X6), u) /\ at + Len(X6) \in Nat /\ at + Len(X7) = at + Len(X6) + Len(u)
    <3> HIDE DEF X6
    <3>1. LastIn(d, at, X6, u)
      BY <2>0, <2>6, <2>8, <2>9, Zenon DEF LastIn
    <3>2. QED BY <3>1, <1>LastPart
  <2>11. Holds(d, at, X5) /\ Holds(d, at + Len(X5), m) /\ at + Len(X5) \in Nat /\ at + Len(X6) = at + Len(X5) + Len(m)
    <3> HIDE DEF X5
    <3>1. LastIn(d, at, X5, m)
      BY <2>0, <2>5, <2>8, <2>10, Zenon DEF LastIn
    <3>2. QED BY <3>1, <1>LastPart
  <2>12. Holds(d, at, X4) /\ Holds(d, at + Len(X4), w) /\ at + Len(X4) \in Nat /\ at + Len(X5) = at + Len(X4) + Len(w)
    <3> HIDE DEF X4
    <3>1. LastIn(d, at, X4, w)
      BY <2>0, <2>4, <2>8, <2>11, Zenon DEF LastIn
    <3>2. QED BY <3>1, <1>LastPart
  <2>13. Holds(d, at, X3) /\ Holds(d, at + Len(X3), e) /\ at + Len(X3) \in Nat /\ at + Len(X4) = at + Len(X3) + Len(e)
    <3> HIDE DEF X3
    <3>1. LastIn(d, at, X3, e)
      BY <2>0, <2>3, <2>8, <2>12, Zenon DEF LastIn
    <3>2. QED BY <3>1, <1>LastPart
  <2>14. Holds(d, at, X2) /\ Holds(d, at + Len(X2), c) /\ at + Len(X2) \in Nat /\ at + Len(X3) = at + Len(X2) + Len(c)
    <3> HIDE DEF X2
    <3>1. LastIn(d, at, X2, c)
      BY <2>0, <2>2, <2>8, <2>13, Zenon DEF LastIn
    <3>2. QED BY <3>1, <1>LastPart
  <2>15. Holds(d, at, a) /\ Holds(d, at + Len(a), b) /\ at + Len(a) \in Nat /\ at + Len(X2) = at + Len(a) + Len(b)
    <3>1. LastIn(d, at, a, b)
      BY <2>0, <2>8, <2>14, Zenon DEF LastIn
    <3>2. QED BY <3>1, <1>LastPart
  <2> HIDE DEF X2, X3, X4, X5, X6, X7, X8
  <2>16. QED BY <2>8, <2>9, <2>10, <2>11, <2>12, <2>13, <2>14, <2>15, Zenon DEF at
\* The positions MQTTDeserialize_connect computes, one from the other.
<1>ConnectUnfolded. ASSUME NEW d
                    PROVE  MQTTDeserialize_connect(d) = ConnectAt(d, d[Past(d, Start(d)) + 1], Past(d, Start(d)) + 4)
  BY Zenon DEF MQTTDeserialize_connect, ConnectAt, ConnectFrom
\* A string whose length fits two bytes.
<1>IsText. ASSUME NEW s \in Seq(Byte), Len(s) < 65536
           PROVE  s \in Text
  BY <1>IsText, SMT DEF Text
\* The protocol name of each version, and that MQTTPacket_checkVersion takes it.
<1>ProtocolText. ASSUME NEW v \in {3, 4}
                 PROVE  /\ Protocol(v) \in Text /\ Len(MQTTString(Protocol(v))) = (IF v = 4 THEN 6 ELSE 8)
                        /\ MQTTPacket_checkVersion(Protocol(v), v)
  <2>1. 77 \in Byte /\ 81 \in Byte /\ 84 \in Byte /\ 73 \in Byte /\ 115 \in Byte /\ 100 \in Byte /\ 112 \in Byte
    BY DEF Byte
  <2>2. <<77, 81, 84, 84>> \in Seq(Byte) /\ Len(<<77, 81, 84, 84>>) = 4
    BY <2>1
  <2>3. <<77, 81, 73, 115, 100, 112>> \in Seq(Byte) /\ Len(<<77, 81, 73, 115, 100, 112>>) = 6
    BY <2>1
  <2>4. Protocol(v) \in Seq(Byte) /\ Len(Protocol(v)) = (IF v = 4 THEN 4 ELSE 6)
    BY <2>2, <2>3, Zenon DEF Protocol
  <2>5. 2 + (IF v = 4 THEN 4 ELSE 6) = (IF v = 4 THEN 6 ELSE 8)
    OBVIOUS
  <2>6. Protocol(v) \in Text
    <3> DEFINE s == Protocol(v)
               n == Len(s)
    <3>1. s \in Seq(Byte) /\ (n = 4 \/ n = 6)
      BY <2>4, Zenon
    <3> HIDE DEF s, n
    <3>2. n < 65536
      BY <3>1, SMT
    <3>3. s \in Text
      BY <3>1, <3>2, <1>IsText, SMT DEF n
    <3>4. QED BY <3>3 DEF s
  <2>7. Len(MQTTString(Protocol(v))) = 2 + Len(Protocol(v))
    BY <2>6, TextBytes, Zenon
  <2>8. MQTTPacket_checkVersion(Protocol(v), v)
    BY Zenon DEF MQTTPacket_checkVersion
  <2>9. QED BY <2>4, <2>5, <2>6, <2>7, <2>8, Zenon
\* MQTTDeserialize_connect finds the parts that MQTTSerialize_connect wrote.
<1>ConnectParts. ASSUME NEW v, NEW cl, NEW ka, NEW id, NEW wt, NEW wm, NEW wq, NEW wr, NEW un, NEW pw, NEW f, NEW h, NEW d,
                        ConnectFor(v, cl, ka, id, wt, wm, wq, wr, un, pw, f, h, d)
                 PROVE  \E P2, P3, P4, P5, P6, P7, P8 : ConnectPlaced(d, v, ka, id, wt, wm, un, pw, f, h, P2, P3, P4, P5, P6, P7, P8)
  <2>0. /\ v \in {3, 4} /\ ka \in UShort /\ id \in Text
        /\ wt \in Optional(Text) /\ wm \in Optional(Text) /\ un \in Optional(Text) /\ pw \in Optional(Text)
        /\ Framed8(h, MQTTString(Protocol(v)), <<v, f>>, Int16(ka), MQTTString(id),
                   OptString(wt), OptString(wm), OptString(un), OptString(pw), d)
    BY <1>ConnectParts, Zenon DEF ConnectFor
  <2>1. /\ Protocol(v) \in Text /\ Len(MQTTString(Protocol(v))) = 2 + Len(Protocol(v)) /\ Len(Protocol(v)) \in Nat
        /\ Len(<<v, f>>) = 2 /\ Len(Int16(ka)) = 2 /\ Len(MQTTString(id)) = 2 + Len(id) /\ Len(id) \in Nat
        /\ Len(OptString(wt)) = OptLength(wt) /\ OptLength(wt) \in Nat
        /\ Len(OptString(wm)) = OptLength(wm) /\ OptLength(wm) \in Nat
        /\ Len(OptString(un)) = OptLength(un) /\ OptLength(un) \in Nat
        /\ Len(OptString(pw)) = OptLength(pw) /\ OptLength(pw) \in Nat
    <3>1. Protocol(v) \in Text
      BY <2>0, <1>ProtocolText, Zenon
    <3>2. /\ Len(MQTTString(Protocol(v))) = 2 + Len(Protocol(v)) /\ Protocol(v) \in Seq(Byte)
          /\ Len(MQTTString(id)) = 2 + Len(id) /\ id \in Seq(Byte)
      BY <2>0, <3>1, TextBytes, Zenon
    <3>3. \A s \in Seq(Byte) : Len(s) \in Nat
      OBVIOUS
    <3>4. Len(<<v, f>>) = 2
      OBVIOUS
    <3>5. Len(Int16(ka)) = 2
      BY <2>0, Int16Bytes, Zenon
    <3>6. \A s \in Optional(Text) : Len(OptString(s)) = OptLength(s) /\ OptLength(s) \in Nat
      BY <1>OptBytes, Zenon
    <3>7. QED BY <2>0, <3>1, <3>2, <3>3, <3>4, <3>5, <3>6, Zenon
  <2> DEFINE A == MQTTString(Protocol(v))
             B == <<v, f>>
             C == Int16(ka)
             E == MQTTString(id)
             W == OptString(wt)
             M == OptString(wm)
             U == OptString(un)
             Q == OptString(pw)
             at == Start(d)
             a == Len(A)
             P2 == at + Len(A)
             P3 == P2 + Len(B)
             P4 == P3 + Len(C)
             P5 == P4 + Len(E)
             P6 == P5 + Len(W)
             P7 == P6 + Len(M)
             P8 == P7 + Len(U)
             end == End(d)
  <2>2. /\ d \in Seq(Byte) /\ d[1] = h /\ at \in Nat
        /\ Holds(d, at, MQTTString(Protocol(v))) /\ Holds(d, P2, <<v, f>>) /\ Holds(d, P3, Int16(ka))
        /\ Holds(d, P4, MQTTString(id)) /\ Holds(d, P5, OptString(wt)) /\ Holds(d, P6, OptString(wm))
        /\ Holds(d, P7, OptString(un)) /\ Holds(d, P8, OptString(pw)) /\ end = P8 + Len(OptString(pw))
    <3>1. Framed8(h, A, B, C, E, W, M, U, Q, d)
      BY <2>0, Zenon
    <3> HIDE DEF A, B, C, E, W, M, U, Q
    <3>2. /\ d \in Seq(Byte) /\ d[1] = h /\ at \in Nat
          /\ Holds(d, at, A) /\ Holds(d, P2, B) /\ Holds(d, P3, C) /\ Holds(d, P4, E) /\ Holds(d, P5, W)
          /\ Holds(d, P6, M) /\ Holds(d, P7, U) /\ Holds(d, P8, Q) /\ end = P8 + Len(Q)
      BY <3>1, <1>Frame8, SMTT(30)
    <3> HIDE DEF P2, P3, P4, P5, P6, P7, P8
    <3>3. QED BY <3>2, Zenon DEF A, B, C, E, W, M, U, Q
  <2>3. /\ P2 = at + a /\ P3 = P2 + 2 /\ P4 = P3 + 2 /\ P5 = P4 + (2 + Len(id)) /\ P6 = P5 + OptLength(wt)
        /\ P7 = P6 + OptLength(wm) /\ P8 = P7 + OptLength(un) /\ end = P8 + OptLength(pw)
    <3>1. P2 = at + a
      BY Zenon
    <3>2. P3 = P2 + 2
      BY <2>1, Zenon
    <3> HIDE DEF P2
    <3>3. P4 = P3 + 2
      BY <2>1, Zenon
    <3> HIDE DEF P3
    <3>4. P5 = P4 + (2 + Len(id))
      BY <2>1, Zenon
    <3> HIDE DEF P4
    <3>5. P6 = P5 + OptLength(wt)
      BY <2>1, Zenon
    <3> HIDE DEF P5
    <3>6. P7 = P6 + OptLength(wm)
      BY <2>1, Zenon
    <3> HIDE DEF P6
    <3>7. P8 = P7 + OptLength(un)
      BY <2>1, Zenon
    <3> HIDE DEF P7, P8
    <3>8. end = P8 + OptLength(pw)
      BY <2>1, <2>2, Zenon
    <3>9. QED BY <3>1, <3>2, <3>3, <3>4, <3>5, <3>6, <3>7, <3>8
  <2> HIDE DEF at, P2, P3, P4, P5, P6, P7, P8, end
  <2>4. /\ P2 \in Nat /\ P3 \in Nat /\ P4 \in Nat /\ P5 \in Nat /\ P6 \in Nat /\ P7 \in Nat /\ P8 \in Nat /\ end \in Nat
        /\ P4 = P2 + 4 /\ P4 - 2 = P3 /\ P5 = P4 + 2 + Len(id)
        /\ P2 <= end /\ P4 + 2 + Len(id) <= end
        /\ P5 + OptLength(wt) <= end /\ P6 + OptLength(wm) <= end
        /\ P7 + OptLength(un) <= end /\ P8 + OptLength(pw) <= end
    <3> DEFINE m == Len(id)
               n1 == OptLength(wt)
               n2 == OptLength(wm)
               n3 == OptLength(un)
               n4 == OptLength(pw)
    <3>0. a = 2 + Len(Protocol(v)) /\ Len(Protocol(v)) \in Nat
      BY <2>1, Zenon
    <3> HIDE DEF a
    <3>1. at \in Nat /\ a \in Nat /\ m \in Nat /\ n1 \in Nat /\ n2 \in Nat /\ n3 \in Nat /\ n4 \in Nat
      <4>1. a \in Nat
        BY <3>0
      <4>2. QED BY <4>1, <2>1, <2>2, Zenon
    <3> HIDE DEF m, n1, n2, n3, n4
    <3>2. /\ P2 = at + a /\ P3 = P2 + 2 /\ P4 = P3 + 2 /\ P5 = P4 + (2 + m) /\ P6 = P5 + n1
          /\ P7 = P6 + n2 /\ P8 = P7 + n3 /\ end = P8 + n4
      BY <2>3, Zenon DEF m, n1, n2, n3, n4
    <3>3. /\ P2 \in Nat /\ P3 \in Nat /\ P4 \in Nat /\ P5 \in Nat /\ P6 \in Nat /\ P7 \in Nat /\ P8 \in Nat /\ end \in Nat
          /\ P4 = P2 + 4 /\ P4 - 2 = P3 /\ P5 = P4 + 2 + m
          /\ P2 <= end /\ P4 + 2 + m <= end /\ P5 + n1 <= end /\ P6 + n2 <= end /\ P7 + n3 <= end /\ P8 + n4 <= end
      BY <3>1, <3>2
    <3>4. QED BY <3>3, Zenon DEF m, n1, n2, n3, n4
  <2>5. Past(d, at) = P2 /\ StringAt(d, at) = Protocol(v) /\ StringFits(d, at, end)
    <3>1. at + 2 + Len(Protocol(v)) = P2
      <4> DEFINE k == Len(Protocol(v))
      <4>1. k \in Nat /\ P2 = at + (2 + k) /\ at \in Nat
        BY <2>1, <2>2, <2>3, Zenon
      <4> HIDE DEF k
      <4>2. at + 2 + k = P2
        BY <4>1
      <4>3. QED BY <4>2 DEF k
    <3>2. QED BY <3>1, <2>1, <2>2, <2>4, TextHeld, Zenon
  <2>6. d[P2] = v /\ d[P2 + 1] = f
    BY <2>2, TwoHeld, Zenon
  <2>7. IntAt(d, P3) = ka
    BY <2>0, <2>2, IntHeld, Zenon
  <2>8. Past(d, P4) = P5 /\ StringAt(d, P4) = id /\ StringFits(d, P4, end)
    BY <2>0, <2>2, <2>4, TextHeld, Zenon
  <2>9. OptIn(wt, d, P5, end) /\ OptIn(wm, d, P6, end) /\ OptIn(un, d, P7, end) /\ OptIn(pw, d, P8, end)
    BY <2>0, <2>2, <2>4, Zenon DEF OptIn
  <2>10. ConnectPlaced(d, v, ka, id, wt, wm, un, pw, f, h, P2, P3, P4, P5, P6, P7, P8)
    BY <2>2, <2>3, <2>4, <2>5, <2>6, <2>7, <2>8, <2>9, Zenon DEF ConnectPlaced, at, end
  <2>11. QED BY <2>10, Zenon
\* MQTTDeserialize_connect gets the flags back.
<1>FlagsRead. ASSUME NEW fu, NEW fp, NEW fw, NEW wr, NEW wq, NEW cl, NEW f, FlagsOf(fu, fp, fw, wr, wq, cl, f)
              PROVE  /\ (f \div 128) % 2 = fu /\ (f \div 64) % 2 = fp /\ (f \div 4) % 2 = fw /\ (f \div 2) % 2 = cl
                     /\ fw = 1 => (f \div 8) % 4 = wq /\ (f \div 32) % 2 = wr
  BY <1>FlagsRead, <1>FlagBits, SMT DEF FlagsOf
\* MQTTDeserialize_connect gets every field back: versions 3 and 4, with and without will, user name and password.
<1>ConnectRead. ASSUME NEW v, NEW cl, NEW ka, NEW id, NEW wt, NEW wm, NEW wq, NEW wr, NEW un, NEW pw, NEW f, NEW h, NEW d,
                       ConnectFor(v, cl, ka, id, wt, wm, wq, wr, un, pw, f, h, d)
                PROVE  /\ d[1] = h
                       /\ MQTTDeserialize_connect(d) =
                            [type |-> CONNECT, version |-> v, clean |-> cl, keepAlive |-> ka, clientID |-> id,
                             willTopic |-> wt, willMessage |-> wm, willQos |-> wq, willRetain |-> wr,
                             username |-> un, password |-> pw]
  <2>1. PICK P2, P3, P4, P5, P6, P7, P8 : ConnectPlaced(d, v, ka, id, wt, wm, un, pw, f, h, P2, P3, P4, P5, P6, P7, P8)
    BY <1>ConnectRead, <1>ConnectParts, Zenon
  <2> DEFINE end == End(d)
  <2>2. /\ d \in Seq(Byte) /\ d[1] = h
        /\ P5 \in Nat /\ P6 \in Nat /\ P7 \in Nat /\ P8 \in Nat
        /\ P4 = P2 + 4 /\ P4 - 2 = P3
        /\ Past(d, Start(d)) = P2 /\ StringAt(d, Start(d)) = Protocol(v) /\ StringFits(d, Start(d), end)
        /\ d[P2] = v /\ d[P2 + 1] = f /\ IntAt(d, P3) = ka
        /\ Past(d, P4) = P5 /\ StringAt(d, P4) = id /\ StringFits(d, P4, end)
    BY <2>1, Zenon DEF ConnectPlaced
  <2>3. /\ P6 = P5 + OptLength(wt) /\ P7 = P6 + OptLength(wm) /\ P8 = P7 + OptLength(un)
        /\ OptIn(wt, d, P5, end) /\ OptIn(wm, d, P6, end) /\ OptIn(un, d, P7, end) /\ OptIn(pw, d, P8, end)
    BY <2>1, Zenon DEF ConnectPlaced
  <2> HIDE DEF end
  <2>4. /\ v \in {3, 4} /\ cl \in Bit
        /\ wt \in Optional(Text) /\ wm \in Optional(Text) /\ wq \in QoS /\ wr \in Bit
        /\ un \in Optional(Text) /\ pw \in Optional(Text)
    BY <1>ConnectRead, Zenon DEF ConnectFor
  <2>5. /\ (un # <<>> => un[1] # <<>>) /\ (pw # <<>> => pw[1] # <<>>)
        /\ Flag(wt) = Flag(wm) /\ (wt = <<>> => wq = 0 /\ wr = 0) /\ (un = <<>> => pw = <<>>)
        /\ f = 128 * Flag(un) + 64 * Flag(pw) + Flag(wt) * (32 * wr + 8 * wq + 4) + 2 * cl
    BY <1>ConnectRead, Zenon DEF ConnectFor
  <2>6. \A s \in Optional(Text) : Flag(s) \in Bit /\ (Flag(s) = 1 <=> s # <<>>) /\ (Flag(s) = 0 <=> s = <<>>)
    BY <1>OptBytes, Zenon
  <2>7. /\ (f \div 128) % 2 = Flag(un) /\ (f \div 64) % 2 = Flag(pw) /\ (f \div 4) % 2 = Flag(wt) /\ (f \div 2) % 2 = cl
        /\ Flag(wt) = 1 => (f \div 8) % 4 = wq /\ (f \div 32) % 2 = wr
    <3> DEFINE fu == Flag(un)
               fp == Flag(pw)
               fw == Flag(wt)
    <3>1. fu \in Bit /\ fp \in Bit /\ fw \in Bit /\ f = 128 * fu + 64 * fp + fw * (32 * wr + 8 * wq + 4) + 2 * cl
      BY <2>4, <2>5, <2>6, Zenon
    <3> HIDE DEF fu, fp, fw
    <3>2. /\ (f \div 128) % 2 = fu /\ (f \div 64) % 2 = fp /\ (f \div 4) % 2 = fw /\ (f \div 2) % 2 = cl
          /\ fw = 1 => (f \div 8) % 4 = wq /\ (f \div 32) % 2 = wr
      <4>1. FlagsOf(fu, fp, fw, wr, wq, cl, f)
        BY <3>1, <2>4, Zenon DEF FlagsOf
      <4>2. QED BY <4>1, <1>FlagsRead, SMT
    <3>3. QED BY <3>2, Zenon DEF fu, fp, fw
  <2>8. /\ (IF Flag(wt) = 1 THEN Past(d, P5) ELSE P5) = P6
        /\ (IF Flag(wt) = 1 THEN <<StringAt(d, P5)>> ELSE <<>>) = wt
        /\ Flag(wt) = 1 => StringFits(d, P5, end)
    BY <2>3, <1>OptHeld, Zenon
  <2>9. /\ (IF Flag(wt) = 1 THEN Past(d, P6) ELSE P6) = P7
        /\ (IF Flag(wt) = 1 THEN <<StringAt(d, P6)>> ELSE <<>>) = wm
        /\ Flag(wt) = 1 => StringFits(d, P6, end)
    BY <2>3, <2>5, <1>OptHeld, Zenon
  <2>10. /\ (IF Flag(un) = 1 THEN Past(d, P7) ELSE P7) = P8
         /\ (IF Flag(un) = 1 THEN <<StringAt(d, P7)>> ELSE <<>>) = un
         /\ Flag(un) = 1 => StringFits(d, P7, end) /\ end - P7 >= 3
    <3>1. Flag(un) = 1 => un[1] # <<>>
      BY <2>4, <2>5, <2>6, Zenon
    <3>2. /\ (IF Flag(un) = 1 THEN Past(d, P7) ELSE P7) = P7 + OptLength(un)
          /\ (IF Flag(un) = 1 THEN <<StringAt(d, P7)>> ELSE <<>>) = un
          /\ Flag(un) = 1 => StringFits(d, P7, end)
          /\ Flag(un) = 1 /\ un[1] # <<>> => end - P7 >= 3
      BY <2>3, <1>OptHeld, Zenon
    <3>3. QED BY <2>3, <3>1, <3>2, Zenon
  <2>11. /\ (IF Flag(pw) = 1 THEN <<StringAt(d, P8)>> ELSE <<>>) = pw
         /\ Flag(pw) = 1 => StringFits(d, P8, end) /\ end - P8 >= 3 /\ Flag(un) = 1
    <3>1. Flag(pw) = 1 => pw[1] # <<>> /\ Flag(un) = 1
      BY <2>4, <2>5, <2>6, Zenon
    <3>2. QED BY <2>3, <3>1, <1>OptHeld, Zenon
  <2>12. (IF Flag(wt) = 1 THEN Past(d, P6) ELSE P5) = P7
    BY <2>8, <2>9, Zenon
  <2>13. MQTTDeserialize_connect(d) = ConnectFrom(d, end, v, f, P4, P5, P6, P7, P8)
    <3>1. MQTTDeserialize_connect(d) = ConnectAt(d, f, P4)
      BY <2>2, <1>ConnectUnfolded, Zenon
    <3>2. ConnectAt(d, f, P4) = ConnectFrom(d, end, v, f, P4, P5, P6, P7, P8)
      BY <2>2, <2>7, <2>8, <2>10, <2>12, Zenon DEF ConnectAt, end
    <3>3. QED BY <3>1, <3>2
  <2>14. MQTTPacket_checkVersion(StringAt(d, Start(d)), v)
    BY <2>2, <2>4, <1>ProtocolText, Zenon
  <2>15. (IF cl = 1 THEN 1 ELSE 0) = cl
    BY <2>4 DEF Bit
  <2>16. (IF Flag(wt) = 1 THEN 1 ELSE 0) * ((f \div 8) % 4) = wq
    <3>1. CASE Flag(wt) = 1
      BY <3>1, <2>4, <2>7 DEF QoS
    <3>2. CASE Flag(wt) # 1
      <4>1. wq = 0
        BY <3>2, <2>4, <2>5, <2>6, Zenon
      <4>2. f \in Int
        <5>1. Flag(un) \in Bit /\ Flag(pw) \in Bit /\ Flag(wt) = 0
          BY <3>2, <2>4, <2>6 DEF Bit
        <5>2. QED BY <5>1, <2>4, <2>5 DEF Bit, QoS
      <4>3. (f \div 8) % 4 \in Int
        BY <4>2
      <4>4. QED BY <3>2, <4>1, <4>3
    <3>3. QED BY <3>1, <3>2
  <2>17. (IF Flag(wt) = 1 /\ (f \div 32) % 2 = 1 THEN 1 ELSE 0) = wr
    <3>1. CASE Flag(wt) = 1
      BY <3>1, <2>4, <2>7 DEF Bit
    <3>2. CASE Flag(wt) # 1
      BY <3>2, <2>4, <2>5, <2>6, Zenon
    <3>3. QED BY <3>1, <3>2
  <2>18. ConnectFrom(d, end, v, f, P4, P5, P6, P7, P8) =
           [type |-> CONNECT, version |-> v, clean |-> cl, keepAlive |-> ka, clientID |-> id,
            willTopic |-> wt, willMessage |-> wm, willQos |-> wq, willRetain |-> wr, username |-> un, password |-> pw]
    <3>1. /\ StringFits(d, Start(d), end)
          /\ MQTTPacket_checkVersion(StringAt(d, Start(d)), v)
          /\ StringFits(d, P4, end)
          /\ (f \div 4) % 2 = 1 => StringFits(d, P5, end) /\ StringFits(d, P6, end)
          /\ (f \div 128) % 2 = 1 => end - P7 >= 3 /\ StringFits(d, P7, end)
          /\ (f \div 64) % 2 = 1 => (f \div 128) % 2 = 1 /\ end - P8 >= 3 /\ StringFits(d, P8, end)
      BY <2>2, <2>7, <2>8, <2>9, <2>10, <2>11, <2>14, ZenonT(40)
    <3>2. ConnectFrom(d, end, v, f, P4, P5, P6, P7, P8) =
           [type |-> CONNECT, version |-> v, clean |-> IF (f \div 2) % 2 = 1 THEN 1 ELSE 0, keepAlive |-> IntAt(d, P4 - 2),
            clientID |-> StringAt(d, P4),
            willTopic |-> IF (f \div 4) % 2 = 1 THEN <<StringAt(d, P5)>> ELSE <<>>,
            willMessage |-> IF (f \div 4) % 2 = 1 THEN <<StringAt(d, P6)>> ELSE <<>>,
            willQos |-> (IF (f \div 4) % 2 = 1 THEN 1 ELSE 0) * ((f \div 8) % 4),
            willRetain |-> IF (f \div 4) % 2 = 1 /\ (f \div 32) % 2 = 1 THEN 1 ELSE 0,
            username |-> IF (f \div 128) % 2 = 1 THEN <<StringAt(d, P7)>> ELSE <<>>,
            password |-> IF (f \div 64) % 2 = 1 THEN <<StringAt(d, P8)>> ELSE <<>>]
      BY <3>1, Zenon DEF ConnectFrom
    <3>3. /\ (IF (f \div 2) % 2 = 1 THEN 1 ELSE 0) = cl
          /\ IntAt(d, P4 - 2) = ka /\ StringAt(d, P4) = id
      BY <2>2, <2>7, <2>15, Zenon
    <3>4. /\ (IF (f \div 4) % 2 = 1 THEN <<StringAt(d, P5)>> ELSE <<>>) = wt
          /\ (IF (f \div 4) % 2 = 1 THEN <<StringAt(d, P6)>> ELSE <<>>) = wm
      BY <2>7, <2>8, <2>9, Zenon
    <3>5. /\ (IF (f \div 4) % 2 = 1 THEN 1 ELSE 0) * ((f \div 8) % 4) = wq
          /\ (IF (f \div 4) % 2 = 1 /\ (f \div 32) % 2 = 1 THEN 1 ELSE 0) = wr
      BY <2>7, <2>16, <2>17, Zenon
    <3>6. /\ (IF (f \div 128) % 2 = 1 THEN <<StringAt(d, P7)>> ELSE <<>>) = un
          /\ (IF (f \div 64) % 2 = 1 THEN <<StringAt(d, P8)>> ELSE <<>>) = pw
      BY <2>7, <2>10, <2>11, Zenon
    <3> DEFINE F1 == IF (f \div 2) % 2 = 1 THEN 1 ELSE 0
               F2 == IntAt(d, P4 - 2)
               F3 == StringAt(d, P4)
               F4 == IF (f \div 4) % 2 = 1 THEN <<StringAt(d, P5)>> ELSE <<>>
               F5 == IF (f \div 4) % 2 = 1 THEN <<StringAt(d, P6)>> ELSE <<>>
               F6 == (IF (f \div 4) % 2 = 1 THEN 1 ELSE 0) * ((f \div 8) % 4)
               F7 == IF (f \div 4) % 2 = 1 /\ (f \div 32) % 2 = 1 THEN 1 ELSE 0
               F8 == IF (f \div 128) % 2 = 1 THEN <<StringAt(d, P7)>> ELSE <<>>
               F9 == IF (f \div 64) % 2 = 1 THEN <<StringAt(d, P8)>> ELSE <<>>
    <3>7. F1 = cl /\ F2 = ka /\ F3 = id /\ F4 = wt /\ F5 = wm /\ F6 = wq /\ F7 = wr /\ F8 = un /\ F9 = pw
      BY <3>3, <3>4, <3>5, <3>6, Zenon
    <3>8. ConnectFrom(d, end, v, f, P4, P5, P6, P7, P8) =
           [type |-> CONNECT, version |-> v, clean |-> F1, keepAlive |-> F2, clientID |-> F3, willTopic |-> F4,
            willMessage |-> F5, willQos |-> F6, willRetain |-> F7, username |-> F8, password |-> F9]
      BY <3>2, Zenon
    <3> HIDE DEF F1, F2, F3, F4, F5, F6, F7, F8, F9
    <3>9. QED BY <3>7, <3>8, Zenon
  <2>19. QED BY <2>2, <2>13, <2>18, Zenon
\* A user name or a password that is given is not empty: the reader asks for three bytes.
<1>GivenTexts. ASSUME NEW s \in Optional(Text \ {<<>>})
               PROVE  s \in Optional(Text) /\ (s # <<>> => s[1] # <<>>)
  <2> DEFINE T == Text \ {<<>>}
  <2>0. T \subseteq Text /\ \A t \in T : t # <<>>
    BY Zenon
  <2>1. s \in Seq(T) /\ Len(s) <= 1
    BY Zenon DEF Optional
  <2> HIDE DEF T
  <2>2. s \in Seq(Text)
    BY <2>0, <2>1
  <2>3. s # <<>> => s[1] \in T
    BY <2>1
  <2>4. QED BY <2>0, <2>1, <2>2, <2>3, Zenon DEF Optional
\* The arguments of MQTTSerialize_connect.
<1>ConnectFields. ASSUME NEW p1 \in ConnectPackets
                  PROVE  /\ p1.type = CONNECT /\ p1.version \in {3, 4} /\ p1.clean \in Bit /\ p1.keepAlive \in UShort /\ p1.clientID \in Text
                         /\ p1.willTopic \in Optional(Text) /\ p1.willMessage \in Optional(Text) /\ p1.willQos \in QoS /\ p1.willRetain \in Bit
                         /\ p1.username \in Optional(Text) /\ p1.password \in Optional(Text)
                         /\ (p1.username # <<>> => p1.username[1] # <<>>) /\ (p1.password # <<>> => p1.password[1] # <<>>)
                         /\ Flag(p1.willTopic) = Flag(p1.willMessage) /\ (p1.willTopic = <<>> => p1.willQos = 0 /\ p1.willRetain = 0)
                         /\ (p1.username = <<>> => p1.password = <<>>)
                         /\ p1 = [type |-> CONNECT, version |-> p1.version, clean |-> p1.clean, keepAlive |-> p1.keepAlive, clientID |-> p1.clientID,
                                 willTopic |-> p1.willTopic, willMessage |-> p1.willMessage, willQos |-> p1.willQos,
                                 willRetain |-> p1.willRetain, username |-> p1.username, password |-> p1.password]
  <2> DEFINE V == {3, 4}
             O == Optional(Text)
             G == Optional(Text \ {<<>>})
  <2>1. p1 \in [type : {CONNECT}, version : V, clean : Bit, keepAlive : UShort, clientID : Text,
               willTopic : O, willMessage : O, willQos : QoS, willRetain : Bit, username : G, password : G]
    BY Zenon DEF ConnectPackets, Bit, QoS
  <2>2. /\ Len(p1.willTopic) = Len(p1.willMessage) /\ (p1.willTopic = <<>> => p1.willQos = 0 /\ p1.willRetain = 0)
        /\ (p1.username = <<>> => p1.password = <<>>)
    BY Zenon DEF ConnectPackets
  <2>3. \A s \in G : s \in O /\ (s # <<>> => s[1] # <<>>)
    BY <1>GivenTexts, Zenon
  <2> HIDE DEF V, O, G
  <2>4. /\ p1.type = CONNECT /\ p1.version \in V /\ p1.clean \in Bit /\ p1.keepAlive \in UShort /\ p1.clientID \in Text
        /\ p1.willTopic \in O /\ p1.willMessage \in O /\ p1.willQos \in QoS /\ p1.willRetain \in Bit
        /\ p1.username \in G /\ p1.password \in G
        /\ p1 = [type |-> CONNECT, version |-> p1.version, clean |-> p1.clean, keepAlive |-> p1.keepAlive, clientID |-> p1.clientID,
                willTopic |-> p1.willTopic, willMessage |-> p1.willMessage, willQos |-> p1.willQos,
                willRetain |-> p1.willRetain, username |-> p1.username, password |-> p1.password]
    BY <2>1, SMT
  <2>5. QED BY <2>2, <2>3, <2>4, Zenon DEF V, O, Flag
<1> DEFINE h == HeaderByte(CONNECT, 0, 0, 0)
           f == connectFlags(p)
           A == MQTTString(Protocol(p.version))
           B == <<p.version, f>>
           C == Int16(p.keepAlive)
           E == MQTTString(p.clientID)
           W == OptString(p.willTopic)
           M == OptString(p.willMessage)
           U == OptString(p.username)
           Q == OptString(p.password)
           body == A \o B \o C \o E \o W \o M \o U \o Q
<1>1. /\ p.type = CONNECT /\ p.version \in {3, 4} /\ p.clean \in Bit /\ p.keepAlive \in UShort /\ p.clientID \in Text
      /\ p.willTopic \in Optional(Text) /\ p.willMessage \in Optional(Text) /\ p.willQos \in QoS /\ p.willRetain \in Bit
      /\ p.username \in Optional(Text) /\ p.password \in Optional(Text)
  BY <1>ConnectFields, Zenon
<1>2. h \in Byte /\ TypeOf(h) = CONNECT
  <2>1. h = HeaderByte(CONNECT, 0, 0, 0) /\ CONNECT \in PacketType /\ 0 \in Bit /\ 0 \in QoS
    BY PacketTypes, Zenon
  <2> HIDE DEF h
  <2>2. QED BY <2>1, HeaderBits
<1>3. f = 128 * Flag(p.username) + 64 * Flag(p.password)
          + Flag(p.willTopic) * (32 * p.willRetain + 8 * p.willQos + 4) + 2 * p.clean
  BY Zenon DEF connectFlags
<1>4. f \in Byte
  <2> DEFINE fu == Flag(p.username)
             fp == Flag(p.password)
             fw == Flag(p.willTopic)
             wr == p.willRetain
             wq == p.willQos
             cl == p.clean
  <2>1. /\ fu \in Bit /\ fp \in Bit /\ fw \in Bit /\ wr \in Bit /\ wq \in QoS /\ cl \in Bit
        /\ f = 128 * fu + 64 * fp + fw * (32 * wr + 8 * wq + 4) + 2 * cl
    BY <1>1, <1>3, <1>OptBytes, Zenon
  <2> HIDE DEF fu, fp, fw, wr, wq, cl, f
  <2>2. QED BY <2>1, <1>FlagBits, SMT
<1>5. A \in Seq(Byte) /\ Len(A) = (IF p.version = 4 THEN 6 ELSE 8)
  BY <1>1, <1>ProtocolText, TextBytes, Zenon
<1>6. B \in Seq(Byte) /\ Len(B) = 2
  <2>1. p.version \in Byte
    BY <1>1 DEF Byte
  <2> HIDE DEF f
  <2>2. QED BY <2>1, <1>4
<1>7. /\ C \in Seq(Byte) /\ Len(C) = 2 /\ E \in Seq(Byte) /\ Len(E) = 2 + Len(p.clientID) /\ p.clientID \in Seq(Byte)
  BY <1>1, Int16Bytes, TextBytes, Zenon
<1>8. /\ W \in Seq(Byte) /\ Len(W) = OptLength(p.willTopic) /\ OptLength(p.willTopic) \in Nat
      /\ M \in Seq(Byte) /\ Len(M) = OptLength(p.willMessage) /\ OptLength(p.willMessage) \in Nat
      /\ U \in Seq(Byte) /\ Len(U) = OptLength(p.username) /\ OptLength(p.username) \in Nat
      /\ Q \in Seq(Byte) /\ Len(Q) = OptLength(p.password) /\ OptLength(p.password) \in Nat
  BY <1>1, <1>OptBytes, Zenon
<1>9. body \in Seq(Byte) /\ Len(body) = connectLength(p)
  <2>1. body \in Seq(Byte) /\ Len(body) = Len(A) + Len(B) + Len(C) + Len(E) + Len(W) + Len(M) + Len(U) + Len(Q)
    <3> HIDE DEF A, B, C, E, W, M, U, Q
    <3>1. /\ A \in Seq(Byte) /\ B \in Seq(Byte) /\ C \in Seq(Byte) /\ E \in Seq(Byte)
          /\ W \in Seq(Byte) /\ M \in Seq(Byte) /\ U \in Seq(Byte) /\ Q \in Seq(Byte)
      BY <1>5, <1>6, <1>7, <1>8, Zenon
    <3>2. QED BY <3>1, SMT
  <2> DEFINE lv == IF p.version = 4 THEN 6 ELSE 8
             li == Len(p.clientID)
             lw == OptLength(p.willTopic)
             lm == OptLength(p.willMessage)
             lu == OptLength(p.username)
             lp == OptLength(p.password)
  <2>2. Len(body) = lv + 2 + 2 + (2 + li) + lw + lm + lu + lp
    BY <2>1, <1>5, <1>6, <1>7, <1>8, Zenon
  <2>3. connectLength(p) = (IF p.version = 4 THEN 10 ELSE 12) + li + 2 + lw + lm + lu + lp
    BY Zenon DEF connectLength
  <2>4. (IF p.version = 4 THEN 10 ELSE 12) = lv + 4 /\ lv \in Nat
    OBVIOUS
  <2>5. li \in Nat
    BY <1>7
  <2>6. connectLength(p) = lv + 4 + li + 2 + lw + lm + lu + lp
    BY <2>3, <2>4, Zenon
  <2>7. lw \in Nat /\ lm \in Nat /\ lu \in Nat /\ lp \in Nat
    BY <1>8, Zenon
  <2>8. lv \in Nat
    BY <2>4, Zenon
  <2> HIDE DEF lv, li, lw, lm, lu, lp, body
  <2>9. Len(body) = connectLength(p)
    BY <2>2, <2>5, <2>6, <2>7, <2>8, SMT
  <2>10. QED BY <2>1, <2>9, Zenon
<1>10. Serializer(p) = Written(MQTTPacket_len(connectLength(p)), h, Len(body), body)
  <2>1. Serializer(p) = MQTTSerialize_connect(p)
    BY <1>1, SerializerOf, Zenon
  <2>2. MQTTSerialize_connect(p) = Written(MQTTPacket_len(connectLength(p)), h, connectLength(p), body)
    BY Zenon DEF MQTTSerialize_connect
  <2>3. QED BY <2>1, <2>2, <1>9, Zenon
<1> DEFINE d == Frame(h, body)
<1>11. Serialize(p) = d /\ Needs(p) = MQTTPacket_len(connectLength(p))
  <2> HIDE DEF body, h
  <2>1. QED BY <1>10, WrittenFrame DEF Serialize, Needs
<1>n. Len(body) < Limit
  <2> HIDE DEF body
  <2>1. QED BY <1>9, <1>11, LenAbove
<1>12. Framed(h, body, d)
  BY <1>2, <1>9, <1>n, Zenon DEF Framed
<1>13. Framed8(h, A, B, C, E, W, M, U, Q, d)
  BY <1>5, <1>6, <1>7, <1>8, <1>12, Zenon DEF Framed8
<1>14. ConnectFor(p.version, p.clean, p.keepAlive, p.clientID, p.willTopic, p.willMessage, p.willQos, p.willRetain,
                  p.username, p.password, f, h, d)
  <2>1. /\ (p.username # <<>> => p.username[1] # <<>>) /\ (p.password # <<>> => p.password[1] # <<>>)
        /\ Flag(p.willTopic) = Flag(p.willMessage) /\ (p.willTopic = <<>> => p.willQos = 0 /\ p.willRetain = 0)
        /\ (p.username = <<>> => p.password = <<>>)
    BY <1>ConnectFields, Zenon
  <2> HIDE DEF d, h, f, body
  <2>2. QED BY <1>1, <1>3, <1>13, <2>1, Zenon DEF ConnectFor
<1> HIDE DEF d, h, f, body
<1>15. /\ d[1] = h
       /\ MQTTDeserialize_connect(d) =
            [type |-> CONNECT, version |-> p.version, clean |-> p.clean, keepAlive |-> p.keepAlive, clientID |-> p.clientID,
             willTopic |-> p.willTopic, willMessage |-> p.willMessage, willQos |-> p.willQos,
             willRetain |-> p.willRetain, username |-> p.username, password |-> p.password]
  BY <1>14, <1>ConnectRead, SMTT(30)
<1>16. Deserialize(d) = p
  <2>1. MQTTDeserialize_connect(d) = p
    BY <1>15, <1>ConnectFields, Zenon
  <2>2. Deserialize(d) = MQTTDeserialize_connect(d)
    BY <1>2, <1>15, DeserializerOf, Zenon
  <2>3. QED BY <2>1, <2>2
<1>17. QED BY <1>9, <1>11, <1>12, <1>16, Zenon

-----------------------------------------------------------------------------
\* The bytes of one packet.
Wire(s) == \E h, body : Framed(h, body, s)

\* The room MQTTPacket_len asks for, against the bytes a packet takes.
LEMMA FrameRoom ==
  ASSUME NEW h, NEW body, NEW d, Framed(h, body, d)
  PROVE  /\ MQTTPacket_len(Len(body)) - Len(d) \in {0, 1} /\ Len(d) \in Nat /\ MQTTPacket_len(Len(body)) \in Nat
         /\ Len(body) = 2 => Len(d) = 4
         /\ Len(body) = 0 => Len(d) = 2
<1> DEFINE n == Len(body)
           e == Len(MQTTPacket_encode(n))
           l == Len(d)
           x == MQTTPacket_len(n)
<1>0. h \in Byte /\ body \in Seq(Byte) /\ n < Limit /\ d = Frame(h, body)
  BY Zenon DEF Framed
<1>1. n \in Nat /\ n \in 0 .. Limit - 1
  BY <1>0, Powers
<1>2. l = 1 + e + n /\ e \in 1 .. 4
  BY <1>0, FrameShape, Zenon
<1>3. x - (1 + e + n) \in {0, 1}
  BY <1>1, RoomFor, Zenon
<1>4. n < Radix => e = 1
  BY <1>1, EncodeLength, Zenon
<1>5. Radix \in Nat /\ 2 < Radix
  BY RadixAssumption
<1>r. (Len(body) = 2 <=> n = 2) /\ (Len(body) = 0 <=> n = 0)
  OBVIOUS
<1> HIDE DEF n, e, l, x
<1>i. x \in Nat
  <2> DEFINE k == IF n + 1 < Radix THEN 1 ELSE IF n + 1 < Radix * Radix THEN 2
                  ELSE IF n + 1 < Radix * Radix * Radix - 1 THEN 3 ELSE 4
  <2>1. k \in Nat
    OBVIOUS
  <2>2. x = n + 1 + k
    BY Zenon DEF MQTTPacket_len, x
  <2> HIDE DEF k
  <2>3. QED BY <1>1, <2>1, <2>2
<1>6. x - l \in {0, 1} /\ l \in Nat /\ (n = 2 => l = 4) /\ (n = 0 => l = 2)
  BY <1>1, <1>2, <1>3, <1>4, <1>5, SMT
<1>7. QED BY <1>6, <1>i, <1>r, Zenon DEF n, l, x

\* What MQTTSerialize_publish writes is one packet.
LEMMA PublishWire ==
  ASSUME NEW p \in PublishPackets, publishLength(p) < Limit
  PROVE  \E h, body : Framed(h, body, Serialize(p)) /\ Len(body) = publishLength(p)
<1> DEFINE h == HeaderByte(PUBLISH, p.dup, p.qos, p.retained)
<1>1. h \in Byte
  <2>1. h = HeaderByte(PUBLISH, p.dup, p.qos, p.retained) /\ PUBLISH \in PacketType
    BY PacketTypes, Zenon
  <2>2. p.dup \in Bit /\ p.qos \in QoS /\ p.retained \in Bit
    BY PublishFields, Zenon
  <2> HIDE DEF h
  <2>3. QED BY <2>1, <2>2, HeaderBits
<1>2. Framed(h, PublishBody(p), Serialize(p)) /\ Len(PublishBody(p)) = publishLength(p)
  BY <1>1, PublishFrame, Zenon DEF Framed
<1>3. QED BY <1>2, Zenon

\* Every packet of the client that its serialiser does not refuse for a buffer of B bytes, of whatever length its
\* strings and payload are, is written within these B bytes, in as many as were asked for or one less, and its
\* deserialiser gets every field of it back.
THEOREM ClientRoundTrip ==
  ASSUME NEW p \in ClientPackets, NEW B \in 0 .. Limit, ~ (Needs(p) > B)
  PROVE  /\ Wire(Serialize(p)) /\ Deserialize(Serialize(p)) = p
         /\ Needs(p) - Len(Serialize(p)) \in {0, 1} /\ Len(Serialize(p)) <= B
<1> SUFFICES /\ Wire(Serialize(p)) /\ Deserialize(Serialize(p)) = p
             /\ Needs(p) - Len(Serialize(p)) \in {0, 1} /\ Len(Serialize(p)) \in Nat /\ Needs(p) \in Nat
  <2>1. Needs(p) - Len(Serialize(p)) \in {0, 1} /\ Len(Serialize(p)) \in Nat /\ Needs(p) \in Nat
    OBVIOUS
  <2> DEFINE x == Needs(p)
             l == Len(Serialize(p))
  <2>2. x - l \in {0, 1} /\ l \in Nat /\ x \in Nat /\ ~ (x > B)
    BY <2>1, Zenon
  <2> HIDE DEF x, l
  <2>3. l <= B
    BY <2>2, Powers
  <2>4. QED BY <2>3, Zenon DEF l
<1>0. p \in ConnectPackets \/ p \in PublishPackets \/ p \in AckPackets(PUBACK .. PUBCOMP)
      \/ p \in SubscribePackets \/ p \in UnsubscribePackets \/ p \in [type : {PINGREQ, DISCONNECT}]
  BY Zenon DEF ClientPackets
<1>1. CASE p \in ConnectPackets
  <2>1. /\ \E h, body : Framed(h, body, Serialize(p)) /\ Len(body) = connectLength(p)
        /\ Needs(p) = MQTTPacket_len(connectLength(p)) /\ Deserialize(Serialize(p)) = p
    BY <1>1, ConnectRoundTrip, Zenon
  <2>2. QED BY <2>1, FrameRoom, Zenon DEF Wire
<1>2. CASE p \in PublishPackets
  <2>1. Needs(p) = MQTTPacket_len(publishLength(p)) /\ PublishBody(p) \in Seq(Byte) /\ Len(PublishBody(p)) = publishLength(p)
    BY <1>2, PublishFrame, Zenon
  <2>2. publishLength(p) < Limit
    BY <2>1, LenAbove, Zenon
  <2>3. \E h, body : Framed(h, body, Serialize(p)) /\ Len(body) = publishLength(p)
    BY <1>2, <2>2, PublishWire, Zenon
  <2>4. Deserialize(Serialize(p)) = p
    BY <1>2, <2>2, PublishRoundTrip, Zenon
  <2>5. QED BY <2>1, <2>3, <2>4, FrameRoom, Zenon DEF Wire
<1>3. CASE p \in AckPackets(PUBACK .. PUBCOMP)
  <2>1. /\ \E h, body : Framed(h, body, Serialize(p)) /\ Len(body) = 2
        /\ Needs(p) = 4 /\ Deserialize(Serialize(p)) = p
    BY <1>3, AckRoundTrip, Zenon
  <2>2. Len(Serialize(p)) = 4 /\ Wire(Serialize(p))
    BY <2>1, FrameRoom, Zenon DEF Wire
  <2>3. QED BY <2>1, <2>2
<1>4. CASE p \in SubscribePackets
  <2>1. /\ \E h, body : Framed(h, body, Serialize(p)) /\ Len(body) = subscribeLength(p)
        /\ Needs(p) = MQTTPacket_len(subscribeLength(p)) /\ Deserialize(Serialize(p)) = p
    BY <1>4, SubscribeRoundTrip, Zenon
  <2>2. QED BY <2>1, FrameRoom, Zenon DEF Wire
<1>5. CASE p \in UnsubscribePackets
  <2>1. /\ \E h, body : Framed(h, body, Serialize(p)) /\ Len(body) = unsubscribeLength(p)
        /\ Needs(p) = MQTTPacket_len(unsubscribeLength(p)) /\ Deserialize(Serialize(p)) = p
    BY <1>5, UnsubscribeRoundTrip, Zenon
  <2>2. QED BY <2>1, FrameRoom, Zenon DEF Wire
<1>6. CASE p \in [type : {PINGREQ, DISCONNECT}]
  <2>0. p \in [type : {PINGREQ, PINGRESP, DISCONNECT}]
    BY <1>6
  <2>1. /\ \E h, body : Framed(h, body, Serialize(p)) /\ Len(body) = 0
        /\ Needs(p) = 2 /\ Deserialize(Serialize(p)) = p
    BY <2>0, ZeroRoundTrip, Zenon
  <2>2. Len(Serialize(p)) = 2 /\ Wire(Serialize(p))
    BY <2>1, FrameRoom, Zenon DEF Wire
  <2>3. QED BY <2>1, <2>2
<1>7. QED BY <1>0, <1>1, <1>2, <1>3, <1>4, <1>5, <1>6, Zenon

\* Every packet of a server, written by its serialiser, is read back by the client's deserialiser with every field
\* as it was, the codes of a SUBACK as signed chars.
THEOREM ServerRoundTrip ==
  ASSUME NEW p \in ServerPackets, p \in PublishPackets => publishLength(p) < Limit
  PROVE  Wire(Serialize(p)) /\ Deserialize(Serialize(p)) = AsRead(p)
<1>0. \/ p \in [type : {CONNACK}, sessionPresent : {0, 1}, rc : Byte] \/ p \in PublishPackets
      \/ p \in AckPackets((PUBACK .. PUBCOMP) \cup {UNSUBACK})
      \/ p \in [type : {SUBACK}, id : UShort, granted : OneFilter(Byte)] \/ p \in [type : {PINGRESP}]
  BY Zenon DEF ServerPackets
<1>a. p.type # SUBACK => AsRead(p) = p
  BY Zenon DEF AsRead
<1>1. CASE p \in [type : {CONNACK}, sessionPresent : {0, 1}, rc : Byte]
  <2>1. p.type # SUBACK
    BY <1>1 DEF CONNACK, SUBACK
  <2>2. QED BY <1>1, <1>a, <2>1, ConnackRoundTrip, Zenon DEF Wire
<1>2. CASE p \in PublishPackets
  <2>1. p.type = PUBLISH
    BY <1>2, PublishFields, Zenon
  <2>2. p.type # SUBACK
    BY <2>1 DEF PUBLISH, SUBACK
  <2>3. QED BY <1>2, <1>a, <2>2, PublishWire, PublishRoundTrip, Zenon DEF Wire
<1>3. CASE p \in AckPackets((PUBACK .. PUBCOMP) \cup {UNSUBACK})
  <2>1. p \in AckPackets(PUBACK .. PUBCOMP) \/ p \in AckPackets({UNSUBACK})
    BY <1>3 DEF AckPackets
  <2>2. p.type # SUBACK
    BY <1>3 DEF AckPackets, PUBACK, PUBCOMP, UNSUBACK, SUBACK
  <2>3. QED BY <1>a, <2>1, <2>2, AckRoundTrip, UnsubackRoundTrip, Zenon DEF Wire
<1>4. CASE p \in [type : {SUBACK}, id : UShort, granted : OneFilter(Byte)]
  BY <1>4, SubackRoundTrip, Zenon DEF Wire
<1>5. CASE p \in [type : {PINGRESP}]
  <2>1. p \in [type : {PINGREQ, PINGRESP, DISCONNECT}]
    BY <1>5
  <2>2. p.type # SUBACK
    BY <1>5 DEF PINGRESP, SUBACK
  <2>3. QED BY <1>a, <2>1, <2>2, ZeroRoundTrip, Zenon DEF Wire
<1>6. QED BY <1>0, <1>1, <1>2, <1>3, <1>4, <1>5, Zenon

-----------------------------------------------------------------------------
\* How many bytes the fixed header has.
Fixed(s) == Start(s) - 1
\* The digits of the remaining length.
Digits(s) == SubSeq(s, 2, Fixed(s))
\* The value of its first j digits.
PartValue(s, j) == Value(Digits(s), j)

\* The bytes of a packet tell where it ends: the marks of the digits, and the value of the digits.
LEMMA WireShape ==
  ASSUME NEW s, Wire(s)
  PROVE  /\ s \in Seq(Byte) /\ Len(s) \in Nat /\ Fixed(s) \in 2 .. 5 /\ Fixed(s) <= Len(s)
         /\ Len(s) - Fixed(s) \in 0 .. Limit - 1 /\ Len(s) - Fixed(s) \in Nat
         /\ \A i \in 1 .. Fixed(s) - 1 : Digits(s)[i] = s[i + 1] /\ (More(s[i + 1]) <=> i < Fixed(s) - 1)
         /\ MQTTPacket_encode(Len(s) - Fixed(s)) = Digits(s)
         /\ Digits(s) \in Seq(Byte) /\ Len(Digits(s)) = Fixed(s) - 1
         /\ PartValue(s, Fixed(s) - 1) = Len(s) - Fixed(s) /\ DigitsValue(Digits(s)) = Len(s) - Fixed(s)
<1>1. PICK h, body : Framed(h, body, s)
  BY Zenon DEF Wire
<1> DEFINE E == MQTTPacket_encode(Len(body))
           n == Len(body)
           e == Len(E)
           l == Len(s)
           f == Fixed(s)
<1>2. h \in Byte /\ body \in Seq(Byte) /\ n < Limit /\ s = Frame(h, body)
  BY <1>1, Zenon DEF Framed
<1>3. /\ s \in Seq(Byte) /\ E \in Seq(Byte) /\ e \in 1 .. 4 /\ l = 1 + e + n
      /\ DigitsAt(s, 2) = E /\ Start(s) = 2 + e /\ Holds(s, 2, E)
  BY <1>2, FrameShape, Zenon
<1>4. n \in Nat /\ n \in 0 .. Limit - 1
  BY <1>2, Powers
<1>5. (\A i \in 1 .. e : More(E[i]) <=> i < e) /\ Value(E, e) = n
  BY <1>4, EncodeDigits, Zenon
<1>6. SubSeq(s, 2, 2 + e - 1) = E
  BY <1>3, HoldsSubSeq, Zenon
<1>7. \A i \in 1 .. e : s[2 + i - 1] = E[i]
  BY <1>3, Zenon DEF Holds
<1>8. DigitsValue(E) = n
  <2>1. E \in Seq(Nat)
    BY <1>3, BytesAreNats, Zenon
  <2>2. e <= 4
    <3> HIDE DEF e
    <3>1. QED BY <1>3
  <2>3. QED BY <1>5, <2>1, <2>2, DigitsValueIs, Zenon
<1>f. f = (2 + e) - 1
  BY <1>3, Zenon DEF Fixed
<1>d. Digits(s) = SubSeq(s, 2, f)
  BY Zenon DEF Digits
<1>l. n = Len(body) /\ e = Len(E) /\ l = Len(s) /\ f = Fixed(s)
  OBVIOUS
<1> HIDE DEF E, n, e, l, f
<1>9. f = 1 + e /\ 2 + e - 1 = f /\ e = f - 1 /\ l - f = n /\ f \in 2 .. 5 /\ f <= l /\ l \in Nat
  BY <1>3, <1>4, <1>f, SMT
<1>10. Digits(s) = E
  BY <1>6, <1>9, <1>d, Zenon
<1>11. \A i \in 1 .. e : s[i + 1] = E[i]
  <2>1. \A i \in 1 .. e : 2 + i - 1 = i + 1
    BY <1>3
  <2>2. QED BY <1>7, <2>1, Zenon
<1>12. PartValue(s, e) = n
  BY <1>5, <1>10, Zenon DEF PartValue
<1>13. MQTTPacket_encode(n) = E
  BY Zenon DEF E, n
<1>14. l - f \in 0 .. Limit - 1 /\ l - f \in Nat
  BY <1>4, <1>9, Zenon
<1>15. /\ \A i \in 1 .. f - 1 : Digits(s)[i] = s[i + 1] /\ (More(s[i + 1]) <=> i < f - 1)
       /\ MQTTPacket_encode(l - f) = Digits(s) /\ Digits(s) \in Seq(Byte) /\ Len(Digits(s)) = f - 1
       /\ PartValue(s, f - 1) = l - f /\ DigitsValue(Digits(s)) = l - f
  BY <1>3, <1>5, <1>8, <1>9, <1>10, <1>11, <1>12, <1>13, <1>l, Zenon
<1>16. QED BY <1>3, <1>9, <1>14, <1>15, <1>l, Zenon

\* One round of MQTTPacket_decodenb over the bytes of a packet: the value and the multiplier move on, and the mark
\* says whether there is another digit.
LEMMA DigitTaken ==
  ASSUME NEW s, Wire(s), NEW j \in 0 .. Fixed(s) - 2
  PROVE  /\ PartValue(s, j) + (s[j + 2] % Radix) * Multiplier(j) = PartValue(s, j + 1)
         /\ Multiplier(j) * Radix = Multiplier(j + 1) /\ j + 1 \in 1 .. 4
         /\ (More(s[j + 2]) <=> j + 2 < Fixed(s))
<1> DEFINE f == Fixed(s)
           i == j + 1
<1>1. /\ f \in 2 .. 5
      /\ \A k \in 1 .. f - 1 : Digits(s)[k] = s[k + 1] /\ (More(s[k + 1]) <=> k < f - 1)
  BY WireShape, Zenon
<1>2. j \in 0 .. f - 2
  OBVIOUS
<1>i. i = j + 1
  OBVIOUS
<1> HIDE DEF f, i
<1>3. i \in 1 .. 4 /\ i \in 1 .. f - 1 /\ i + 1 = j + 2 /\ i - 1 = j /\ (i < f - 1 <=> j + 2 < f)
  BY <1>1, <1>2, <1>i, SMT
<1>4. Digits(s)[i] = s[j + 2] /\ (More(s[j + 2]) <=> j + 2 < f)
  BY <1>1, <1>3, Zenon
<1>5. Value(Digits(s), i) = Value(Digits(s), j) + (s[j + 2] % Radix) * Multiplier(j)
  BY <1>3, <1>4, ValueStep, Zenon DEF Term
<1>6. Multiplier(j) * Radix = Multiplier(i)
  BY <1>3, MultiplierStep, Zenon
<1>7. QED BY <1>3, <1>4, <1>5, <1>6, Zenon DEF PartValue, i, f

\* Before the first digit, value is 0 and multiplier 1.
LEMMA NoDigits ==
  ASSUME NEW s
  PROVE  PartValue(s, 0) = 0 /\ Multiplier(0) = 1
  BY DEF PartValue, Value, Multiplier

\* The length 0 is one byte.
LEMMA EncodeZero ==
  MQTTPacket_encode(0) = <<0>>
<1>1. 0 \in 0 .. Limit - 1
  BY SmallBodies, Powers
<1>2. 0 < Radix
  BY RadixAssumption
<1>3. QED BY <1>1, <1>2, EncodeIs, Zenon DEF Encoding

\* readPacket and MQTTPacket_readnb put the digits back behind the header byte with MQTTPacket_encode: this gives
\* the fixed header as it was.
LEMMA HeaderBack ==
  ASSUME NEW s, Wire(s)
  PROVE  SubSeq(s, 1, 1) \o MQTTPacket_encode(Len(s) - Fixed(s)) = SubSeq(s, 1, Fixed(s))
<1> DEFINE f == Fixed(s)
           a == SubSeq(s, 1, 1) \o SubSeq(s, 2, f)
           b == SubSeq(s, 1, f)
<1>1. s \in Seq(Byte) /\ f \in 2 .. 5 /\ f <= Len(s) /\ MQTTPacket_encode(Len(s) - f) = SubSeq(s, 2, f)
  BY WireShape, Zenon DEF Digits
<1> HIDE DEF f
<1>2. a \in Seq(Byte) /\ b \in Seq(Byte) /\ Len(a) = f /\ Len(b) = f
  BY <1>1
<1>3. \A i \in 1 .. f : a[i] = b[i]
  BY <1>1
<1>a. a = SubSeq(s, 1, 1) \o SubSeq(s, 2, f) /\ b = SubSeq(s, 1, f)
  OBVIOUS
<1> HIDE DEF a, b
<1>4. a = b
  BY <1>2, <1>3, SeqEq
<1>5. QED BY <1>1, <1>4, <1>a, Zenon DEF f

\* The digits that readPacket has when the connection is lost are a length that MQTTPacket_encode can write.
LEMMA DigitsSoFar ==
  ASSUME NEW s, Wire(s), NEW j \in 0 .. Fixed(s) - 1
  PROVE  /\ SubSeq(s, 2, 1 + j) \in Seq(Byte) /\ Len(SubSeq(s, 2, 1 + j)) = j
         /\ DigitsValue(SubSeq(s, 2, 1 + j)) \in 0 .. Limit - 1
         /\ PartValue(s, j) \in 0 .. Limit - 1 /\ PartValue(s, j) \in Nat
\* A product grows with its factor: used to bound what a digit adds to a length.
<1>ProductBound. ASSUME NEW x \in Nat, NEW k \in Nat, x <= k, NEW m \in Nat
                 PROVE  x * m \in Nat /\ x * m <= k * m
  BY <1>ProductBound
\* A digit on top of a value below the multiplier keeps it below the next multiplier.
<1>DigitBound. ASSUME NEW v \in Nat, NEW t \in Nat, NEW m \in Nat, v < m, t <= (Radix - 1) * m
               PROVE  v + t \in Nat /\ v + t < m * Radix
  <2>1. (Radix - 1) * m = m * Radix - m /\ m * Radix \in Nat
    BY <1>DigitBound, RadixAssumption
  <2>2. QED BY <1>DigitBound, <2>1
\* The value read so far is below the multiplier, in the decoders' loops.
<1>ValueNat. ASSUME NEW ds \in Seq(Nat), Len(ds) <= 4, NEW j1 \in 0 .. Len(ds)
             PROVE  Value(ds, j1) \in Nat /\ Value(ds, j1) < Multiplier(j1)
  <2>1. ASSUME NEW i \in 1 .. Len(ds)
        PROVE  Term(ds, i) \in Nat /\ Term(ds, i) <= (Radix - 1) * Multiplier(i - 1)
    <3>1. i \in 1 .. 4 /\ ds[i] \in Nat /\ Radix - 1 \in Nat
      BY <1>ValueNat, RadixAssumption
    <3>2. ds[i] % Radix \in Nat /\ ds[i] % Radix <= Radix - 1
      BY <3>1, Remainder, Zenon
    <3>3. QED BY <3>1, <3>2, MultiplierStep, <1>ProductBound, Zenon DEF Term
  <2>2. ASSUME NEW i \in 1 .. Len(ds), Value(ds, i - 1) \in Nat /\ Value(ds, i - 1) < Multiplier(i - 1)
        PROVE  Value(ds, i) \in Nat /\ Value(ds, i) < Multiplier(i)
    <3>1. i \in 1 .. 4
      BY <1>ValueNat
    <3>2. Value(ds, i) = Value(ds, i - 1) + Term(ds, i) /\ Multiplier(i) = Multiplier(i - 1) * Radix
      BY <3>1, ValueStep, MultiplierStep, Zenon
    <3>3. Value(ds, i - 1) + Term(ds, i) \in Nat /\ Value(ds, i - 1) + Term(ds, i) < Multiplier(i - 1) * Radix
      BY <2>1, <2>2, <3>1, MultiplierStep, <1>DigitBound, Zenon
    <3>4. QED BY <3>2, <3>3, Zenon
  <2>3. Value(ds, 0) \in Nat /\ Value(ds, 0) < Multiplier(0)
    BY DEF Value, Multiplier
  <2>4. 1 <= Len(ds) => Value(ds, 1) \in Nat /\ Value(ds, 1) < Multiplier(1)
    BY <2>2, <2>3
  <2>5. 2 <= Len(ds) => Value(ds, 2) \in Nat /\ Value(ds, 2) < Multiplier(2)
    BY <2>2, <2>4
  <2>6. 3 <= Len(ds) => Value(ds, 3) \in Nat /\ Value(ds, 3) < Multiplier(3)
    BY <2>2, <2>5
  <2>7. 4 <= Len(ds) => Value(ds, 4) \in Nat /\ Value(ds, 4) < Multiplier(4)
    BY <2>2, <2>6
  <2>8. j1 = 0 \/ j1 = 1 \/ j1 = 2 \/ j1 = 3 \/ j1 = 4
    BY <1>ValueNat
  <2>9. QED BY <2>3, <2>4, <2>5, <2>6, <2>7, <2>8
\* Four digits carry a value below the limit.
<1>ValueBelow. ASSUME NEW ds \in Seq(Byte), Len(ds) <= 4, NEW j1 \in 0 .. Len(ds)
               PROVE  Value(ds, j1) \in 0 .. Limit - 1 /\ Value(ds, j1) \in Nat
  <2>3. j1 \in 0 .. 4
    BY <1>ValueBelow
  <2>4. ds \in Seq(Nat)
    BY BytesAreNats, Zenon
  <2>6. Value(ds, j1) \in Nat /\ Value(ds, j1) < Multiplier(j1)
    BY <1>ValueBelow, <2>4, <1>ValueNat, Zenon
  <2>7. Multiplier(j1) <= Limit /\ Multiplier(j1) \in Nat
    <3>1. j1 = 0 \/ j1 = 1 \/ j1 = 2 \/ j1 = 3 \/ j1 = 4
      BY <2>3
    <3> DEFINE r2 == Radix * Radix
               r3 == Radix * Radix * Radix
    <3>2. Radix \in Nat /\ 1 <= Radix /\ Radix <= r2 /\ r2 <= r3 /\ r3 <= Limit /\ r2 \in Nat /\ r3 \in Nat /\ Limit \in Nat
      <4>1. \A x \in Nat : x <= x * Radix
        BY RadixAssumption
      <4>2. Radix \in Nat /\ 1 <= Radix
        BY RadixAssumption
      <4>3. QED BY <4>1, <4>2, Powers, Zenon DEF Limit
    <3>3. Multiplier(j1) = IF j1 = 0 THEN 1 ELSE IF j1 = 1 THEN Radix ELSE IF j1 = 2 THEN r2 ELSE IF j1 = 3 THEN r3 ELSE Limit
      BY Zenon DEF Multiplier
    <3> HIDE DEF r2, r3
    <3>4. QED BY <3>1, <3>2, <3>3, SMT
  <2> DEFINE v == Value(ds, j1)
             m == Multiplier(j1)
  <2>8. v \in Nat /\ v < m /\ m <= Limit /\ m \in Nat /\ Limit \in Nat
    BY <2>6, <2>7, Powers, Zenon
  <2> HIDE DEF v, m
  <2>9. v \in 0 .. Limit - 1 /\ v \in Nat
    BY <2>8, SMT
  <2>10. QED BY <2>9, Zenon DEF v
<1> DEFINE f == Fixed(s)
           ds == SubSeq(s, 2, 1 + j)
           es == Digits(s)
<1>1. s \in Seq(Byte) /\ f \in 2 .. 5 /\ f <= Len(s) /\ es \in Seq(Byte) /\ Len(es) = f - 1
  BY WireShape, Zenon
<1>2. j \in 0 .. f - 1
  OBVIOUS
<1> HIDE DEF f, es
<1>3. ds \in Seq(Byte) /\ Len(ds) = j /\ j \in 0 .. 4
  BY <1>1, <1>2
<1>4. ds \in Seq(Nat)
  BY <1>3, BytesAreNats, Zenon
<1> HIDE DEF ds
<1>5. Len(ds) <= 4 /\ j \in 0 .. Len(ds) /\ Len(es) <= 4 /\ j \in 0 .. Len(es)
  BY <1>1, <1>2, <1>3
<1>6. DigitsValue(ds) = Value(ds, j)
  BY <1>3, <1>4, <1>5, DigitsValueIs, Zenon
<1>7. Value(ds, j) \in 0 .. Limit - 1
  BY <1>3, <1>5, <1>ValueBelow, Zenon
<1>8. Value(es, j) \in 0 .. Limit - 1 /\ Value(es, j) \in Nat
  BY <1>1, <1>5, <1>ValueBelow, Zenon
<1>9. QED BY <1>3, <1>6, <1>7, <1>8, Zenon DEF ds, es, PartValue

=============================================================================
