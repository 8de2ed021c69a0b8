------------------------ MODULE PacketRequestProofs ------------------------
(***************************************************************************)
(* Facts about PacketStream for PacketStreamProofs: what the bytes on      *)
(* their way are, and that every step keeps what the invariant says of the *)
(* packets from the client to the peer, for every radix, all sets of       *)
(* packets and all sizes of buffers.                                       *)
(*                                                                         *)
(* The bytes on their way have no boundaries.  Flow ties them to the       *)
(* packets that were sent: they are those packets, one behind the other,   *)
(* without the first n of them and without m bytes of the next one.  The   *)
(* inductive invariant says that n is the number of packets the reader got *)
(* and m what its buffer and counters say it has read of the next one;     *)
(* ReqInv says so of MQTTPacket_readnb.                                    *)
(***************************************************************************)
EXTENDS PacketStream, PacketCodecProofs

\* The bytes a read takes from a connection, and the bytes it leaves.
LEMMA Halves ==
  ASSUME NEW b \in Seq(Byte), NEW k \in 0 .. Len(b)
  PROVE  /\ First(b, k) \in Seq(Byte) /\ Len(First(b, k)) = k /\ \A i \in 1 .. k : First(b, k)[i] = b[i]
         /\ Rest(b, k) \in Seq(Byte) /\ Len(Rest(b, k)) = Len(b) - k /\ \A i \in 1 .. Len(b) - k : Rest(b, k)[i] = b[k + i]
  BY DEF First, Rest

\* Bytes behind others in a connection: lengths add up.
LEMMA Joins ==
  ASSUME NEW x \in Seq(Byte), NEW y \in Seq(Byte), NEW m, m = Len(x), NEW n, n = Len(y)
  PROVE  /\ x \o y \in Seq(Byte) /\ Len(x \o y) = m + n
         /\ \A i \in 1 .. m : (x \o y)[i] = x[i]
         /\ \A i \in 1 .. n : (x \o y)[m + i] = y[i]
  OBVIOUS

\* A run of bytes inside a packet.
LEMMA Slice ==
  ASSUME NEW s \in Seq(Byte), NEW m \in Nat, NEW k \in Nat, m + k <= Len(s)
  PROVE  /\ SubSeq(s, m + 1, m + k) \in Seq(Byte) /\ Len(SubSeq(s, m + 1, m + k)) = k
         /\ \A i \in 1 .. k : SubSeq(s, m + 1, m + k)[i] = s[m + i]
<1> DEFINE a == m + 1
           b == m + k
           l == Len(s)
<1>1. l \in Nat /\ a \in Nat /\ b \in Nat /\ a >= 1 /\ b <= l
  OBVIOUS
<1>2. SubSeq(s, a, b) \in Seq(Byte) /\ Len(SubSeq(s, a, b)) = IF a <= b THEN b - a + 1 ELSE 0
  BY <1>1
<1>3. \A i \in 1 .. b - a + 1 : SubSeq(s, a, b)[i] = s[a + i - 1]
  BY <1>1
<1>4. (IF a <= b THEN b - a + 1 ELSE 0) = k /\ b - a + 1 = k /\ \A i \in 1 .. k : a + i - 1 = m + i
  OBVIOUS
<1>5. QED BY <1>2, <1>3, <1>4, Zenon

\* A read loses nothing: what it took and what it left are what there was.
LEMMA SplitAt ==
  ASSUME NEW b \in Seq(Byte), NEW k \in 0 .. Len(b)
  PROVE  First(b, k) \o Rest(b, k) = b
<1> DEFINE x == First(b, k)
           y == Rest(b, k)
           n == Len(b)
<1>1. /\ x \in Seq(Byte) /\ Len(x) = k /\ \A i \in 1 .. k : x[i] = b[i]
      /\ y \in Seq(Byte) /\ Len(y) = n - k /\ \A i \in 1 .. n - k : y[i] = b[k + i]
  BY Halves, Zenon
<1> DEFINE a == x \o y
<1>0. n \in Nat /\ k \in 0 .. n
  OBVIOUS
<1>a. /\ a \in Seq(Byte) /\ Len(a) = k + (n - k)
      /\ (\A i \in 1 .. k : a[i] = x[i]) /\ \A i \in 1 .. n - k : a[k + i] = y[i]
  <2>1. x \in Seq(Byte) /\ y \in Seq(Byte) /\ k = Len(x) /\ n - k = Len(y)
    BY <1>1, Zenon
  <2> HIDE DEF x, y, n
  <2>2. QED BY <2>1, Joins, SMT
<1> HIDE DEF x, y, a, n
<1>2. Len(a) = n
  BY <1>a, <1>0
<1>3. ASSUME NEW i \in 1 .. n
      PROVE  a[i] = b[i]
  <2>1. CASE i <= k
    BY <2>1, <1>0, <1>1, <1>a
  <2>2. CASE ~ (i <= k)
    <3> DEFINE j == i - k
    <3>1. j \in 1 .. n - k /\ k + j = i
      BY <2>2, <1>0
    <3> HIDE DEF j
    <3>2. a[k + j] = y[j] /\ y[j] = b[k + j]
      BY <3>1, <1>1, <1>a, Zenon
    <3>3. QED BY <3>1, <3>2, Zenon
  <2>3. QED BY <2>1, <2>2
<1>4. a = b
  BY <1>2, <1>3, <1>a, SeqEq DEF n
<1>5. QED BY <1>4, Zenon DEF a, x, y

\* Taking from the front leaves alone what was written behind.
LEMMA RestOfBoth ==
  ASSUME NEW b \in Seq(Byte), NEW z \in Seq(Byte), NEW k \in 0 .. Len(b)
  PROVE  Rest(b \o z, k) = Rest(b, k) \o z
<1> DEFINE c == b \o z
           l == Len(b)
           n == Len(c)
<1>1. c \in Seq(Byte) /\ n = l + Len(z) /\ (\A i \in 1 .. l : c[i] = b[i]) /\ (\A i \in 1 .. Len(z) : c[l + i] = z[i])
      /\ l \in Nat /\ Len(z) \in Nat /\ k \in 0 .. l /\ k \in 0 .. n
  OBVIOUS
<1> DEFINE x == Rest(c, k)
           y == Rest(b, k)
<1> HIDE DEF c, n
<1>2. /\ x \in Seq(Byte) /\ Len(x) = n - k /\ \A i \in 1 .. n - k : x[i] = c[k + i]
  BY <1>1, Halves, Zenon DEF n
<1>3. /\ y \in Seq(Byte) /\ Len(y) = l - k /\ \A i \in 1 .. l - k : y[i] = b[k + i]
  BY <1>1, Halves, Zenon
<1> DEFINE a == y \o z
           lz == Len(z)
<1>4. /\ a \in Seq(Byte) /\ Len(a) = (l - k) + lz
      /\ (\A i \in 1 .. l - k : a[i] = y[i]) /\ \A i \in 1 .. lz : a[(l - k) + i] = z[i]
  <2> DEFINE g == l - k
  <2>1. y \in Seq(Byte) /\ g = Len(y) /\ lz = Len(z)
    BY <1>3, Zenon
  <2> HIDE DEF y, l, lz, g
  <2>2. /\ y \o z \in Seq(Byte) /\ Len(y \o z) = g + lz
        /\ (\A i \in 1 .. g : (y \o z)[i] = y[i]) /\ \A i \in 1 .. lz : (y \o z)[g + i] = z[i]
    BY <2>1, Joins, SMT
  <2>3. QED BY <2>2, Zenon DEF g
<1>z. n = l + lz /\ l \in Nat /\ lz \in Nat /\ k \in 0 .. l /\ (\A i \in 1 .. l : c[i] = b[i]) /\ \A i \in 1 .. lz : c[l + i] = z[i]
  BY <1>1, Zenon
<1> HIDE DEF x, y, l, a, lz
<1>8. Len(a) = n - k
  BY <1>4, <1>z
<1>5. ASSUME NEW i \in 1 .. n - k
      PROVE  x[i] = a[i]
  <2>1. CASE i <= l - k
    <3>1. i \in 1 .. l - k /\ k + i \in 1 .. l
      BY <2>1, <1>z
    <3>2. QED BY <3>1, <1>2, <1>3, <1>4, <1>z, Zenon
  <2>2. CASE ~ (i <= l - k)
    <3> DEFINE j == i - (l - k)
    <3>1. j \in 1 .. lz /\ (l - k) + j = i /\ l + j = k + i
      BY <2>2, <1>z
    <3> HIDE DEF j
    <3>2. a[(l - k) + j] = z[j] /\ c[l + j] = z[j] /\ x[i] = c[k + i]
      BY <3>1, <1>2, <1>4, <1>z, Zenon
    <3>3. QED BY <3>1, <3>2, Zenon
  <2>3. QED BY <2>1, <2>2
<1> HIDE DEF a
<1>6. x = a
  BY <1>2, <1>4, <1>5, <1>8, SeqEq
<1>7. QED BY <1>6, Zenon DEF a, x, y, c

\* Two reads take what one read of their sum takes.
LEMMA RestOfRest ==
  ASSUME NEW b \in Seq(Byte), NEW m \in Nat, NEW k \in Nat, m + k <= Len(b)
  PROVE  Rest(Rest(b, m), k) = Rest(b, m + k)
<1> DEFINE l == Len(b)
           c == Rest(b, m)
           x == Rest(c, k)
           y == Rest(b, m + k)
<1>1. l \in Nat /\ m \in 0 .. l /\ m + k \in 0 .. l
  OBVIOUS
<1>2. c \in Seq(Byte) /\ Len(c) = l - m /\ \A i \in 1 .. l - m : c[i] = b[m + i]
  BY <1>1, Halves, Zenon
<1>3. y \in Seq(Byte) /\ Len(y) = l - (m + k) /\ \A i \in 1 .. l - (m + k) : y[i] = b[m + k + i]
  BY <1>1, Halves, Zenon
<1>l. l = Len(b)
  OBVIOUS
<1> HIDE DEF l, c, y
<1>4. k \in 0 .. Len(c)
  BY <1>1, <1>2
<1>5. x \in Seq(Byte) /\ Len(x) = Len(c) - k /\ \A i \in 1 .. Len(c) - k : x[i] = c[k + i]
  BY <1>2, <1>4, Halves, Zenon
<1> HIDE DEF x
<1>6. Len(x) = Len(y) /\ \A i \in 1 .. Len(x) : x[i] = y[i]
  BY <1>1, <1>2, <1>3, <1>5
<1>7. x = y
  BY <1>3, <1>5, <1>6, SeqEq, Zenon
<1>8. QED BY <1>7, Zenon DEF x, y, c

\* Reading on from where the last read stopped.
LEMMA FirstMore ==
  ASSUME NEW s \in Seq(Byte), NEW m \in Nat, NEW k \in Nat, m + k <= Len(s)
  PROVE  First(s, m) \o SubSeq(s, m + 1, m + k) = First(s, m + k)
<1> DEFINE l == Len(s)
           x == First(s, m)
           w == SubSeq(s, m + 1, m + k)
           y == First(s, m + k)
<1>1. l \in Nat /\ m \in 0 .. l /\ m + k \in 0 .. l
  OBVIOUS
<1>2. x \in Seq(Byte) /\ Len(x) = m /\ \A i \in 1 .. m : x[i] = s[i]
  BY <1>1, Halves, Zenon
<1>3. y \in Seq(Byte) /\ Len(y) = m + k /\ \A i \in 1 .. m + k : y[i] = s[i]
  BY <1>1, Halves, Zenon
<1>4. w \in Seq(Byte) /\ Len(w) = k /\ \A i \in 1 .. k : w[i] = s[m + i]
  BY Slice, Zenon
<1> DEFINE a == x \o w
<1>5. /\ a \in Seq(Byte) /\ Len(a) = m + k
      /\ (\A i \in 1 .. m : a[i] = x[i]) /\ \A i \in 1 .. k : a[m + i] = w[i]
  <2>1. x \in Seq(Byte) /\ w \in Seq(Byte) /\ m = Len(x) /\ k = Len(w)
    BY <1>2, <1>4, Zenon
  <2> HIDE DEF x, w
  <2>2. QED BY <2>1, Joins, SMT
<1> HIDE DEF x, w, y, a
<1>6. ASSUME NEW i \in 1 .. m + k
      PROVE  a[i] = y[i]
  <2>1. CASE i <= m
    <3>1. i \in 1 .. m
      BY <2>1
    <3>2. QED BY <3>1, <1>2, <1>3, <1>5, Zenon
  <2>2. CASE ~ (i <= m)
    <3> DEFINE j == i - m
    <3>1. j \in 1 .. k /\ m + j = i
      BY <2>2
    <3> HIDE DEF j
    <3>2. a[m + j] = w[j] /\ w[j] = s[m + j] /\ y[i] = s[i]
      BY <3>1, <1>3, <1>4, <1>5, Zenon
    <3>3. QED BY <3>1, <3>2, Zenon
  <2>3. QED BY <2>1, <2>2
<1>7. a = y
  BY <1>3, <1>5, <1>6, SeqEq
<1>8. QED BY <1>7, Zenon DEF a, x, w, y

-----------------------------------------------------------------------------
\* R[i] is what the packets of ps after the i-th look like on the wire, one behind the other.
Tails(R, ps) ==
  /\ R \in [0 .. Len(ps) -> Seq(Byte)] /\ R[Len(ps)] = <<>>
  /\ \A i \in 1 .. Len(ps) : Wire(Serialize(ps[i])) /\ R[i - 1] = Serialize(ps[i]) \o R[i]

\* The bytes q are the packets ps without the first n of them and without m bytes of the next one: how the bytes
\* on their way, which have no boundaries, are tied to the packets that were sent.
Flow(q, ps, n, m) ==
  /\ q \in Seq(Byte) /\ n \in 0 .. Len(ps) /\ m \in Nat
  /\ \E R : Tails(R, ps) /\ m <= Len(R[n]) /\ q = Rest(R[n], m)

\* A new connection has no bytes on their way.
LEMMA FlowBegins ==
  Flow(<<>>, <<>>, 0, 0)
<1> DEFINE R == [i \in 0 .. 0 |-> <<>>]
<1>1. R \in [0 .. 0 -> Seq(Byte)] /\ R[0] = <<>>
  OBVIOUS
<1>2. Len(<<>>) = 0 /\ 1 .. 0 = {} /\ 0 \in 0 .. 0 /\ 0 \in Nat /\ <<>> \in Seq(Byte) /\ 0 <= 0
  OBVIOUS
<1>3. Tails(R, <<>>)
  BY <1>1, <1>2 DEF Tails
<1>4. Rest(<<>>, 0) = <<>>
  BY DEF Rest
<1> HIDE DEF R
<1>5. Tails(R, <<>>) /\ 0 <= Len(R[0]) /\ <<>> = Rest(R[0], 0)
  BY <1>1, <1>2, <1>3, <1>4, Zenon
<1>6. QED BY <1>2, <1>5, Zenon DEF Flow

\* A read of k bytes moves the reader k bytes on.
LEMMA FlowTaken ==
  ASSUME NEW q, NEW ps, NEW n, NEW m, Flow(q, ps, n, m), NEW k \in 0 .. Len(q)
  PROVE  Flow(Rest(q, k), ps, n, m + k) /\ m + k \in Nat
<1>1. q \in Seq(Byte) /\ n \in 0 .. Len(ps) /\ m \in Nat
  BY Zenon DEF Flow
<1>2. PICK R : Tails(R, ps) /\ m <= Len(R[n]) /\ q = Rest(R[n], m)
  BY Zenon DEF Flow
<1> DEFINE r == R[n]
<1>3. r \in Seq(Byte)
  BY <1>1, <1>2, Zenon DEF Tails
<1> HIDE DEF r
<1>4. m \in 0 .. Len(r)
  BY <1>1, <1>2, <1>3 DEF r
<1>5. Len(q) = Len(r) - m /\ Rest(q, k) \in Seq(Byte)
  BY <1>1, <1>2, <1>3, <1>4, Halves, Zenon DEF r
<1>6. k \in Nat /\ m + k <= Len(r) /\ m + k \in Nat
  BY <1>1, <1>3, <1>4, <1>5
<1>7. Rest(q, k) = Rest(r, m + k)
  BY <1>1, <1>2, <1>3, <1>6, RestOfRest, Zenon DEF r
<1>8. QED BY <1>1, <1>2, <1>5, <1>6, <1>7, Zenon DEF Flow, r

\* k bytes at the front of q belong to the packet s that the reader is in.
Covers(q, ps, n, m, s, k) ==
  /\ Flow(q, ps, n, m) /\ n < Len(ps) /\ Len(ps) \in Nat
  /\ s \in Seq(Byte) /\ s = Serialize(ps[n + 1]) /\ m <= Len(s)
  /\ k \in 0 .. Len(q) /\ m + k <= Len(s)

\* What a read takes, when it stays in a packet, is the next bytes of this packet.
LEMMA FlowOfPacket ==
  ASSUME NEW q, NEW ps, NEW n, NEW m, NEW s, NEW k, Covers(q, ps, n, m, s, k)
  PROVE  First(q, k) = SubSeq(s, m + 1, m + k) /\ First(s, m) \o First(q, k) = First(s, m + k)
<1>0. /\ Flow(q, ps, n, m) /\ n < Len(ps) /\ Len(ps) \in Nat
      /\ s \in Seq(Byte) /\ s = Serialize(ps[n + 1]) /\ m <= Len(s)
      /\ k \in 0 .. Len(q) /\ m + k <= Len(s)
  BY Zenon DEF Covers
<1>1. q \in Seq(Byte) /\ n \in 0 .. Len(ps) /\ m \in Nat
  BY <1>0, Zenon DEF Flow
<1>2. PICK R : Tails(R, ps) /\ m <= Len(R[n]) /\ q = Rest(R[n], m)
  BY <1>0, Zenon DEF Flow
<1> DEFINE r == R[n]
           t == R[n + 1]
<1>3. n + 1 \in 1 .. Len(ps) /\ n + 1 \in 0 .. Len(ps) /\ (n + 1) - 1 = n
  BY <1>0, <1>1
<1>4. r \in Seq(Byte) /\ t \in Seq(Byte) /\ r = s \o t
  BY <1>0, <1>1, <1>2, <1>3, Zenon DEF Tails
<1>5. q = Rest(r, m) /\ m <= Len(r)
  BY <1>2, Zenon
<1> HIDE DEF r, t
<1>6. Len(r) = Len(s) + Len(t) /\ \A i \in 1 .. Len(s) : r[i] = s[i]
  BY <1>0, <1>4
<1>7. m \in 0 .. Len(r)
  BY <1>0, <1>1, <1>4, <1>5
<1>8. Len(q) = Len(r) - m /\ \A i \in 1 .. Len(r) - m : q[i] = r[m + i]
  BY <1>4, <1>5, <1>7, Halves, Zenon
<1> DEFINE x == First(q, k)
           w == SubSeq(s, m + 1, m + k)
<1>9. x \in Seq(Byte) /\ Len(x) = k /\ \A i \in 1 .. k : x[i] = q[i]
  BY <1>0, <1>1, Halves, Zenon
<1>10. w \in Seq(Byte) /\ Len(w) = k /\ \A i \in 1 .. k : w[i] = s[m + i]
  <2>1. k \in Nat
    BY <1>0, <1>1
  <2>2. QED BY <1>0, <1>1, <2>1, Slice, Zenon
<1> HIDE DEF x, w
<1>11. ASSUME NEW i \in 1 .. k
       PROVE  x[i] = w[i]
  <2>1. i \in 1 .. Len(r) - m /\ m + i \in 1 .. Len(s)
    BY <1>0, <1>1, <1>4, <1>6, <1>7, <1>8
  <2>2. QED BY <2>1, <1>0, <1>6, <1>8, <1>9, <1>10, Zenon
<1>12. x = w
  BY <1>9, <1>10, <1>11, SeqEq
<1>13. First(s, m) \o w = First(s, m + k)
  <2>1. k \in Nat
    BY <1>0, <1>1
  <2>2. QED BY <1>0, <1>1, <2>1, FirstMore, Zenon DEF w
<1>14. QED BY <1>0, <1>12, <1>13, Zenon DEF x, w

\* A reader that has taken a packet to its last byte is at the start of the next one.
LEMMA FlowNext ==
  ASSUME NEW q, NEW ps, NEW n, NEW m, Flow(q, ps, n, m), n < Len(ps), Len(ps) \in Nat,
         NEW s \in Seq(Byte), s = Serialize(ps[n + 1]), m = Len(s)
  PROVE  Flow(q, ps, n + 1, 0)
<1>1. q \in Seq(Byte) /\ n \in 0 .. Len(ps) /\ m \in Nat
  BY Zenon DEF Flow
<1>2. PICK R : Tails(R, ps) /\ m <= Len(R[n]) /\ q = Rest(R[n], m)
  BY Zenon DEF Flow
<1> DEFINE t == R[n + 1]
<1>3. n + 1 \in 1 .. Len(ps) /\ n + 1 \in 0 .. Len(ps) /\ (n + 1) - 1 = n /\ 0 \in Nat
  BY <1>1
<1>4. t \in Seq(Byte) /\ R[n] = s \o t
  BY <1>1, <1>2, <1>3, Zenon DEF Tails
<1>5. q = Rest(s \o t, m)
  BY <1>2, <1>4, Zenon
<1>t. t = R[n + 1]
  OBVIOUS
<1> HIDE DEF t
<1>6. m \in 0 .. Len(s)
  BY <1>1
<1>7. q = Rest(s, m) \o t
  BY <1>4, <1>5, <1>6, RestOfBoth, Zenon
<1>8. Rest(s, m) = <<>>
  BY <1>1 DEF Rest
<1>9. <<>> \o t = t
  BY <1>4
<1>10. Rest(t, 0) = t /\ 0 <= Len(t)
  BY <1>4 DEF Rest
<1>11. QED BY <1>1, <1>2, <1>3, <1>7, <1>8, <1>9, <1>10, <1>t, Zenon DEF Flow

\* Bytes on their way at the start of a packet belong to a packet not read yet.
LEMMA FlowNotDone ==
  ASSUME NEW q, NEW ps, NEW n, Flow(q, ps, n, 0), Len(ps) \in Nat, q # <<>>
  PROVE  n < Len(ps)
<1>1. SUFFICES ASSUME ~ (n < Len(ps)) PROVE FALSE
  OBVIOUS
<1>2. n \in 0 .. Len(ps)
  BY Zenon DEF Flow
<1>3. n = Len(ps)
  BY <1>1, <1>2
<1>4. PICK R : Tails(R, ps) /\ q = Rest(R[n], 0)
  BY Zenon DEF Flow
<1>5. R[n] = <<>>
  BY <1>3, <1>4, Zenon DEF Tails
<1>6. Rest(<<>>, 0) = <<>>
  BY DEF Rest
<1>7. QED BY <1>4, <1>5, <1>6, Zenon

\* Serialising a packet puts its bytes behind the bytes on their way.
LEMMA FlowAppend ==
  ASSUME NEW S, NEW ps \in Seq(S), NEW p \in S, NEW q, NEW n, NEW m, Flow(q, ps, n, m), Wire(Serialize(p))
  PROVE  Flow(q \o Serialize(p), Append(ps, p), n, m)
<1>1. q \in Seq(Byte) /\ n \in 0 .. Len(ps) /\ m \in Nat
  BY Zenon DEF Flow
<1>2. PICK R : Tails(R, ps) /\ m <= Len(R[n]) /\ q = Rest(R[n], m)
  BY Zenon DEF Flow
<1> DEFINE x == Serialize(p)
           l == Len(ps)
           ps2 == Append(ps, p)
           R2 == [i \in 0 .. l + 1 |-> IF i <= l THEN R[i] \o x ELSE <<>>]
<1>3. l \in Nat /\ Len(ps2) = l + 1 /\ ps2[l + 1] = p /\ \A i \in 1 .. l : ps2[i] = ps[i]
  OBVIOUS
<1>4. /\ \A i \in 0 .. l : R[i] \in Seq(Byte)
      /\ R[l] = <<>> /\ \A i \in 1 .. l : Wire(Serialize(ps[i])) /\ R[i - 1] = Serialize(ps[i]) \o R[i]
  BY <1>2, Zenon DEF Tails
<1>x. x \in Seq(Byte)
  BY WireShape, Zenon
<1>p. x = Serialize(p) /\ Wire(x)
  OBVIOUS
<1> HIDE DEF l, ps2, x
<1>5. \A i \in 0 .. l : R2[i] = R[i] \o x
  BY <1>3
<1>6. R2[l + 1] = <<>>
  BY <1>3
<1>7. R2 \in [0 .. l + 1 -> Seq(Byte)]
  BY <1>4, <1>x
<1> HIDE DEF R2
<1>8. ASSUME NEW i \in 1 .. l + 1
      PROVE  Wire(Serialize(ps2[i])) /\ R2[i - 1] = Serialize(ps2[i]) \o R2[i]
  <2>1. CASE i = l + 1
    <3>1. R2[i - 1] = <<>> \o x /\ R2[i] = <<>> /\ ps2[i] = p
      <4>1. i - 1 = l /\ l \in 0 .. l
        BY <2>1, <1>3
      <4>2. QED BY <2>1, <4>1, <1>3, <1>4, <1>5, <1>6, Zenon
    <3>2. <<>> \o x = x /\ x \o <<>> = x
      BY <1>x
    <3>3. QED BY <3>1, <3>2, <1>p, Zenon
  <2>2. CASE i # l + 1
    <3>1. i \in 1 .. l /\ i \in 0 .. l /\ i - 1 \in 0 .. l
      BY <2>2, <1>3
    <3> DEFINE y == Serialize(ps[i])
               u == R[i]
    <3>2. R[i - 1] = y \o u /\ ps2[i] = ps[i] /\ u \in Seq(Byte) /\ Wire(y)
      BY <3>1, <1>3, <1>4, Zenon
    <3>3. R2[i - 1] = (y \o u) \o x /\ R2[i] = u \o x
      BY <3>1, <3>2, <1>5, Zenon
    <3>4. y \in Seq(Byte)
      BY <3>2, WireShape, Zenon
    <3>5. y \o (u \o x) = (y \o u) \o x
      BY <3>2, <3>4, <1>x, Assoc, Zenon
    <3>6. QED BY <3>2, <3>3, <3>5, Zenon
  <2>3. QED BY <2>1, <2>2, Zenon
<1>9. Tails(R2, ps2)
  BY <1>3, <1>6, <1>7, <1>8, Zenon DEF Tails
<1> DEFINE a == R[n]
<1>10. a \in Seq(Byte) /\ R2[n] = a \o x /\ m <= Len(a) /\ q = Rest(a, m)
  BY <1>1, <1>2, <1>4, <1>5, Zenon DEF l
<1> HIDE DEF a
<1>11. m \in 0 .. Len(a) /\ m <= Len(a \o x) /\ n \in 0 .. l + 1
  BY <1>1, <1>3, <1>10, <1>x DEF l
<1>12. Rest(a \o x, m) = q \o x
  BY <1>10, <1>11, <1>x, RestOfBoth, Zenon
<1>13. q \o x \in Seq(Byte)
  BY <1>1, <1>x, Concat, Zenon
<1>14. Flow(q \o x, ps2, n, m)
  BY <1>1, <1>3, <1>9, <1>10, <1>11, <1>12, <1>13, Zenon DEF Flow
<1>15. QED BY <1>14, Zenon DEF x, ps2

\* The packet a reader is in is one that a serialiser wrote.
LEMMA FlowWire ==
  ASSUME NEW q, NEW ps, NEW n, NEW m, Flow(q, ps, n, m), n < Len(ps), Len(ps) \in Nat
  PROVE  Wire(Serialize(ps[n + 1]))
<1>1. n \in 0 .. Len(ps)
  BY Zenon DEF Flow
<1>2. PICK R : Tails(R, ps)
  BY Zenon DEF Flow
<1>3. n + 1 \in 1 .. Len(ps)
  BY <1>1
<1>4. QED BY <1>2, <1>3, Zenon DEF Tails

\* A reader of connection b, behind which z is still to come, in packet n + 1 after m bytes.
Reads(b, z, ps, n, m) ==
  /\ b \in Seq(Byte) /\ z \in Seq(Byte) /\ Flow(b \o z, ps, n, m)
  /\ Len(ps) \in Nat /\ n \in Nat /\ m \in Nat /\ n < Len(ps)

\* It takes k bytes, all of one packet s.
Takes(b, z, ps, n, m, s, k) ==
  Reads(b, z, ps, n, m) /\ s = Serialize(ps[n + 1]) /\ k \in 0 .. Len(b) /\ m + k <= Len(s)

\* A read of k bytes (readPacket's body, MQTTPacket_readnb in state 2) gives the next k bytes of the packet, and
\* where it completes the packet the reader is at the next one.
LEMMA ReadsBytes ==
  ASSUME NEW b, NEW z, NEW ps, NEW n, NEW m, NEW s, NEW k, Takes(b, z, ps, n, m, s, k)
  PROVE  /\ Wire(s) /\ First(b, k) = SubSeq(s, m + 1, m + k) /\ First(s, m) \o First(b, k) = First(s, m + k)
         /\ Flow(Rest(b, k) \o z, ps, n, m + k) /\ Rest(b, k) \in Seq(Byte)
         /\ m + k = Len(s) => First(s, m) \o First(b, k) = s /\ Flow(Rest(b, k) \o z, ps, n + 1, 0)
<1> DEFINE q == b \o z
<1>0. s = Serialize(ps[n + 1]) /\ k \in 0 .. Len(b) /\ m + k <= Len(s)
  BY Zenon DEF Takes
<1>1. b \in Seq(Byte) /\ z \in Seq(Byte) /\ Flow(q, ps, n, m) /\ Len(ps) \in Nat /\ n \in Nat /\ m \in Nat /\ n < Len(ps)
  BY Zenon DEF Takes, Reads
<1>2. Wire(s)
  BY <1>0, <1>1, FlowWire, Zenon
<1>3. s \in Seq(Byte) /\ Len(s) \in Nat
  BY <1>2, WireShape, Zenon
<1>4. q \in Seq(Byte) /\ Len(q) = Len(b) + Len(z) /\ Len(b) \in Nat /\ Len(z) \in Nat
  BY <1>1, Concat, Zenon
<1> DEFINE lb == Len(b)
           lq == Len(q)
           lz == Len(z)
           ls == Len(s)
<1>5. k \in 0 .. lb /\ m + k <= ls /\ lq = lb + lz /\ lb \in Nat /\ lz \in Nat /\ m \in Nat /\ ls \in Nat
  BY <1>0, <1>1, <1>3, <1>4, Zenon
<1> HIDE DEF lb, lq, lz, ls
<1>6. k \in 0 .. lq /\ m <= ls
  BY <1>5
<1>7. First(q, k) = First(b, k)
  <2> DEFINE x == First(q, k)
             y == First(b, k)
  <2>1. /\ x \in Seq(Byte) /\ Len(x) = k /\ \A i \in 1 .. k : x[i] = q[i]
    BY <1>4, <1>6, Halves, Zenon DEF lq
  <2>2. /\ y \in Seq(Byte) /\ Len(y) = k /\ \A i \in 1 .. k : y[i] = b[i]
    BY <1>0, <1>1, Halves, Zenon
  <2>3. \A i \in 1 .. lb : q[i] = b[i]
    <3>1. lb = Len(b) /\ lz = Len(z)
      BY Zenon DEF lb, lz
    <3>2. QED BY <1>1, <3>1, Joins, SMT
  <2> HIDE DEF x, y, q
  <2>4. \A i \in 1 .. k : i \in 1 .. lb
    BY <1>5
  <2>5. \A i \in 1 .. k : x[i] = y[i]
    BY <2>1, <2>2, <2>3, <2>4, Zenon
  <2>6. x = y
    BY <2>1, <2>2, <2>5, SeqEq
  <2>7. QED BY <2>6, Zenon DEF x, y
<1>8. Rest(q, k) = Rest(b, k) \o z
  BY <1>0, <1>1, RestOfBoth, Zenon
<1>9. Rest(b, k) \in Seq(Byte)
  BY <1>0, <1>1, Halves, Zenon
<1>10. Flow(Rest(q, k), ps, n, m + k)
  <2>1. k \in 0 .. Len(q)
    BY <1>6, Zenon DEF lq
  <2> HIDE DEF q
  <2>2. QED BY <1>1, <2>1, FlowTaken, SMT
<1>11. First(q, k) = SubSeq(s, m + 1, m + k) /\ First(s, m) \o First(q, k) = First(s, m + k)
  <2>1. k \in 0 .. Len(q) /\ m <= Len(s) /\ m + k <= Len(s)
    BY <1>5, <1>6, Zenon DEF lq, ls
  <2> HIDE DEF q
  <2>2. Covers(q, ps, n, m, s, k)
    BY <1>0, <1>1, <1>3, <2>1, Zenon DEF Covers
  <2>3. QED BY <2>2, FlowOfPacket, SMT
<1>12. ASSUME m + k = Len(s)
       PROVE  First(s, m) \o First(b, k) = s /\ Flow(Rest(b, k) \o z, ps, n + 1, 0)
  <2>1. First(s, Len(s)) = s
    BY <1>3 DEF First
  <2>2. Flow(Rest(b, k) \o z, ps, n, Len(s))
    BY <1>8, <1>10, <1>12, Zenon
  <2>3. Flow(Rest(b, k) \o z, ps, n + 1, 0)
    BY <1>0, <1>1, <1>3, <2>2, FlowNext, SMT
  <2>4. QED BY <2>1, <2>3, <1>7, <1>11, <1>12, Zenon
<1>13. QED BY <1>2, <1>7, <1>8, <1>9, <1>10, <1>11, <1>12, Zenon

\* A read of one byte (the header byte, a digit of the remaining length) gives the next byte of the packet.
LEMMA ReadsByte ==
  ASSUME NEW b, NEW z, NEW ps, NEW n, NEW m, Reads(b, z, ps, n, m), b # <<>>,
         NEW s, s = Serialize(ps[n + 1]), m < Len(s)
  PROVE  /\ Wire(s) /\ b[1] = s[m + 1] /\ 1 \in 0 .. Len(b)
         /\ Flow(Rest(b, 1) \o z, ps, n, m + 1) /\ Rest(b, 1) \in Seq(Byte)
         /\ m + 1 = Len(s) => Flow(Rest(b, 1) \o z, ps, n + 1, 0)
<1>1. b \in Seq(Byte) /\ Flow(b \o z, ps, n, m) /\ Len(ps) \in Nat /\ n < Len(ps) /\ m \in Nat
  BY Zenon DEF Reads
<1>2. Wire(s)
  BY <1>1, FlowWire, Zenon
<1>3. s \in Seq(Byte) /\ Len(s) \in Nat
  BY <1>2, WireShape, Zenon
<1>4. 1 \in 0 .. Len(b)
  BY <1>1
<1>5. m + 1 <= Len(s)
  BY <1>1, <1>3
<1>6. /\ First(b, 1) = SubSeq(s, m + 1, m + 1)
      /\ Flow(Rest(b, 1) \o z, ps, n, m + 1) /\ Rest(b, 1) \in Seq(Byte)
      /\ m + 1 = Len(s) => Flow(Rest(b, 1) \o z, ps, n + 1, 0)
  <2> DEFINE k == 1
  <2>1. Takes(b, z, ps, n, m, s, k)
    BY <1>4, <1>5, Zenon DEF Takes
  <2> HIDE DEF k
  <2>2. /\ First(b, k) = SubSeq(s, m + 1, m + k)
        /\ Flow(Rest(b, k) \o z, ps, n, m + k) /\ Rest(b, k) \in Seq(Byte)
        /\ m + k = Len(s) => Flow(Rest(b, k) \o z, ps, n + 1, 0)
    BY <2>1, ReadsBytes, SMT
  <2>3. QED BY <2>2, Zenon DEF k
<1>7. First(b, 1)[1] = b[1] /\ SubSeq(s, m + 1, m + 1)[1] = s[m + 1]
  <2>1. 1 \in 1 .. 1 /\ 1 \in Nat
    OBVIOUS
  <2>2. First(b, 1)[1] = b[1]
    BY <1>1, <1>4, <2>1, Halves, Zenon
  <2>3. SubSeq(s, m + 1, m + 1)[1] = s[m + 1]
    BY <1>1, <1>3, <1>5, SMT
  <2>4. QED BY <2>2, <2>3, Zenon
<1>8. QED BY <1>2, <1>4, <1>6, <1>7, Zenon

-----------------------------------------------------------------------------
\* The packets of the client that their serialiser does not refuse for want of room in buf.
Fitting == {p \in Requests : ~ (Needs(p) > BufSize)}
\* The packets of the peer whose remaining length four digits can carry.
Sendable == {p \in ServerPackets : p \in PublishPackets => publishLength(p) < Limit}

\* The peer gets back every packet that the client serialises.
LEMMA FittingRoundTrip ==
  ASSUME NEW p \in Fitting
  PROVE  /\ p \in ClientPackets /\ Wire(Serialize(p)) /\ Deserialize(Serialize(p)) = p
         /\ Serialize(p) \in Seq(Byte) /\ Len(Serialize(p)) <= BufSize
<1>1. p \in ClientPackets /\ ~ (Needs(p) > BufSize)
  BY PacketsAssumption, Zenon DEF Fitting
<1>2. BufSize \in 0 .. Limit
  BY SizesAssumption, Zenon
<1>3. Wire(Serialize(p)) /\ Deserialize(Serialize(p)) = p /\ Len(Serialize(p)) <= BufSize
  BY <1>1, <1>2, ClientRoundTrip, Zenon
<1>4. QED BY <1>1, <1>3, WireShape, Zenon

\* The client gets back every packet that the peer serialises.
LEMMA SendableRoundTrip ==
  ASSUME NEW p \in Sendable
  PROVE  Wire(Serialize(p)) /\ Deserialize(Serialize(p)) = AsRead(p) /\ Serialize(p) \in Seq(Byte)
  BY ServerRoundTrip, WireShape, Zenon DEF Sendable

\* The publications that the peer sends of its own are such packets.
LEMMA PushesSendable ==
  ASSUME NEW p \in Pushes
  PROVE  p \in Sendable
  BY PacketsAssumption, Zenon DEF Sendable, ServerPackets

\* A packet of the peer other than a publication always is.
LEMMA AnswerSendable ==
  ASSUME NEW x \in ServerPackets, x.type # PUBLISH
  PROVE  x \in Sendable
  BY Zenon DEF Sendable, PublishPackets

\* The peer's answer to each type of packet.
LEMMA AnswersOf ==
  ASSUME NEW p, NEW a \in Answers(p)
  PROVE  /\ p.type = CONNECT => a = <<[type |-> CONNACK, sessionPresent |-> 0, rc |-> 0]>>
         /\ p.type = PUBLISH =>
              IF p.qos > 0 THEN a = <<[type |-> IF p.qos = 1 THEN PUBACK ELSE PUBREC, dup |-> 0, id |-> p.id]>> ELSE a = <<>>
         /\ p.type = PUBREC => a = <<[type |-> PUBREL, dup |-> 0, id |-> p.id]>>
         /\ p.type = PUBREL => a = <<[type |-> PUBCOMP, dup |-> 0, id |-> p.id]>>
         /\ p.type = SUBSCRIBE =>
              \E c \in Codes : a = <<[type |-> SUBACK, id |-> p.id, granted |-> [i \in DOMAIN p.filters |-> c]]>>
         /\ p.type = UNSUBSCRIBE => a = <<[type |-> UNSUBACK, dup |-> 0, id |-> p.id]>>
         /\ p.type = PINGREQ => a = <<[type |-> PINGRESP]>>
         /\ p.type \in {PUBACK, PUBCOMP, DISCONNECT} => a = <<>>
<1> DEFINE t == p.type
<1> SUFFICES
         /\ t = CONNECT => a = <<[type |-> CONNACK, sessionPresent |-> 0, rc |-> 0]>>
         /\ t = PUBLISH =>
              IF p.qos > 0 THEN a = <<[type |-> IF p.qos = 1 THEN PUBACK ELSE PUBREC, dup |-> 0, id |-> p.id]>> ELSE a = <<>>
         /\ t = PUBREC => a = <<[type |-> PUBREL, dup |-> 0, id |-> p.id]>>
         /\ t = PUBREL => a = <<[type |-> PUBCOMP, dup |-> 0, id |-> p.id]>>
         /\ t = SUBSCRIBE =>
              \E c \in Codes : a = <<[type |-> SUBACK, id |-> p.id, granted |-> [i \in DOMAIN p.filters |-> c]]>>
         /\ t = UNSUBSCRIBE => a = <<[type |-> UNSUBACK, dup |-> 0, id |-> p.id]>>
         /\ t = PINGREQ => a = <<[type |-> PINGRESP]>>
         /\ t \in {PUBACK, PUBCOMP, DISCONNECT} => a = <<>>
  BY Zenon
<1> DEFINE A1 == {<<[type |-> CONNACK, sessionPresent |-> 0, rc |-> 0]>>}
           A2 == {<<[type |-> IF p.qos = 1 THEN PUBACK ELSE PUBREC, dup |-> 0, id |-> p.id]>>}
           A3 == {<<[type |-> PUBREL, dup |-> 0, id |-> p.id]>>}
           A4 == {<<[type |-> PUBCOMP, dup |-> 0, id |-> p.id]>>}
           A5 == {<<[type |-> SUBACK, id |-> p.id, granted |-> [i \in DOMAIN p.filters |-> c]]>> : c \in Codes}
           A6 == {<<[type |-> UNSUBACK, dup |-> 0, id |-> p.id]>>}
           A7 == {<<[type |-> PINGRESP]>>}
           A8 == {<<>>}
           w == p.qos > 0
<1>1. a \in CASE t = CONNECT -> A1 [] t = PUBLISH /\ w -> A2 [] t = PUBREC -> A3 [] t = PUBREL -> A4
            [] t = SUBSCRIBE -> A5 [] t = UNSUBSCRIBE -> A6 [] t = PINGREQ -> A7 [] OTHER -> A8
  BY Zenon DEF Answers
<1> HIDE DEF t, A1, A2, A3, A4, A5, A6, A7, A8, w
<1>2. /\ t = CONNECT => a \in A1
      /\ t = PUBLISH => IF w THEN a \in A2 ELSE a \in A8
      /\ t = PUBREC => a \in A3
      /\ t = PUBREL => a \in A4
      /\ t = SUBSCRIBE => a \in A5
      /\ t = UNSUBSCRIBE => a \in A6
      /\ t = PINGREQ => a \in A7
      /\ t \in {PUBACK, PUBCOMP, DISCONNECT} => a \in A8
  BY <1>1, SMT DEF CONNECT, PUBLISH, PUBACK, PUBREC, PUBREL, PUBCOMP, SUBSCRIBE, UNSUBSCRIBE, PINGREQ, DISCONNECT
<1>3. QED BY <1>2, Zenon DEF A1, A2, A3, A4, A5, A6, A7, A8, w

\* The peer answers a packet of the client with at most one packet, one that can be sent.
LEMMA AnswersSendable ==
  ASSUME NEW p \in ClientPackets, NEW a \in Answers(p)
  PROVE  a = <<>> \/ \E x \in Sendable : a = <<x>>
<1>t. /\ CONNACK # PUBLISH /\ PUBACK # PUBLISH /\ PUBREC # PUBLISH /\ PUBREL # PUBLISH /\ PUBCOMP # PUBLISH
      /\ SUBACK # PUBLISH /\ UNSUBACK # PUBLISH /\ PINGRESP # PUBLISH
  BY DEF CONNACK, PUBLISH, PUBACK, PUBREC, PUBREL, PUBCOMP, SUBACK, UNSUBACK, PINGRESP
<1>0. 0 \in {0, 1} /\ 0 \in {0} /\ 0 \in Byte
  BY DEF Byte
<1>a. ASSUME NEW t \in (PUBACK .. PUBCOMP) \cup {UNSUBACK}, NEW id \in UShort
      PROVE  [type |-> t, dup |-> 0, id |-> id] \in Sendable
  <2> DEFINE x == [type |-> t, dup |-> 0, id |-> id]
  <2>1. x \in AckPackets((PUBACK .. PUBCOMP) \cup {UNSUBACK})
    BY <1>0, Zenon DEF AckPackets
  <2>2. x.type = t /\ t # PUBLISH
    <3>1. t # PUBLISH
      BY DEF PUBACK, PUBCOMP, UNSUBACK, PUBLISH
    <3>2. QED BY <3>1, Zenon
  <2> HIDE DEF x
  <2>3. x \in ServerPackets
    BY <2>1, Zenon DEF ServerPackets
  <2>4. x \in Sendable
    BY <2>2, <2>3, AnswerSendable, Zenon
  <2>5. QED BY <2>4, Zenon DEF x
<1>k. /\ PUBACK \in PUBACK .. PUBCOMP /\ PUBREC \in PUBACK .. PUBCOMP /\ PUBREL \in PUBACK .. PUBCOMP
      /\ PUBCOMP \in PUBACK .. PUBCOMP
      /\ \A t \in PUBACK .. PUBCOMP : t = PUBACK \/ t = PUBREC \/ t = PUBREL \/ t = PUBCOMP
  BY DEF PUBACK, PUBREC, PUBREL, PUBCOMP
<1>1. CASE p \in ConnectPackets
  <2> DEFINE x == [type |-> CONNACK, sessionPresent |-> 0, rc |-> 0]
  <2>1. p.type = CONNECT
    BY <1>1, Zenon DEF ConnectPackets
  <2>2. a = <<x>>
    BY <2>1, AnswersOf, Zenon
  <2>3. x \in [type : {CONNACK}, sessionPresent : {0, 1}, rc : Byte] /\ x.type = CONNACK
    BY <1>0, Zenon
  <2> HIDE DEF x
  <2>4. x \in Sendable
    BY <2>3, <1>t, AnswerSendable, Zenon DEF ServerPackets
  <2>5. QED BY <2>2, <2>4, Zenon
<1>2. CASE p \in PublishPackets
  <2>1. p.type = PUBLISH /\ p.id \in UShort
    BY <1>2, Zenon DEF PublishPackets
  <2>2. IF p.qos > 0 THEN a = <<[type |-> IF p.qos = 1 THEN PUBACK ELSE PUBREC, dup |-> 0, id |-> p.id]>> ELSE a = <<>>
    BY <2>1, AnswersOf, Zenon
  <2>3. (IF p.qos = 1 THEN PUBACK ELSE PUBREC) \in (PUBACK .. PUBCOMP) \cup {UNSUBACK}
    BY <1>k, Zenon
  <2>4. QED BY <1>a, <2>1, <2>2, <2>3, Zenon
<1>3. CASE p \in AckPackets(PUBACK .. PUBCOMP)
  <2>1. p.type \in PUBACK .. PUBCOMP /\ p.id \in UShort
    BY <1>3, Zenon DEF AckPackets
  <2>2. p.type = PUBACK \/ p.type = PUBREC \/ p.type = PUBREL \/ p.type = PUBCOMP
    BY <1>k, <2>1, Zenon
  <2>3. \/ a = <<>>
        \/ a = <<[type |-> PUBREL, dup |-> 0, id |-> p.id]>>
        \/ a = <<[type |-> PUBCOMP, dup |-> 0, id |-> p.id]>>
    BY <2>2, AnswersOf, Zenon
  <2>4. QED BY <1>a, <1>k, <2>1, <2>3, Zenon
<1>4. CASE p \in SubscribePackets
  <2>1. p.type = SUBSCRIBE /\ p.id \in UShort /\ p.filters \in OneFilter(Text \X (0 .. 2))
    BY <1>4, Zenon DEF SubscribePackets
  <2>2. PICK c \in Codes : a = <<[type |-> SUBACK, id |-> p.id, granted |-> [i \in DOMAIN p.filters |-> c]]>>
    BY <2>1, AnswersOf, SMTT(20)
  <2>3. c \in Byte
    BY PacketsAssumption, Zenon
  <2> DEFINE f == p.filters
             g == [i \in DOMAIN f |-> c]
             x == [type |-> SUBACK, id |-> p.id, granted |-> g]
  <2>4. f \in Seq(Text \X (0 .. 2)) /\ Len(f) = 1
    BY <2>1, Zenon DEF OneFilter
  <2>5. g \in OneFilter(Byte)
    <3> HIDE DEF f
    <3>1. DOMAIN f = 1 .. 1
      BY <2>4
    <3>2. g = [i \in 1 .. 1 |-> c]
      BY <3>1, Zenon
    <3>3. [i \in 1 .. 1 |-> c] \in Seq(Byte) /\ Len([i \in 1 .. 1 |-> c]) = 1
      BY <2>3
    <3>4. QED BY <3>2, <3>3, Zenon DEF OneFilter
  <2> HIDE DEF g
  <2>6. x \in [type : {SUBACK}, id : UShort, granted : OneFilter(Byte)] /\ x.type = SUBACK
    BY <2>1, <2>5, Zenon
  <2>7. a = <<x>>
    BY <2>2, Zenon DEF g
  <2> HIDE DEF x
  <2>8. x \in Sendable
    BY <2>6, <1>t, AnswerSendable, Zenon DEF ServerPackets
  <2>9. QED BY <2>7, <2>8, Zenon
<1>5. CASE p \in UnsubscribePackets
  <2>1. p.type = UNSUBSCRIBE /\ p.id \in UShort
    BY <1>5, Zenon DEF UnsubscribePackets
  <2>2. a = <<[type |-> UNSUBACK, dup |-> 0, id |-> p.id]>>
    BY <2>1, AnswersOf, Zenon
  <2>3. QED BY <1>a, <2>1, <2>2, Zenon
<1>6. CASE p \in [type : {PINGREQ, DISCONNECT}]
  <2>1. p.type = PINGREQ \/ p.type = DISCONNECT
    BY <1>6, Zenon
  <2> DEFINE x == [type |-> PINGRESP]
  <2>2. a = <<>> \/ a = <<x>>
    BY <2>1, AnswersOf, Zenon
  <2>3. x \in [type : {PINGRESP}] /\ x.type = PINGRESP
    BY Zenon
  <2> HIDE DEF x
  <2>4. x \in Sendable
    BY <2>3, <1>t, AnswerSendable, Zenon DEF ServerPackets
  <2>5. QED BY <2>2, <2>4, Zenon
<1>7. QED BY <1>1, <1>2, <1>3, <1>4, <1>5, <1>6, Zenon DEF ClientPackets

\* The peer sends nothing, or serialises one packet behind the bytes on their way to the client.
Grows ==
  \/ answered' = answered /\ s2c' = s2c
  \/ \E x \in Sendable : answered' = Append(answered, x) /\ s2c' = s2c \o Serialize(x)

\* What the peer does with a whole packet: MQTTTransport is as new, the packet is noted and maybe answered.
LEMMA PeerGotIs ==
  ASSUME NEW d, PeerGot(d), Deserialize(d) \in ClientPackets, s2c \in Seq(Byte), answered \in Seq(Sendable)
  PROVE  /\ trp' = Fresh /\ pbuf' = <<>> /\ pgot' = Append(pgot, Deserialize(d))
         /\ link' = link /\ pushed' = pushed /\ Grows
<1>1. /\ trp' = Fresh /\ pbuf' = <<>> /\ pgot' = Append(pgot, Deserialize(d))
      /\ link' = link /\ pushed' = pushed
  BY Zenon DEF PeerGot
<1>2. PICK a \in Answers(Deserialize(d)) :
        answered' = answered \o a /\ s2c' = s2c \o Joined([i \in DOMAIN a |-> Serialize(a[i])])
  BY Zenon DEF PeerGot
<1> DEFINE f == [i \in DOMAIN a |-> Serialize(a[i])]
<1>3. a = <<>> \/ \E x \in Sendable : a = <<x>>
  BY <1>2, AnswersSendable, Zenon
<1>4. CASE a = <<>>
  <2>1. f = <<>>
    BY <1>4
  <2>2. Joined(f) = <<>>
    BY <2>1, JoinedNone, Zenon
  <2>3. answered \o <<>> = answered /\ s2c \o <<>> = s2c
    OBVIOUS
  <2>4. QED BY <1>1, <1>2, <1>4, <2>2, <2>3, Zenon DEF Grows
<1>5. CASE \E x \in Sendable : a = <<x>>
  <2>1. PICK x \in Sendable : a = <<x>>
    BY <1>5
  <2> DEFINE y == Serialize(x)
  <2>2. y \in Seq(Byte)
    BY SendableRoundTrip, Zenon
  <2>3. f = <<y>>
    <3>1. DOMAIN a = 1 .. 1 /\ a[1] = x
      BY <2>1
    <3>2. f = [i \in 1 .. 1 |-> Serialize(a[i])]
      BY <3>1, Zenon
    <3>3. \A i \in 1 .. 1 : Serialize(a[i]) = y
      <4>1. \A i \in 1 .. 1 : i = 1
        OBVIOUS
      <4>2. QED BY <3>1, <4>1, Zenon
    <3> HIDE DEF y
    <3>4. [i \in 1 .. 1 |-> y] = <<y>>
      OBVIOUS
    <3>5. f = [i \in 1 .. 1 |-> y]
      BY <3>2, <3>3, Zenon
    <3>6. QED BY <3>4, <3>5, Zenon
  <2> HIDE DEF y, f
  <2>4. f \in Seq(Seq(Byte)) /\ Len(f) = 1 /\ f[1] = y
    BY <2>2, <2>3
  <2>5. Joined(f) = y
    BY <2>4, JoinedOne, Zenon
  <2>6. answered \o <<x>> = Append(answered, x)
    OBVIOUS
  <2>7. answered' = Append(answered, x) /\ s2c' = s2c \o y
    BY <1>2, <2>1, <2>5, <2>6, Zenon DEF f
  <2>8. QED BY <1>1, <2>7, Zenon DEF Grows, y
<1>6. QED BY <1>3, <1>4, <1>5

\* A read or write of the transport moves as many bytes as there are and as were asked for, or fewer.
LEMMA PieceIs ==
  ASSUME NEW b \in Seq(Byte), NEW n \in Nat, NEW k \in Piece(b, n)
  PROVE  k \in 0 .. Len(b) /\ k <= n
<1>1. PICK j \in Pieces \cup {n} : k = Least(j, Least(n, Len(b)))
  BY Zenon DEF Piece
<1>2. j \in Nat
  BY SizesAssumption
<1>3. QED BY <1>1, <1>2 DEF Least

-----------------------------------------------------------------------------
\* MQTTPacket_readnb in state 1, within packet s: the header byte and t.len digits are read.
InHeader(t, b, s, m) ==
  /\ t.state = 1 /\ m = 1 + t.len /\ t.len \in 0 .. Fixed(s) - 2
  /\ t.rem_len = PartValue(s, t.len) /\ t.multiplier = Multiplier(t.len) /\ b = First(s, 1)

\* MQTTPacket_readnb in state 2, within packet s: t.len bytes are in the buffer, t.rem_len are missing.
InBody(t, b, s, m) ==
  /\ t.state = 2 /\ m = t.len /\ t.len \in Fixed(s) .. Len(s) - 1
  /\ t.rem_len = Len(s) - t.len /\ b = First(s, t.len) /\ Len(s) <= PeerBufSize

\* The peer has read m bytes of packet n + 1 of ps, and its MQTTTransport and its buffer say so.
PeerAt(t, b, ps, n, m) ==
  \/ t.state = 0 /\ m = 0 /\ b = <<>>
  \/ n < Len(ps) /\ InHeader(t, b, Serialize(ps[n + 1]), m)
  \/ n < Len(ps) /\ InBody(t, b, Serialize(ps[n + 1]), m)

\* The bytes q on their way to the peer go on where it is in the packets.
PeerIn(q, t, b, ps, n) == \E m : Flow(q, ps, n, m) /\ PeerAt(t, b, ps, n, m)

\* An MQTTTransport, field by field.
Transport(x, y, r, m) == [state |-> x, len |-> y, rem_len |-> r, multiplier |-> m]
\* t is an MQTTTransport.
IsTransport(t) == t = Transport(t.state, t.len, t.rem_len, t.multiplier)

\* The client's half: it has serialised packets that fit, and has bytes to write only in mqtt_network_write.
SendInv ==
  /\ sent \in Seq(Fitting) /\ c2s \in Seq(Byte) /\ out \in Seq(Byte) /\ Len(out) <= BufSize
  /\ client # "write" => out = <<>>

\* The packets the peer got are the first ones sent.
GotInv ==
  /\ pgot \in Seq(Fitting) /\ Len(pgot) <= Len(sent) /\ \A i \in 1 .. Len(pgot) : pgot[i] = sent[i]

\* The peer's half: on a connection that is up, the bytes on their way and those not written yet go on exactly where
\* the peer is.
PeerInv ==
  /\ link \in {"up", "cut"} /\ IsTransport(trp)
  /\ link = "cut" => trp.state = 0 /\ pbuf = <<>>
  /\ link = "up" => PeerIn(c2s \o out, trp, pbuf, sent, Len(pgot))

\* The inductive invariant for the packets on their way to the peer.
ReqInv == SendInv /\ GotInv /\ PeerInv

\* MQTTTransport as it is set up before each packet.
LEMMA FreshIs ==
  Fresh = Transport(0, 0, 0, 1) /\ IsTransport(Fresh) /\ Fresh.state = 0
  BY Zenon DEF Fresh, Transport, IsTransport

\* A new connection has it.
LEMMA ReqInit ==
  ASSUME Init
  PROVE  ReqInv
<1>1. <<>> \o <<>> = <<>> /\ Len(<<>>) = 0 /\ <<>> \in Seq(Byte) /\ 1 .. 0 = {}
      /\ <<>> \in Seq(Fitting) /\ 0 <= 0 /\ 0 <= BufSize
  BY SizesAssumption
<1>2. IsTransport(Fresh) /\ Fresh.state = 0
  BY FreshIs, Zenon
<1>3. PeerAt(Fresh, <<>>, <<>>, 0, 0)
  BY <1>2, Zenon DEF PeerAt
<1>4. PeerIn(<<>>, Fresh, <<>>, <<>>, 0)
  BY <1>3, FlowBegins, Zenon DEF PeerIn
<1>i. /\ link = "up" /\ client = "idle"
      /\ sent = <<>> /\ out = <<>> /\ c2s = <<>> 
      /\ trp = Fresh /\ pbuf = <<>> /\ pgot = <<>>
  BY Zenon DEF Init
<1>5. SendInv
  BY <1>1, <1>i, Zenon DEF SendInv
<1>6. GotInv
  BY <1>1, <1>i, Zenon DEF GotInv
<1>7. PeerInv
  BY <1>1, <1>2, <1>4, <1>i, Zenon DEF PeerInv
<1>8. QED BY <1>5, <1>6, <1>7, Zenon DEF ReqInv

\* So has a step that leaves this direction alone.
LEMMA ReqSame ==
  ASSUME ReqInv, UNCHANGED <<link, sent, out, c2s, trp, pbuf, pgot>>, client' = client \/ out = <<>>
  PROVE  ReqInv'
<1>1. SendInv'
  BY Zenon DEF ReqInv, SendInv
<1>2. GotInv'
  BY Zenon DEF ReqInv, GotInv
<1>3. PeerInv'
  BY Zenon DEF ReqInv, PeerInv
<1>4. QED BY <1>1, <1>2, <1>3, Zenon DEF ReqInv

\* Sending another packet does not move the peer.
LEMMA PeerAtAppend ==
  ASSUME NEW ps \in Seq(Fitting), NEW p \in Fitting, NEW n \in Nat, NEW t, NEW b, NEW m, PeerAt(t, b, ps, n, m)
  PROVE  PeerAt(t, b, Append(ps, p), n, m)
<1>1. CASE t.state = 0 /\ m = 0 /\ b = <<>>
  BY <1>1, Zenon DEF PeerAt
<1>2. CASE n < Len(ps)
  <2>1. n < Len(Append(ps, p)) /\ Append(ps, p)[n + 1] = ps[n + 1]
    BY <1>2
  <2>2. QED BY <1>2, <2>1, Zenon DEF PeerAt
<1>3. QED BY <1>1, <1>2, Zenon DEF PeerAt

\* sendPacket: a serialiser refuses the packet, or its bytes are ready to be written.
LEMMA ReqSendPacket ==
  ASSUME ReqInv, NEW p \in Requests, SendPacket(p)
  PROVE  ReqInv'
<1>1. client = "idle" /\ UNCHANGED <<link, c2s, trp, pbuf, pgot>>
  BY Zenon DEF SendPacket, peerVars
<1>2. "idle" # "write"
  OBVIOUS
<1>3. /\ sent \in Seq(Fitting) /\ c2s \in Seq(Byte) /\ out = <<>>
  BY <1>1, <1>2, Zenon DEF ReqInv, SendInv
<1>4. CASE Needs(p) > BufSize
  <2>1. UNCHANGED <<sent, out>>
    BY <1>4, Zenon DEF SendPacket
  <2>2. QED BY <1>1, <1>3, <2>1, ReqSame, Zenon
<1>5. CASE ~ (Needs(p) > BufSize)
  <2>1. out' = Serialize(p) /\ sent' = Append(sent, p) /\ client' = "write"
    BY <1>5, Zenon DEF SendPacket
  <2>2. p \in Fitting
    BY <1>5, Zenon DEF Fitting
  <2>3. Serialize(p) \in Seq(Byte) /\ Len(Serialize(p)) <= BufSize /\ Wire(Serialize(p))
    BY <2>2, FittingRoundTrip, Zenon
  <2>4. SendInv'
    <3>1. Append(sent, p) \in Seq(Fitting)
      BY <1>3, <2>2
    <3>2. QED BY <1>1, <1>3, <2>1, <2>3, <3>1, Zenon DEF SendInv
  <2>5. GotInv'
    <3>1. pgot \in Seq(Fitting) /\ Len(pgot) <= Len(sent) /\ \A i \in 1 .. Len(pgot) : pgot[i] = sent[i]
      BY Zenon DEF ReqInv, GotInv
    <3>2. Len(pgot) <= Len(Append(sent, p)) /\ \A i \in 1 .. Len(pgot) : Append(sent, p)[i] = sent[i]
      BY <1>3, <3>1
    <3>3. QED BY <1>1, <2>1, <3>1, <3>2, Zenon DEF GotInv
  <2>6. PeerInv'
    <3>1. /\ link \in {"up", "cut"} /\ IsTransport(trp)
          /\ link = "cut" => trp.state = 0 /\ pbuf = <<>>
      BY Zenon DEF ReqInv, PeerInv
    <3>2. ASSUME link = "up"
          PROVE  PeerIn(c2s \o Serialize(p), trp, pbuf, Append(sent, p), Len(pgot))
      <4> DEFINE n == Len(pgot)
      <4>1. PICK m : Flow(c2s \o out, sent, n, m) /\ PeerAt(trp, pbuf, sent, n, m)
        BY <3>2, Zenon DEF ReqInv, PeerInv, PeerIn
      <4>2. c2s \o out = c2s
        BY <1>3
      <4>3. Flow(c2s, sent, n, m)
        BY <4>1, <4>2, Zenon
      <4>n. n \in Nat
        BY DEF ReqInv, GotInv
      <4> HIDE DEF n
      <4>4. Flow(c2s \o Serialize(p), Append(sent, p), n, m)
        BY <1>3, <2>2, <2>3, <4>3, FlowAppend, SMT
      <4>5. PeerAt(trp, pbuf, Append(sent, p), n, m)
        BY <1>3, <2>2, <4>1, <4>n, PeerAtAppend, SMT
      <4>6. QED BY <4>4, <4>5, Zenon DEF PeerIn, n
    <3>3. QED BY <1>1, <2>1, <3>1, <3>2, Zenon DEF PeerInv
  <2>7. QED BY <2>4, <2>5, <2>6, Zenon DEF ReqInv
<1>6. QED BY <1>4, <1>5, Zenon

\* mqtt_network_write: a piece of the bytes goes from the buffer to the connection.
LEMMA ReqWrite ==
  ASSUME ReqInv, Write
  PROVE  ReqInv'
<1>1. PICK k \in Piece(out, Len(out)) : c2s' = c2s \o First(out, k) /\ out' = Rest(out, k)
  BY Zenon DEF Write
<1>2. client = "write" /\ UNCHANGED <<link, client, sent, trp, pbuf, pgot>>
  BY Zenon DEF Write, peerVars
<1>3. sent \in Seq(Fitting) /\ c2s \in Seq(Byte) /\ out \in Seq(Byte) /\ Len(out) <= BufSize
  BY Zenon DEF ReqInv, SendInv
<1>4. Len(out) \in Nat
  BY <1>3
<1>5. k \in 0 .. Len(out)
  BY <1>3, <1>4, PieceIs, Zenon
<1>6. /\ First(out, k) \in Seq(Byte) /\ Rest(out, k) \in Seq(Byte) /\ Len(Rest(out, k)) = Len(out) - k
      /\ First(out, k) \o Rest(out, k) = out
  BY <1>3, <1>5, Halves, SplitAt, Zenon
<1>7. c2s' \o out' = c2s \o out
  <2> DEFINE x == First(out, k)
             y == Rest(out, k)
  <2>1. x \in Seq(Byte) /\ y \in Seq(Byte) /\ x \o y = out
    BY <1>6, Zenon
  <2>2. c2s' \o out' = c2s \o x \o y
    BY <1>1, Zenon
  <2> HIDE DEF x, y
  <2>3. c2s \o (x \o y) = c2s \o x \o y
    <3>1. c2s \in Seq(Byte) /\ x \in Seq(Byte) /\ y \in Seq(Byte)
      BY <1>3, <2>1, Zenon
    <3>2. QED BY ONLY <3>1, Assoc, Zenon
  <2>4. QED BY <2>1, <2>2, <2>3, Zenon
<1>8. c2s' \in Seq(Byte)
  BY <1>1, <1>3, <1>6, Concat, Zenon
<1>9. SendInv'
  <2>1. Len(out) - k <= BufSize
    BY <1>3, <1>4, <1>5, SizesAssumption
  <2>2. QED BY <1>1, <1>2, <1>3, <1>6, <1>8, <2>1, Zenon DEF SendInv
<1>10. GotInv'
  BY <1>2, Zenon DEF ReqInv, GotInv
<1>11. PeerInv'
  BY <1>2, <1>7, Zenon DEF ReqInv, PeerInv
<1>12. QED BY <1>9, <1>10, <1>11, Zenon DEF ReqInv

\* mqtt_network_write has written all, or the connection is lost.
LEMMA ReqWriteEnds ==
  ASSUME ReqInv, WriteEnds
  PROVE  ReqInv'
<1>1. out' = <<>> /\ UNCHANGED <<link, sent, c2s, trp, pbuf, pgot>>
  BY Zenon DEF WriteEnds, peerVars
<1>2. CASE out = <<>>
  BY <1>1, <1>2, ReqSame, Zenon
<1>3. CASE link = "cut"
  <2>1. SendInv'
    <3>1. <<>> \in Seq(Byte) /\ Len(<<>>) <= BufSize
      BY SizesAssumption
    <3>2. QED BY <1>1, <3>1, Zenon DEF ReqInv, SendInv
  <2>2. GotInv'
    BY <1>1, Zenon DEF ReqInv, GotInv
  <2>3. PeerInv'
    <3>1. link' # "up"
      BY <1>1, <1>3
    <3>2. QED BY <1>1, <3>1, Zenon DEF ReqInv, PeerInv
  <2>4. QED BY <2>1, <2>2, <2>3, Zenon DEF ReqInv
<1>4. QED BY <1>2, <1>3, Zenon DEF WriteEnds

\* The connection is lost: the peer drops what it has of a packet.
LEMMA ReqLost ==
  ASSUME ReqInv, link' = "cut", trp' = Fresh, pbuf' = <<>>, UNCHANGED <<client, sent, out, pgot>>, c2s' \in Seq(Byte)
  PROVE  ReqInv'
<1>1. SendInv'
  BY Zenon DEF ReqInv, SendInv
<1>2. GotInv'
  BY Zenon DEF ReqInv, GotInv
<1>3. "cut" # "up" /\ "cut" \in {"up", "cut"}
  OBVIOUS
<1>4. IsTransport(Fresh) /\ Fresh.state = 0
  BY FreshIs, Zenon
<1>5. PeerInv'
  BY <1>3, <1>4, Zenon DEF PeerInv
<1>6. QED BY <1>1, <1>2, <1>5, Zenon DEF ReqInv

\* A step in which the peer takes packet n + 1, all of whose bytes it has in d.
PeerCompletes(n, d) ==
  /\ ReqInv /\ link = "up" /\ n = Len(pgot) /\ n < Len(sent) /\ PeerFrame /\ c2s' \in Seq(Byte)
  /\ d = Serialize(sent[n + 1]) /\ PeerGot(d) /\ Flow(c2s' \o out, sent, n + 1, 0)
  /\ s2c \in Seq(Byte) /\ answered \in Seq(Sendable)

\* The peer's packet is the one that was sent, since its deserialiser gets it back.
LEMMA ReqGot ==
  ASSUME NEW n, NEW d, PeerCompletes(n, d)
  PROVE  ReqInv' /\ Grows
<1> DEFINE p == sent[n + 1]
<1> USE DEF PeerCompletes
<1>1. UNCHANGED <<client, sent, out>>
  BY Zenon DEF PeerFrame, sendVars
<1>2. sent \in Seq(Fitting) /\ pgot \in Seq(Fitting) /\ \A i \in 1 .. Len(pgot) : pgot[i] = sent[i]
  BY Zenon DEF ReqInv, SendInv, GotInv
<1>3. n \in Nat /\ Len(sent) \in Nat
  BY <1>2
<1>4. p \in Fitting
  BY <1>2, <1>3
<1>5. Deserialize(d) = p /\ p \in ClientPackets
  BY <1>4, FittingRoundTrip, Zenon
<1>6. trp' = Fresh /\ pbuf' = <<>> /\ pgot' = Append(pgot, p) /\ link' = link /\ Grows
  <2>1. Deserialize(d) \in ClientPackets
    BY <1>5, Zenon
  <2>2. QED BY <1>5, <2>1, PeerGotIs, Zenon
<1>p. p = sent[n + 1]
  OBVIOUS
<1> HIDE DEF p
<1>7. Append(pgot, p) \in Seq(Fitting) /\ Len(Append(pgot, p)) = n + 1
      /\ \A i \in 1 .. n + 1 : Append(pgot, p)[i] = IF i = n + 1 THEN p ELSE pgot[i]
  BY <1>2, <1>3, <1>4
<1>8. SendInv'
  BY <1>1, Zenon DEF ReqInv, SendInv
<1>9. GotInv'
  <2>1. n + 1 <= Len(sent) /\ \A i \in 1 .. n + 1 : i # n + 1 => i \in 1 .. n
    BY <1>3
  <2>2. \A i \in 1 .. n + 1 : Append(pgot, p)[i] = sent[i]
    BY <1>2, <1>7, <1>p, <2>1, Zenon
  <2>3. QED BY <1>1, <1>6, <1>7, <2>1, <2>2, Zenon DEF GotInv
<1>10. PeerInv'
  <2>1. PeerAt(Fresh, <<>>, sent, n + 1, 0)
    BY FreshIs, Zenon DEF PeerAt
  <2>2. PeerIn(c2s' \o out, Fresh, <<>>, sent, n + 1)
    BY <2>1, Zenon DEF PeerIn
  <2>3. link' # "cut" /\ link' \in {"up", "cut"}
    BY <1>6
  <2>4. QED BY <1>1, <1>6, <1>7, <2>2, <2>3, FreshIs, Zenon DEF PeerInv
<1>11. QED BY <1>6, <1>8, <1>9, <1>10, Zenon DEF ReqInv

\* A step that moves the peer to byte m of packet n + 1.
PeerMoves(n, m) ==
  /\ ReqInv /\ link = "up" /\ n = Len(pgot) /\ n < Len(sent) /\ PeerFrame /\ c2s' \in Seq(Byte)
  /\ Flow(c2s' \o out, sent, n, m) /\ UNCHANGED <<link, pgot>> /\ IsTransport(trp')
  /\ InHeader(trp', pbuf', Serialize(sent[n + 1]), m) \/ InBody(trp', pbuf', Serialize(sent[n + 1]), m)

\* Moving on inside a packet preserves the invariant.
LEMMA ReqAdvance ==
  ASSUME NEW n, NEW m, PeerMoves(n, m)
  PROVE  ReqInv'
<1> USE DEF PeerMoves
<1>1. UNCHANGED <<client, sent, out>>
  BY Zenon DEF PeerFrame, sendVars
<1>2. SendInv'
  BY <1>1, Zenon DEF ReqInv, SendInv
<1>3. GotInv'
  BY <1>1, Zenon DEF ReqInv, GotInv
<1>4. PeerAt(trp', pbuf', sent, n, m)
  BY Zenon DEF PeerAt
<1>5. PeerIn(c2s' \o out, trp', pbuf', sent, n)
  BY <1>4, Zenon DEF PeerIn
<1>6. link' # "cut" /\ link' \in {"up", "cut"}
  OBVIOUS
<1>7. PeerInv'
  BY <1>1, <1>5, <1>6, Zenon DEF PeerInv
<1>8. QED BY <1>2, <1>3, <1>7, Zenon DEF ReqInv

\* Where a peer that has bytes to read is.
LEMMA PeerPlace ==
  ASSUME ReqInv, link = "up", c2s # <<>>
  PROVE  /\ Len(pgot) < Len(sent)
         /\ \E m : /\ Reads(c2s, out, sent, Len(pgot), m)
                   /\ \/ trp.state = 0 /\ m = 0
                      \/ InHeader(trp, pbuf, Serialize(sent[Len(pgot) + 1]), m)
                      \/ InBody(trp, pbuf, Serialize(sent[Len(pgot) + 1]), m)
<1> DEFINE n == Len(pgot)
<1>1. PICK m : Flow(c2s \o out, sent, n, m) /\ PeerAt(trp, pbuf, sent, n, m)
  BY Zenon DEF ReqInv, PeerInv, PeerIn
<1>2. c2s \in Seq(Byte) /\ out \in Seq(Byte) /\ sent \in Seq(Fitting) /\ pgot \in Seq(Fitting)
  BY Zenon DEF ReqInv, SendInv, GotInv
<1>3. Len(sent) \in Nat /\ n \in Nat
  BY <1>2
<1>4. m \in Nat
  BY <1>1, Zenon DEF Flow
<1>5. n < Len(sent)
  <2>1. CASE m = 0
    <3> DEFINE q == c2s \o out
    <3>1. q # <<>>
      BY <1>2
    <3>2. Flow(q, sent, n, 0)
      BY <1>1, <2>1, Zenon
    <3> HIDE DEF q, n
    <3>3. QED BY <1>3, <3>1, <3>2, FlowNotDone, Zenon
  <2>2. CASE m # 0
    BY <1>1, <2>2, Zenon DEF PeerAt
  <2>3. QED BY <2>1, <2>2
<1>6. Reads(c2s, out, sent, n, m)
  BY <1>1, <1>2, <1>3, <1>4, <1>5, Zenon DEF Reads
<1>7. QED BY <1>1, <1>5, <1>6, Zenon DEF PeerAt

\* MQTTPacket_readnb in state 0: the header byte.
LEMMA ReqPeerHeader ==
  ASSUME ReqInv, PeerHeader
  PROVE  ReqInv'
<1> DEFINE n == Len(pgot)
           s == Serialize(sent[n + 1])
           m == 0
           k == 1
<1>1. trp.state = 0 /\ c2s # <<>> /\ link = "up"
  BY Zenon DEF PeerHeader
<1>2. /\ pbuf' = First(c2s, 1) /\ c2s' = Rest(c2s, 1) /\ PeerFrame /\ UNCHANGED <<link, pgot>>
  BY Zenon DEF PeerHeader
<1>3. trp' = Transport(1, 0, 0, 1)
  BY Zenon DEF PeerHeader, Fresh, Transport
<1>4. n < Len(sent) /\ Reads(c2s, out, sent, n, m)
  <2>1. trp.state # 1 /\ trp.state # 2
    BY <1>1
  <2>2. QED BY <1>1, <2>1, PeerPlace, Zenon DEF InHeader, InBody
<1> HIDE DEF n, s
<1>5. Wire(s)
  BY <1>4, FlowWire, SMT DEF Reads, s
<1>6. s \in Seq(Byte) /\ Fixed(s) \in 2 .. 5 /\ Fixed(s) <= Len(s) /\ Len(s) \in Nat
  BY <1>5, WireShape, Zenon
<1>7. c2s \in Seq(Byte)
  BY Zenon DEF ReqInv, SendInv
<1>8. Takes(c2s, out, sent, n, m, s, k)
  <2>1. 1 \in 0 .. Len(c2s) /\ 0 + 1 <= Len(s)
    BY <1>1, <1>6, <1>7
  <2>2. QED BY <1>4, <2>1, Zenon DEF Takes, s
<1> HIDE DEF m, k
<1>9. First(c2s, k) = SubSeq(s, m + 1, m + k) /\ Flow(Rest(c2s, k) \o out, sent, n, m + k) /\ Rest(c2s, k) \in Seq(Byte)
  BY <1>8, ReadsBytes, SMT
<1>10. m + 1 = 1 /\ m + k = 1
  BY DEF m, k
<1>11. pbuf' = First(s, 1) /\ c2s' \in Seq(Byte) /\ Flow(c2s' \o out, sent, n, 1)
  BY <1>2, <1>9, <1>10, Zenon DEF First, k
<1>12. InHeader(trp', pbuf', s, 1)
  <2>1. IsTransport(trp') /\ trp'.state = 1 /\ trp'.len = 0 /\ trp'.rem_len = 0 /\ trp'.multiplier = 1
    BY <1>3, Zenon DEF IsTransport, Transport
  <2>2. 1 = 1 + 0 /\ 0 \in 0 .. Fixed(s) - 2
    BY <1>6
  <2>3. QED BY <1>11, <2>1, <2>2, NoDigits, Zenon DEF InHeader
<1>13. IsTransport(trp')
  BY <1>3, Zenon DEF IsTransport, Transport
<1> DEFINE one == 1
<1>14. Flow(c2s' \o out, sent, n, one) /\ InHeader(trp', pbuf', Serialize(sent[n + 1]), one)
  BY <1>11, <1>12, Zenon DEF s
<1> HIDE DEF one
<1>15. PeerMoves(n, one)
  BY <1>1, <1>2, <1>4, <1>11, <1>13, <1>14, Zenon DEF PeerMoves, n
<1>16. QED BY <1>15, ReqAdvance, Zenon

\* The next byte of a reader is digit j + 1 of the remaining length.
AtDigit(b, z, ps, n, m, s, j) ==
  Reads(b, z, ps, n, m) /\ b # <<>> /\ s = Serialize(ps[n + 1]) /\ j \in 0 .. Fixed(s) - 2 /\ m = 1 + j

\* A round of MQTTPacket_decodenb, or of decodePacket: the next digit, its value and its mark.
LEMMA LengthByte ==
  ASSUME NEW b, NEW z, NEW ps, NEW n, NEW m, NEW s, NEW j, AtDigit(b, z, ps, n, m, s, j)
  PROVE  /\ Wire(s) /\ Flow(Rest(b, 1) \o z, ps, n, m + 1) /\ Rest(b, 1) \in Seq(Byte)
         /\ m + 1 = Len(s) => Flow(Rest(b, 1) \o z, ps, n + 1, 0)
         /\ b[1] = s[j + 2]
         /\ PartValue(s, j) + (b[1] % Radix) * Multiplier(j) = PartValue(s, j + 1)
         /\ Multiplier(j) * Radix = Multiplier(j + 1) /\ j + 1 \in 1 .. 4
         /\ (More(b[1]) <=> j + 2 < Fixed(s))
<1>0. Reads(b, z, ps, n, m) /\ b # <<>> /\ s = Serialize(ps[n + 1]) /\ j \in 0 .. Fixed(s) - 2 /\ m = 1 + j
  BY Zenon DEF AtDigit
<1>1. Wire(s)
  <2>1. Flow(b \o z, ps, n, m) /\ n < Len(ps) /\ Len(ps) \in Nat
    BY <1>0, Zenon DEF Reads
  <2> DEFINE q == b \o z
  <2> HIDE DEF q
  <2>2. QED BY <1>0, <2>1, FlowWire, SMT DEF q
<1>2. Fixed(s) \in 2 .. 5 /\ Fixed(s) <= Len(s) /\ Len(s) \in Nat
  BY <1>1, WireShape, Zenon
<1>3. m < Len(s) /\ m + 1 = j + 2
  BY <1>0, <1>2
<1>4. /\ b[1] = s[m + 1] /\ Flow(Rest(b, 1) \o z, ps, n, m + 1) /\ Rest(b, 1) \in Seq(Byte)
      /\ m + 1 = Len(s) => Flow(Rest(b, 1) \o z, ps, n + 1, 0)
  BY <1>0, <1>3, ReadsByte, SMT
<1>5. /\ PartValue(s, j) + (s[j + 2] % Radix) * Multiplier(j) = PartValue(s, j + 1)
      /\ Multiplier(j) * Radix = Multiplier(j + 1) /\ j + 1 \in 1 .. 4
      /\ (More(s[j + 2]) <=> j + 2 < Fixed(s))
  BY <1>0, <1>1, DigitTaken, Zenon
<1>6. b[1] = s[j + 2]
  BY <1>3, <1>4, Zenon
<1>7. QED BY <1>1, <1>4, <1>5, <1>6, Zenon

\* The count, the value and the fixed header in a round of MQTTPacket_decodenb.
LengthIs(len, v, d) ==
  /\ len = trp.len + 1 /\ v = trp.rem_len + (c2s[1] % Radix) * trp.multiplier
  /\ d = First(pbuf, 1) \o MQTTPacket_encode(v) /\ len \in 1 .. 4 /\ v \in Nat /\ Len(d) \in Nat

\* The ways a round of MQTTPacket_decodenb ends: too many digits, too long for the buffer, another digit,
\* no body, or a body.
LEMMA PeerLengthIs ==
  ASSUME PeerLength, NEW len, NEW v, NEW d, LengthIs(len, v, d)
  PROVE  /\ More(c2s[1]) /\ len = 4 => PeerFails
         /\ ~ More(c2s[1]) /\ v + Len(d) > PeerBufSize => PeerFails
         /\ More(c2s[1]) /\ len # 4 =>
              /\ trp' = [trp EXCEPT !.len = len, !.rem_len = v, !.multiplier = @ * Radix]
              /\ UNCHANGED <<link, s2c, pbuf, pgot, answered, pushed>>
         /\ ~ More(c2s[1]) /\ v = 0 /\ ~ (v + Len(d) > PeerBufSize) => PeerGot(d)
         /\ ~ More(c2s[1]) /\ v # 0 /\ ~ (v + Len(d) > PeerBufSize) =>
              /\ trp' = [Fresh EXCEPT !.state = 2, !.len = Len(d), !.rem_len = v] /\ pbuf' = d
              /\ UNCHANGED <<link, s2c, pgot, answered, pushed>>
<1> DEFINE more == More(c2s[1])
           A == PeerFails
           B == /\ trp' = [trp EXCEPT !.len = len, !.rem_len = v, !.multiplier = @ * Radix]
                /\ UNCHANGED <<link, s2c, pbuf, pgot, answered, pushed>>
           C == PeerGot(d)
           D == /\ trp' = [Fresh EXCEPT !.state = 2, !.len = Len(d), !.rem_len = v] /\ pbuf' = d
                /\ UNCHANGED <<link, s2c, pgot, answered, pushed>>
           ld == Len(d)
<1>1. (CASE \/ more /\ len = MAX_NO_OF_REMAINING_LENGTH_BYTES
            \/ ~ more /\ v + ld > PeerBufSize -> A
        [] more /\ len < MAX_NO_OF_REMAINING_LENGTH_BYTES -> B
        [] ~ more /\ v = 0 /\ ld <= PeerBufSize -> C
        [] OTHER -> D)
  BY Zenon DEF PeerLength, LengthIs
<1>2. ld \in Nat /\ PeerBufSize \in Nat /\ len \in 1 .. 4 /\ v \in Nat
  BY SizesAssumption DEF LengthIs
<1> HIDE DEF more, A, B, C, D, ld
<1>3. /\ more /\ len = 4 => A
      /\ ~ more /\ v + ld > PeerBufSize => A
      /\ more /\ len # 4 => B
      /\ ~ more /\ v = 0 /\ ~ (v + ld > PeerBufSize) => C
      /\ ~ more /\ v # 0 /\ ~ (v + ld > PeerBufSize) => D
  BY <1>1, <1>2 DEF MAX_NO_OF_REMAINING_LENGTH_BYTES
<1>4. QED BY <1>3, Zenon DEF more, A, B, C, D, ld

\* The header byte alone.
LEMMA FirstOfFirst ==
  ASSUME NEW s \in Seq(Byte), Len(s) >= 1
  PROVE  First(First(s, 1), 1) = First(s, 1) /\ First(s, 1) = SubSeq(s, 1, 1) /\ Len(First(s, 1)) = 1
  BY DEF First

\* MQTTPacket_readnb writes the fixed header again with MQTTPacket_encode, as it was sent.
LEMMA HeaderLength ==
  ASSUME NEW s, Wire(s)
  PROVE  /\ First(s, 1) \o MQTTPacket_encode(Len(s) - Fixed(s)) = First(s, Fixed(s)) /\ Len(First(s, Fixed(s))) = Fixed(s)
         /\ First(s, Len(s)) = s
<1>1. s \in Seq(Byte) /\ Fixed(s) \in 2 .. 5 /\ Fixed(s) <= Len(s) /\ Len(s) \in Nat
  BY WireShape, Zenon
<1>2. Fixed(s) \in 0 .. Len(s)
  BY <1>1
<1>3. First(s, Len(s)) = s
  BY <1>1 DEF First
<1>4. QED BY <1>1, <1>2, <1>3, HeaderBack, Halves, Zenon DEF First

\* MQTTPacket_readnb in state 1: a digit of the remaining length.
LEMMA ReqPeerLength ==
  ASSUME ReqInv, PeerLength, s2c \in Seq(Byte), answered \in Seq(Sendable)
  PROVE  ReqInv' /\ (Grows \/ UNCHANGED <<s2c, answered>>)
<1> DEFINE n == Len(pgot)
           s == Serialize(sent[n + 1])
           j == trp.len
           x == c2s[1]
           v == trp.rem_len + (x % Radix) * trp.multiplier
           d == First(pbuf, 1) \o MQTTPacket_encode(v)
           len == j + 1
<1>1. trp.state = 1 /\ c2s # <<>> /\ link = "up" /\ c2s' = Rest(c2s, 1) /\ PeerFrame
  BY Zenon DEF PeerLength
<1>2. n < Len(sent) /\ \E i : Reads(c2s, out, sent, n, i) /\ InHeader(trp, pbuf, s, i)
  <2>1. trp.state # 0 /\ trp.state # 2
    BY <1>1
  <2>2. QED BY <1>1, <2>1, PeerPlace, Zenon DEF InBody
<1>3. PICK m : Reads(c2s, out, sent, n, m) /\ InHeader(trp, pbuf, s, m)
  BY <1>2, Zenon
<1>4. /\ m = 1 + j /\ j \in 0 .. Fixed(s) - 2
      /\ trp.rem_len = PartValue(s, j) /\ trp.multiplier = Multiplier(j) /\ pbuf = First(s, 1)
  BY <1>3, Zenon DEF InHeader
<1>s. s = Serialize(sent[n + 1]) /\ n = Len(pgot)
  OBVIOUS
<1> HIDE DEF n, s, j
<1>5. /\ Wire(s) /\ Flow(Rest(c2s, 1) \o out, sent, n, m + 1) /\ Rest(c2s, 1) \in Seq(Byte)
      /\ m + 1 = Len(s) => Flow(Rest(c2s, 1) \o out, sent, n + 1, 0)
      /\ PartValue(s, j) + (c2s[1] % Radix) * Multiplier(j) = PartValue(s, j + 1)
      /\ Multiplier(j) * Radix = Multiplier(j + 1) /\ j + 1 \in 1 .. 4
      /\ (More(c2s[1]) <=> j + 2 < Fixed(s))
  <2>1. AtDigit(c2s, out, sent, n, m, s, j)
    BY <1>1, <1>3, <1>4, <1>s, Zenon DEF AtDigit
  <2>2. QED BY <2>1, LengthByte, SMT
<1>6. /\ s \in Seq(Byte) /\ Len(s) \in Nat /\ Fixed(s) \in 2 .. 5 /\ Fixed(s) <= Len(s) /\ Len(s) - Fixed(s) \in Nat
      /\ PartValue(s, Fixed(s) - 1) = Len(s) - Fixed(s)
  BY <1>5, WireShape, Zenon
<1>7. v = PartValue(s, len)
  BY <1>4, <1>5, Zenon
<1>8. len \in 0 .. Fixed(s) - 1 /\ len \in 1 .. 4 /\ len = j + 1 /\ Len(s) >= 1 /\ j \in Nat
  <2> DEFINE f == Fixed(s)
             l == Len(s)
  <2>1. j \in 0 .. f - 2 /\ f \in 2 .. 5 /\ l \in Nat /\ f <= l
    BY <1>4, <1>6, Zenon
  <2> HIDE DEF f, l
  <2>2. j + 1 \in 0 .. f - 1 /\ j + 1 \in 1 .. 4 /\ l >= 1 /\ j \in Nat
    BY <2>1
  <2>3. QED BY <2>2, Zenon DEF f, l
<1>t. trp = Transport(1, j, trp.rem_len, trp.multiplier)
  BY <1>1, Zenon DEF ReqInv, PeerInv, IsTransport, j
<1>l. len = trp.len + 1
  BY Zenon DEF j
<1>d. d = First(s, 1) \o MQTTPacket_encode(v)
  BY <1>4, <1>6, <1>8, FirstOfFirst, Zenon
<1>9. v \in Nat /\ Len(d) \in Nat
  <2>1. v \in 0 .. Limit - 1 /\ v \in Nat
    <3>1. PartValue(s, len) \in 0 .. Limit - 1 /\ PartValue(s, len) \in Nat
      <4> HIDE DEF len
      <4>1. QED BY <1>5, <1>8, DigitsSoFar, SMT
    <3> HIDE DEF v, len
    <3>2. QED BY <1>7, <3>1, Zenon
  <2>2. MQTTPacket_encode(v) \in Seq(Byte) /\ First(s, 1) \in Seq(Byte)
    <3>1. 1 \in 0 .. Len(s)
      BY <1>6
    <3> HIDE DEF v
    <3>2. QED BY <1>6, <2>1, <3>1, EncodeDigits, Halves, Zenon
  <2> HIDE DEF v, d
  <2>3. QED BY <1>d, <2>1, <2>2, Concat
<1>v. /\ v = trp.rem_len + (c2s[1] % Radix) * trp.multiplier /\ d = First(pbuf, 1) \o MQTTPacket_encode(v)
  OBVIOUS
<1> HIDE DEF v, d, len
<1>10. /\ More(c2s[1]) /\ len = 4 => PeerFails
       /\ ~ More(c2s[1]) /\ v + Len(d) > PeerBufSize => PeerFails
       /\ More(c2s[1]) /\ len # 4 =>
            /\ trp' = [trp EXCEPT !.len = len, !.rem_len = v, !.multiplier = @ * Radix]
            /\ UNCHANGED <<link, s2c, pbuf, pgot, answered, pushed>>
       /\ ~ More(c2s[1]) /\ v = 0 /\ ~ (v + Len(d) > PeerBufSize) => PeerGot(d)
       /\ ~ More(c2s[1]) /\ v # 0 /\ ~ (v + Len(d) > PeerBufSize) =>
            /\ trp' = [Fresh EXCEPT !.state = 2, !.len = Len(d), !.rem_len = v] /\ pbuf' = d
            /\ UNCHANGED <<link, s2c, pgot, answered, pushed>>
  <2>1. LengthIs(len, v, d)
    BY <1>8, <1>9, <1>l, <1>v, Zenon DEF LengthIs
  <2>2. QED BY <2>1, PeerLengthIs, Zenon
<1>11. CASE PeerFails
  <2>1. link' = "cut" /\ trp' = Fresh /\ pbuf' = <<>> /\ UNCHANGED <<s2c, pgot, answered>>
    BY <1>11, Zenon DEF PeerFails
  <2>2. UNCHANGED <<client, sent, out>>
    BY <1>1, Zenon DEF PeerFrame, sendVars
  <2>3. QED BY <1>1, <1>5, <2>1, <2>2, ReqLost, Zenon
<1>12. CASE More(c2s[1]) /\ len # 4
  <2>1. trp' = [trp EXCEPT !.len = len, !.rem_len = v, !.multiplier = @ * Radix] /\ UNCHANGED <<link, s2c, pbuf, pgot, answered, pushed>>
    BY <1>10, <1>12, Zenon
  <2>2. trp' = Transport(1, len, v, trp.multiplier * Radix)
    <3> DEFINE r == trp.rem_len
               u == trp.multiplier
    <3>1. trp = Transport(1, j, r, u) /\ trp' = [trp EXCEPT !.len = len, !.rem_len = v, !.multiplier = @ * Radix]
      BY <1>t, <2>1, Zenon
    <3> HIDE DEF r, u
    <3>2. trp' = Transport(1, len, v, u * Radix)
      BY <3>1, Zenon DEF Transport
    <3>3. QED BY <3>2, Zenon DEF u
  <2>3. trp' = Transport(1, len, v, Multiplier(len))
    BY <2>2, <1>4, <1>5, <1>8, Zenon
  <2>4. IsTransport(trp') /\ trp'.state = 1 /\ trp'.len = len /\ trp'.rem_len = v /\ trp'.multiplier = Multiplier(len)
    <3> DEFINE u == Multiplier(len)
    <3> HIDE DEF u
    <3>1. trp' = Transport(1, len, v, u)
      BY <2>3, Zenon DEF u
    <3>2. IsTransport(trp') /\ trp'.state = 1 /\ trp'.len = len /\ trp'.rem_len = v /\ trp'.multiplier = u
      BY <3>1, Zenon DEF IsTransport, Transport
    <3>3. QED BY <3>2, Zenon DEF u
  <2>5. len \in 0 .. Fixed(s) - 2 /\ m + 1 = 1 + len
    BY <1>4, <1>5, <1>6, <1>8, <1>12
  <2>6. InHeader(trp', pbuf', s, m + 1)
    BY <1>4, <1>7, <2>1, <2>4, <2>5, Zenon DEF InHeader
  <2> DEFINE g == m + 1
  <2>7. Flow(c2s' \o out, sent, n, g) /\ InHeader(trp', pbuf', Serialize(sent[n + 1]), g) /\ c2s' \in Seq(Byte)
    BY <1>1, <1>5, <1>s, <2>6, Zenon
  <2> HIDE DEF g
  <2>8. n = Len(pgot) /\ UNCHANGED <<link, pgot>> /\ n < Len(sent)
    BY <1>2, <1>s, <2>1, Zenon
  <2>9. ReqInv'
    <3>1. PeerMoves(n, g)
      BY <1>1, <2>4, <2>7, <2>8, Zenon DEF PeerMoves
    <3>2. QED BY <3>1, ReqAdvance, Zenon
  <2>10. QED BY <2>1, <2>9, Zenon
<1>13. CASE ~ More(c2s[1]) /\ ~ (v + Len(d) > PeerBufSize)
  <2>1. len = Fixed(s) - 1 /\ m + 1 = Fixed(s)
    <3> DEFINE f == Fixed(s)
    <3>1. j \in 0 .. f - 2 /\ f \in 2 .. 5 /\ ~ (j + 2 < f) /\ m = 1 + j /\ len = j + 1
      BY <1>4, <1>5, <1>6, <1>8, <1>13, Zenon
    <3> HIDE DEF f
    <3>2. len = f - 1 /\ m + 1 = f
      BY <3>1
    <3>3. QED BY <3>2, Zenon DEF f
  <2>2. v = Len(s) - Fixed(s)
    BY <1>6, <1>7, <2>1, Zenon
  <2>3. d = First(s, Fixed(s)) /\ Len(d) = Fixed(s) /\ First(s, Len(s)) = s
    BY <1>5, <1>d, <2>2, HeaderLength, Zenon
  <2>4. c2s' \in Seq(Byte) /\ n = Len(pgot) /\ n < Len(sent)
    BY <1>1, <1>2, <1>5, <1>s, Zenon
  <2>5. CASE v = 0
    <3>1. PeerGot(d)
      BY <1>10, <1>13, <2>5, Zenon
    <3>2. Fixed(s) = Len(s)
      BY <1>6, <2>2, <2>5
    <3>3. d = Serialize(sent[n + 1])
      BY <2>3, <3>2, <1>s, Zenon
    <3>4. Flow(c2s' \o out, sent, n + 1, 0)
      BY <1>1, <1>5, <2>1, <3>2, Zenon
    <3>5. PeerCompletes(n, d)
      BY <1>1, <2>4, <3>1, <3>3, <3>4, Zenon DEF PeerCompletes
    <3>6. QED BY <3>5, ReqGot, Zenon
  <2>6. CASE v # 0
    <3>1. trp' = [Fresh EXCEPT !.state = 2, !.len = Len(d), !.rem_len = v] /\ pbuf' = d /\ UNCHANGED <<link, s2c, pgot, answered, pushed>>
      BY <1>10, <1>13, <2>6, Zenon
    <3> DEFINE f == Fixed(s)
    <3>2. trp' = [Fresh EXCEPT !.state = 2, !.len = f, !.rem_len = v]
      BY <2>3, <3>1, Zenon
    <3> HIDE DEF f
    <3>3. IsTransport(trp') /\ trp'.state = 2 /\ trp'.len = f /\ trp'.rem_len = v
      <4>1. trp' = Transport(2, f, v, 1)
        BY <3>2, Zenon DEF Fresh, Transport
      <4>2. QED BY <4>1, Zenon DEF IsTransport, Transport
    <3>4. f \in f .. Len(s) - 1 /\ v = Len(s) - f /\ Len(s) <= PeerBufSize
      <4>1. PeerBufSize \in Nat
        BY SizesAssumption
      <4>2. v + f <= PeerBufSize
        BY <1>9, <1>13, <2>3, <4>1 DEF f
      <4> DEFINE l == Len(s)
      <4>3. v = l - f /\ f \in 2 .. 5 /\ l \in Nat /\ l - f \in Nat /\ v # 0
        BY <1>6, <2>2, <2>6, Zenon DEF f
      <4> HIDE DEF l
      <4>4. f \in f .. l - 1 /\ l <= PeerBufSize
        BY <4>1, <4>2, <4>3
      <4>5. QED BY <4>3, <4>4, Zenon DEF l
    <3>5. InBody(trp', pbuf', s, f)
      BY <2>3, <3>1, <3>3, <3>4, Zenon DEF InBody, f
    <3>6. Flow(c2s' \o out, sent, n, f) /\ InBody(trp', pbuf', Serialize(sent[n + 1]), f)
      BY <1>1, <1>5, <1>s, <2>1, <3>5, Zenon DEF f
    <3>7. UNCHANGED <<link, pgot>>
      BY <3>1, Zenon
    <3>8. ReqInv'
      <4>1. PeerMoves(n, f)
        BY <1>1, <2>4, <3>3, <3>6, <3>7, Zenon DEF PeerMoves
      <4>2. QED BY <4>1, ReqAdvance, Zenon
    <3>9. QED BY <3>1, <3>8, Zenon
  <2>7. QED BY <2>5, <2>6
<1>14. QED BY <1>10, <1>11, <1>12, <1>13, Zenon

\* MQTTPacket_readnb in state 2: a piece of the body.
LEMMA ReqPeerBody ==
  ASSUME ReqInv, PeerBody, s2c \in Seq(Byte), answered \in Seq(Sendable)
  PROVE  ReqInv' /\ (Grows \/ UNCHANGED <<s2c, answered>>)
<1> DEFINE n == Len(pgot)
           s == Serialize(sent[n + 1])
           r == trp.rem_len
           k == Least(Len(c2s), r)
<1>1. trp.state = 2 /\ c2s # <<>> /\ link = "up" /\ PeerFrame /\ c2s' = Rest(c2s, k)
  BY Zenon DEF PeerBody
<1>2. IF k = r THEN PeerGot(pbuf \o First(c2s, k))
      ELSE /\ trp' = [trp EXCEPT !.rem_len = @ - k, !.len = @ + k]
           /\ pbuf' = pbuf \o First(c2s, k)
           /\ UNCHANGED <<link, s2c, pgot, answered, pushed>>
  BY Zenon DEF PeerBody
<1>3. n < Len(sent) /\ \E i : Reads(c2s, out, sent, n, i) /\ InBody(trp, pbuf, s, i)
  <2>1. trp.state # 0 /\ trp.state # 1
    BY <1>1
  <2>2. QED BY <1>1, <2>1, PeerPlace, Zenon DEF InHeader
<1>4. PICK m : Reads(c2s, out, sent, n, m) /\ InBody(trp, pbuf, s, m)
  BY <1>3, Zenon
<1>5. /\ m = trp.len /\ m \in Fixed(s) .. Len(s) - 1 /\ r = Len(s) - m /\ pbuf = First(s, m) /\ Len(s) <= PeerBufSize
  BY <1>4, Zenon DEF InBody
<1>s. s = Serialize(sent[n + 1]) /\ n = Len(pgot)
  OBVIOUS
<1> HIDE DEF n, s
<1>6. Wire(s)
  BY <1>4, <1>s, FlowWire, SMT DEF Reads
<1>7. s \in Seq(Byte) /\ Fixed(s) \in 2 .. 5 /\ Fixed(s) <= Len(s) /\ Len(s) \in Nat
  BY <1>6, WireShape, Zenon
<1>8. c2s \in Seq(Byte) /\ Len(c2s) \in Nat
  BY DEF ReqInv, SendInv
<1>t. trp = Transport(2, m, r, trp.multiplier)
  BY <1>1, <1>5, Zenon DEF ReqInv, PeerInv, IsTransport
<1> DEFINE f == Fixed(s)
           l == Len(s)
           b == Len(c2s)
<1>9. /\ m \in f .. l - 1 /\ r = l - m /\ f \in 2 .. 5 /\ l \in Nat /\ b \in Nat /\ k = Least(b, r)
  BY <1>5, <1>7, <1>8, Zenon
<1> HIDE DEF f, l, b, k, r
<1>10. k \in 0 .. b /\ m + k <= l /\ (k = r <=> m + k = l) /\ m \in Nat /\ k \in Nat
  BY <1>9 DEF Least
<1>11. Takes(c2s, out, sent, n, m, s, k)
  BY <1>4, <1>10, <1>s, Zenon DEF Takes, b, l
<1>12. /\ First(s, m) \o First(c2s, k) = First(s, m + k)
       /\ Flow(Rest(c2s, k) \o out, sent, n, m + k) /\ Rest(c2s, k) \in Seq(Byte)
       /\ m + k = Len(s) => First(s, m) \o First(c2s, k) = s /\ Flow(Rest(c2s, k) \o out, sent, n + 1, 0)
  BY <1>11, ReadsBytes, SMT
<1>13. c2s' \in Seq(Byte) /\ n = Len(pgot) /\ n < Len(sent)
  BY <1>1, <1>3, <1>12, <1>s, Zenon DEF n
<1>14. CASE k = r
  <2>1. pbuf \o First(c2s, k) = s /\ Flow(c2s' \o out, sent, n + 1, 0)
    BY <1>1, <1>5, <1>10, <1>12, <1>14, Zenon DEF l
  <2>2. PeerGot(s)
    BY <1>2, <1>14, <2>1, Zenon
  <2>3. s = Serialize(sent[n + 1])
    BY <1>s, Zenon
  <2>4. PeerCompletes(n, s)
    BY <1>1, <1>13, <2>1, <2>2, <2>3, Zenon DEF PeerCompletes
  <2>5. QED BY <2>4, ReqGot, Zenon
<1>15. CASE k # r
  <2>1. trp' = [trp EXCEPT !.rem_len = @ - k, !.len = @ + k] /\ pbuf' = pbuf \o First(c2s, k)
        /\ UNCHANGED <<link, s2c, pgot, answered, pushed>>
    BY <1>2, <1>15, Zenon
  <2> DEFINE u == trp.multiplier
             g == m + k
  <2>2. trp = Transport(2, m, r, u)
    BY <1>t, Zenon
  <2> HIDE DEF u
  <2>3. trp' = Transport(2, g, r - k, u)
    BY <2>1, <2>2, Zenon DEF Transport
  <2> HIDE DEF g
  <2>4. IsTransport(trp') /\ trp'.state = 2 /\ trp'.len = g /\ trp'.rem_len = r - k
    BY <2>3, Zenon DEF IsTransport, Transport
  <2>5. g \in f .. l - 1 /\ r - k = l - g
    <3>1. m \in f .. l - 1 /\ r = l - m /\ f \in Nat /\ l \in Nat /\ k \in Nat /\ m + k <= l /\ m + k # l
      BY <1>9, <1>10, <1>15
    <3>2. QED BY ONLY <3>1 DEF g
  <2>6. pbuf' = First(s, g) /\ Flow(c2s' \o out, sent, n, g)
    BY <1>1, <1>5, <1>12, <2>1, Zenon DEF g
  <2>7. InBody(trp', pbuf', s, g)
    BY <1>5, <2>4, <2>5, <2>6, Zenon DEF InBody, f, l
  <2>8. InBody(trp', pbuf', Serialize(sent[n + 1]), g) /\ UNCHANGED <<link, pgot>>
    BY <1>s, <2>1, <2>7, Zenon
  <2>9. ReqInv'
    <3>1. PeerMoves(n, g)
      BY <1>1, <1>13, <2>4, <2>6, <2>8, Zenon DEF PeerMoves
    <3>2. QED BY <3>1, ReqAdvance, Zenon
  <2>10. QED BY <2>1, <2>9, Zenon
<1>16. QED BY <1>14, <1>15

=============================================================================
