-------------------------- MODULE SocksServerProofs --------------------------
(***************************************************************************)
(* Proofs about SocksUdp and SocksServer.                                  *)
(***************************************************************************)
EXTENDS SocksServer, UdpConnsProofs

-----------------------------------------------------------------------------
(* The wire format.                                                        *)

\* A part of a sequence: its length and its elements.
LEMMA Part ==
    ASSUME NEW S, NEW s \in Seq(S), NEW m \in Nat, NEW n \in Nat, m + n <= Len(s)
    PROVE  /\ SubSeq(s, m + 1, m + n) \in Seq(S)
           /\ Len(SubSeq(s, m + 1, m + n)) = n
           /\ \A i \in 1 .. n : SubSeq(s, m + 1, m + n)[i] = s[m + i]
BY SMT

\* Two sequences with the same elements are the same.
LEMMA SameElements ==
    ASSUME NEW S, NEW s \in Seq(S), NEW t \in Seq(S), Len(s) = Len(t),
           \A i \in 1 .. Len(s) : s[i] = t[i]
    PROVE  s = t
BY SMT

\* A concatenation: its length and its elements.
LEMMA Joined ==
    ASSUME NEW s \in Seq(Bytes), NEW t \in Seq(Bytes)
    PROVE  /\ s \o t \in Seq(Bytes)
           /\ Len(s \o t) = Len(s) + Len(t)
           /\ \A i \in 1 .. Len(s) : (s \o t)[i] = s[i]
           /\ \A i \in 1 .. Len(t) : (s \o t)[Len(s) + i] = t[i]
BY SMT

\* The octets that a header is built with.
LEMMA Constants == 0 \in Bytes /\ 1 \in Bytes /\ 3 \in Bytes /\ 4 \in Bytes
BY DEF Bytes

\* What a datagram is made of: a prefix, the host, the port and the payload.
Assembled(p, q, host, port, payload) == p \o (q \o host) \o port \o payload

\* A sequence lies in a datagram behind m octets.
Holds(buf, m, s) ==
    m + Len(s) <= Len(buf) /\ \A i \in 1 .. Len(s) : buf[m + i] = s[i]

\* Where its parts lie, the host behind m octets.
LaidOut(buf, p, q, host, a, b, payload) ==
    LET m == Len(p) + Len(q)
        n == Len(host)
    IN  /\ buf \in Seq(Bytes)
        /\ Len(buf) = m + n + 2 + Len(payload)
        /\ \A i \in 1 .. Len(p) : buf[i] = p[i]
        /\ \A i \in 1 .. Len(q) : buf[Len(p) + i] = q[i]
        /\ Holds(buf, m, host)
        /\ buf[m + n + 1] = a
        /\ buf[m + n + 2] = b
        /\ Holds(buf, m + n + 2, payload)

\* A datagram put together from its parts has them where they belong.
LEMMA Layout ==
    ASSUME NEW p \in Seq(Bytes), NEW q \in Seq(Bytes), NEW host \in Seq(Bytes),
           NEW a \in Bytes, NEW b \in Bytes, NEW payload \in Seq(Bytes)
    PROVE  LaidOut(Assembled(p, q, host, <<a, b>>, payload), p, q, host, a, b, payload)
<1> DEFINE r == q \o host
           head == p \o r
           port == <<a, b>>
           filled == head \o port
           buf == filled \o payload
           m == Len(p) + Len(q)
           n == Len(host)
<1>0. /\ m = Len(p) + Len(q) /\ n = Len(host)
      /\ Len(p) \in Nat /\ Len(q) \in Nat /\ Len(host) \in Nat /\ Len(payload) \in Nat
      /\ m \in Nat /\ n \in Nat /\ m + n \in Nat /\ m + n + 2 \in Nat
  OBVIOUS
<1> HIDE DEF m, n, buf
<1>1. /\ r \in Seq(Bytes) /\ Len(r) = Len(q) + n
      /\ \A i \in 1 .. Len(q) : r[i] = q[i]
      /\ \A i \in 1 .. n : r[Len(q) + i] = host[i]
  BY <1>0, Joined
<1> HIDE DEF r
<1>2. /\ head \in Seq(Bytes) /\ Len(head) = m + n
      /\ \A i \in 1 .. Len(p) : head[i] = p[i]
      /\ \A i \in 1 .. Len(q) : head[Len(p) + i] = q[i]
      /\ \A i \in 1 .. n : head[m + i] = host[i]
  <2>1. /\ head \in Seq(Bytes) /\ Len(head) = Len(p) + Len(r)
        /\ \A i \in 1 .. Len(p) : head[i] = p[i]
        /\ \A i \in 1 .. Len(r) : head[Len(p) + i] = r[i]
    <3>1. r \in Seq(Bytes)
      BY <1>1
    <3> QED
      BY <3>1, Joined, Zenon
  <2> HIDE DEF head
  <2>2. \A i \in 1 .. Len(q) : i \in 1 .. Len(r) /\ head[Len(p) + i] = q[i]
    BY <1>0, <1>1, <2>1
  <2>3. \A i \in 1 .. n : /\ Len(q) + i \in 1 .. Len(r)
                          /\ Len(p) + (Len(q) + i) = m + i
    BY <1>0, <1>1
  <2>4. \A i \in 1 .. n : head[m + i] = host[i]
    BY <1>1, <2>1, <2>3
  <2>5. Len(head) = m + n
    BY <1>0, <1>1, <2>1
  <2>6. \A i \in 1 .. Len(q) : head[Len(p) + i] = q[i]
    BY <2>2
  <2> QED
    BY <2>1, <2>4, <2>5, <2>6, Zenon
<1> HIDE DEF head
<1>3. port \in Seq(Bytes) /\ Len(port) = 2 /\ port[1] = a /\ port[2] = b
  OBVIOUS
<1> HIDE DEF port
<1>4. /\ filled \in Seq(Bytes) /\ Len(filled) = m + n + 2
      /\ \A i \in 1 .. m + n : filled[i] = head[i]
      /\ filled[m + n + 1] = a /\ filled[m + n + 2] = b
  <2>1. head \in Seq(Bytes) /\ port \in Seq(Bytes)
    BY <1>2, <1>3, Zenon
  <2>2. /\ filled \in Seq(Bytes) /\ Len(filled) = Len(head) + Len(port)
        /\ \A i \in 1 .. Len(head) : filled[i] = head[i]
        /\ \A i \in 1 .. Len(port) : filled[Len(head) + i] = port[i]
    BY <2>1, Joined
  <2> HIDE DEF filled
  <2> QED
    BY <1>0, <1>2, <1>3, <2>2
<1> HIDE DEF filled
<1>5. /\ buf \in Seq(Bytes) /\ Len(buf) = m + n + 2 + Len(payload)
      /\ \A i \in 1 .. m + n + 2 : buf[i] = filled[i]
      /\ \A i \in 1 .. Len(payload) : buf[m + n + 2 + i] = payload[i]
  <2>0. filled \in Seq(Bytes)
    BY <1>4
  <2>1. /\ buf \in Seq(Bytes) /\ Len(buf) = Len(filled) + Len(payload)
        /\ \A i \in 1 .. Len(filled) : buf[i] = filled[i]
        /\ \A i \in 1 .. Len(payload) : buf[Len(filled) + i] = payload[i]
    BY <2>0, Joined DEF buf
  <2>3. Len(filled) = m + n + 2
    BY <1>4
  <2>4. Len(buf) = m + n + 2 + Len(payload)
    BY <2>1, <2>3
  <2>5. \A i \in 1 .. Len(payload) : buf[m + n + 2 + i] = payload[i]
    BY <2>1, <2>3, Zenon
  <2>6. \A i \in 1 .. m + n + 2 : buf[i] = filled[i]
    BY <2>1, <2>3, Zenon
  <2> QED
    BY <2>1, <2>4, <2>5, <2>6, Zenon
<1>6. ASSUME NEW i \in 1 .. m + n PROVE buf[i] = head[i]
  <2>1. i \in 1 .. m + n + 2
    BY <1>0
  <2> QED
    BY <1>4, <1>5, <2>1, Zenon
<1>7. /\ \A i \in 1 .. Len(p) : i \in 1 .. m + n
      /\ \A i \in 1 .. Len(q) : Len(p) + i \in 1 .. m + n
      /\ \A i \in 1 .. n : m + i \in 1 .. m + n
      /\ m + n + 1 \in 1 .. m + n + 2 /\ m + n + 2 \in 1 .. m + n + 2
  BY <1>0
<1>8. /\ \A i \in 1 .. Len(p) : buf[i] = p[i]
      /\ \A i \in 1 .. Len(q) : buf[Len(p) + i] = q[i]
      /\ \A i \in 1 .. n : buf[m + i] = host[i]
  BY <1>2, <1>6, <1>7, Zenon
<1>9. buf[m + n + 1] = a /\ buf[m + n + 2] = b
  BY <1>4, <1>5, <1>7, Zenon
<1>10. buf = Assembled(p, q, host, <<a, b>>, payload)
  BY Zenon DEF buf, filled, port, head, r, Assembled
<1>11. Holds(buf, m, host) /\ Holds(buf, m + n + 2, payload)
  <2>1. m + n <= Len(buf) /\ m + n + 2 + Len(payload) <= Len(buf)
    BY <1>0, <1>5
  <2> QED
    BY <1>0, <1>5, <1>8, <2>1, Zenon DEF Holds
<1> QED
  BY <1>0, <1>5, <1>8, <1>9, <1>10, <1>11, Zenon DEF LaidOut
-----------------------------------------------------------------------------
(* The parsers.                                                            *)

\* A part of a prefix is that part of the whole.
LEMMA PartOfPrefix ==
    ASSUME NEW buf \in Seq(Bytes), NEW k \in 0 .. Len(buf), NEW m \in Nat, NEW n \in Nat,
           m + n <= k
    PROVE  SubSeq(SubSeq(buf, 1, k), m + 1, m + n) = SubSeq(buf, m + 1, m + n)
<1> DEFINE h == SubSeq(buf, 1, k)
           s == SubSeq(h, m + 1, m + n)
           t == SubSeq(buf, m + 1, m + n)
<1>1. h \in Seq(Bytes) /\ Len(h) = k /\ \A i \in 1 .. k : h[i] = buf[i]
  BY SMT
<1> HIDE DEF h
<1>2. s \in Seq(Bytes) /\ Len(s) = n /\ \A i \in 1 .. n : s[i] = h[m + i]
  BY <1>1, Part
<1>3. t \in Seq(Bytes) /\ Len(t) = n /\ \A i \in 1 .. n : t[i] = buf[m + i]
  BY Part
<1> HIDE DEF s, t
<1>4. \A i \in 1 .. n : m + i \in 1 .. k
  OBVIOUS
<1>5. \A i \in 1 .. n : s[i] = t[i]
  BY <1>1, <1>2, <1>3, <1>4
<1>6. s = t
  BY <1>2, <1>3, <1>5, SameElements
<1> QED
  BY <1>6 DEF s, t, h

\* The octets of a prefix.
LEMMA Prefix ==
    ASSUME NEW buf \in Seq(Bytes), NEW k \in 0 .. Len(buf)
    PROVE  /\ SubSeq(buf, 1, k) \in Seq(Bytes)
           /\ Len(SubSeq(buf, 1, k)) = k
           /\ \A i \in 1 .. k : SubSeq(buf, 1, k)[i] = buf[i]
BY SMT

AddressKinds == {"v4", "v6"}

\* An address that fits is read with its port, and the payload is the rest.
LEMMA ReadsAddress ==
    ASSUME NEW kind \in AddressKinds, NEW buf \in Seq(Bytes), NEW n \in Nat,
           Len(buf) >= 4 + n + 2
    PROVE  Address(kind, buf, n) =
             [result |-> "ok",
              target |-> [kind |-> kind, host |-> SubSeq(buf, 4 + 1, 4 + n),
                          port |-> 256 * buf[4 + n + 1] + buf[4 + n + 2]],
              payload |-> SubSeq(buf, 4 + n + 2 + 1, Len(buf))]
<1>1. ~ (Len(buf) < 4 + n + 2) /\ ~ (4 + n + 2 > Len(buf)) /\ (4 + n + 1) + 1 = 4 + n + 2
  OBVIOUS
<1> QED
  BY <1>1, ZenonT(60) DEF Address, Decoded, Octets, At, From

\* So is a name.
LEMMA ReadsName ==
    ASSUME NEW buf \in Seq(Bytes), NEW n \in Nat, Len(buf) >= 5 + n + 2, buf[5] = n
    PROVE  Domain(buf) =
             [result |-> "ok",
              target |-> [kind |-> "name", host |-> from_utf8_lossy(SubSeq(buf, 5 + 1, 5 + n)),
                          port |-> 256 * buf[5 + n + 1] + buf[5 + n + 2]],
              payload |-> SubSeq(buf, 5 + n + 2 + 1, Len(buf))]
<1>1. /\ ~ (Len(buf) < 5) /\ ~ (Len(buf) < 5 + n + 2) /\ ~ (5 + n + 2 > Len(buf))
      /\ (5 + n + 1) + 1 = 5 + n + 2 /\ 4 + 1 = 5
  OBVIOUS
<1>2. At(buf, 4) = n
  BY <1>1 DEF At
<1>3. Domain(buf) = Decoded("name", from_utf8_lossy(Octets(buf, 5, n)), buf, 5, n)
  BY <1>1, <1>2, ZenonT(60) DEF Domain
<1> QED
  BY <1>1, <1>3, ZenonT(60) DEF Decoded, Octets, At, From

\* What the server's parser looks at first.
LEMMA ParserCases ==
    ASSUME NEW buf \in Seq(Bytes)
    PROVE  parse_socks_udp_header(buf) =
             IF Len(buf) < 4 \/ buf[3] # 0 THEN Malformed
             ELSE IF buf[4] = 1 THEN Address("v4", buf, V4Len)
             ELSE IF buf[4] = 4 THEN Address("v6", buf, V6Len)
             ELSE IF buf[4] = 3 THEN Domain(buf) ELSE Malformed
BY SMT DEF parse_socks_udp_header, At

\* A header of n octets for an address of k octets at the head of a datagram.
LEMMA HeaderOfAddress ==
    ASSUME NEW buf \in Seq(Bytes), NEW n \in Nat, n > 6, n <= Len(buf),
           NEW kind \in AddressKinds
    PROVE  Address(kind, buf, n - 6) =
             [result |-> "ok",
              target |-> [kind |-> kind, host |-> SubSeq(SubSeq(buf, 1, n), 5, n - 2),
                          port |-> 256 * SubSeq(buf, 1, n)[n - 1] + SubSeq(buf, 1, n)[n]],
              payload |-> SubSeq(buf, n + 1, Len(buf))]
<1> DEFINE h == SubSeq(buf, 1, n)
           k == n - 6
<1>0. n \in 0 .. Len(buf) /\ k \in Nat /\ n = 4 + k + 2
  OBVIOUS
<1> HIDE DEF k
<1>1. h \in Seq(Bytes) /\ Len(h) = n /\ \A i \in 1 .. n : h[i] = buf[i]
  BY <1>0, Prefix
<1> HIDE DEF h
<1>2. SubSeq(h, 5, n - 2) = SubSeq(buf, 4 + 1, 4 + k)
  <2>1. SubSeq(SubSeq(buf, 1, n), 4 + 1, 4 + k) = SubSeq(buf, 4 + 1, 4 + k)
    BY <1>0, PartOfPrefix
  <2>2. n - 2 = 4 + k /\ 4 + 1 = 5
    BY <1>0
  <2> QED
    BY <2>1, <2>2 DEF h
<1>3. h[n - 1] = buf[4 + k + 1] /\ h[n] = buf[4 + k + 2]
  <2>1. n - 1 = 4 + k + 1 /\ n = 4 + k + 2 /\ n - 1 \in 1 .. n /\ n \in 1 .. n
    BY <1>0
  <2> QED
    BY <1>1, <2>1, Zenon
<1>4. Len(buf) >= 4 + k + 2 /\ 4 + k + 2 + 1 = n + 1
  BY <1>0
<1>5. Address(kind, buf, k) =
        [result |-> "ok",
         target |-> [kind |-> kind, host |-> SubSeq(buf, 4 + 1, 4 + k),
                     port |-> 256 * buf[4 + k + 1] + buf[4 + k + 2]],
         payload |-> SubSeq(buf, 4 + k + 2 + 1, Len(buf))]
  BY <1>0, <1>4, ReadsAddress
<1> QED
  BY <1>2, <1>3, <1>4, <1>5, ZenonT(60) DEF h, k

\* The target in a header of n octets with a name.
Named(h, n, host, a, b) ==
    TargetOf(h) = [kind |-> "name", host |-> from_utf8_lossy(host), port |-> 256 * a + b]

LEMMA NameTarget ==
    ASSUME NEW h \in Seq(Bytes), h[4] = 3, NEW n, Len(h) = n, NEW host, NEW a, NEW b,
           SubSeq(h, 6, n - 2) = host, h[n - 1] = a, h[n] = b
    PROVE  Named(h, n, host, a, b)
<1>1. ~ (h[4] = 1) /\ ~ (h[4] = 4)
  OBVIOUS
<1> QED
  BY <1>1, Zenon DEF TargetOf, Named

\* The same for a name.
LEMMA HeaderOfName ==
    ASSUME NEW buf \in Seq(Bytes), NEW k \in Nat, NEW n, n = 5 + k + 2, n <= Len(buf),
           NEW h, h = SubSeq(buf, 1, n), h[4] = 3, h[5] = k
    PROVE  Domain(buf) =
             [result |-> "ok", target |-> TargetOf(h), payload |-> SubSeq(buf, n + 1, Len(buf))]
<1> DEFINE host == SubSeq(buf, 5 + 1, 5 + k)
           x == buf[5 + k + 1]
           y == buf[5 + k + 2]
<1>0. n \in 0 .. Len(buf) /\ n \in Nat /\ 5 \in 1 .. n
  OBVIOUS
<1>1. h \in Seq(Bytes) /\ Len(h) = n /\ \A i \in 1 .. n : h[i] = buf[i]
  BY <1>0, Prefix
<1>2. SubSeq(h, 6, n - 2) = host
  <2>1. SubSeq(SubSeq(buf, 1, n), 5 + 1, 5 + k) = host
    BY <1>0, PartOfPrefix
  <2>2. n - 2 = 5 + k /\ 5 + 1 = 6
    OBVIOUS
  <2> QED
    BY <2>1, <2>2
<1>3. h[n - 1] = x /\ h[n] = y /\ buf[5] = k
  <2>1. n - 1 = 5 + k + 1 /\ n - 1 \in 1 .. n /\ n \in 1 .. n
    BY <1>0
  <2> QED
    BY <1>0, <1>1, <2>1
<1>4. Domain(buf) =
        [result |-> "ok",
         target |-> [kind |-> "name", host |-> from_utf8_lossy(host), port |-> 256 * x + y],
         payload |-> SubSeq(buf, 5 + k + 2 + 1, Len(buf))]
  BY <1>3, ReadsName
<1> HIDE DEF host, x, y
<1>5. h \in Seq(Bytes) /\ Len(h) = n
  BY <1>1
<1>6. TargetOf(h) = [kind |-> "name", host |-> from_utf8_lossy(host), port |-> 256 * x + y]
  <2>1. Named(h, n, host, x, y)
    BY <1>2, <1>3, <1>5, NameTarget
  <2> QED
    BY <2>1, Zenon DEF Named
<1>7. 5 + k + 2 + 1 = n + 1
  OBVIOUS
<1> QED
  BY <1>4, <1>6, <1>7, Zenon

\* The server's parser finds what the datagram means, whatever its octets.
LEMMA ParserExact ==
    ASSUME NEW buf \in Seq(Bytes), NEW outcome, Means(buf, outcome)
    PROVE  parse_socks_udp_header(buf) = outcome
<1>0. Len(buf) \in Nat /\ \A i \in 1 .. Len(buf) : buf[i] \in Nat
  <2>1. \A i \in 1 .. Len(buf) : buf[i] \in Bytes
    OBVIOUS
  <2>2. \A b \in Bytes : b \in Nat
    BY DEF Bytes
  <2>3. Len(buf) \in Nat
    OBVIOUS
  <2> QED
    BY <2>1, <2>2, <2>3, Zenon
<1>1. ASSUME NEW n \in 0 .. Len(buf), IsHeader(SubSeq(buf, 1, n))
      PROVE  parse_socks_udp_header(buf) =
               [result |-> "ok", target |-> TargetOf(SubSeq(buf, 1, n)),
                payload |-> SubSeq(buf, n + 1, Len(buf))]
  <2> DEFINE h == SubSeq(buf, 1, n)
  <2>1. h \in Seq(Bytes) /\ Len(h) = n /\ \A i \in 1 .. n : h[i] = buf[i]
    BY Prefix
  <2>9. h = SubSeq(buf, 1, n) /\ IsHeader(h) /\ n \in Nat /\ n <= Len(buf)
    BY <1>0, <1>1
  <2> HIDE DEF h
  <2>2. n > 6
    BY <2>1, <2>9 DEF IsHeader
  <2>3. h[3] = buf[3] /\ h[4] = buf[4] /\ h[5] = buf[5]
    BY <2>1, <2>2
  <2>4. ~ (Len(buf) < 4) /\ buf[3] = 0
    BY <1>0, <2>2, <2>3, <2>9 DEF IsHeader
  <2>5. CASE buf[4] = 1 /\ n = 4 + V4Len + 2
    <3>1. parse_socks_udp_header(buf) = Address("v4", buf, V4Len)
      BY <2>4, <2>5, ParserCases
    <3>2. Address("v4", buf, V4Len) =
            [result |-> "ok",
             target |-> [kind |-> "v4", host |-> SubSeq(h, 5, n - 2),
                         port |-> 256 * h[n - 1] + h[n]],
             payload |-> SubSeq(buf, n + 1, Len(buf))]
      <4>1. V4Len = n - 6
        BY <2>5 DEF V4Len
      <4>2. Address("v4", buf, n - 6) =
              [result |-> "ok",
               target |-> [kind |-> "v4", host |-> SubSeq(SubSeq(buf, 1, n), 5, n - 2),
                           port |-> 256 * SubSeq(buf, 1, n)[n - 1] + SubSeq(buf, 1, n)[n]],
               payload |-> SubSeq(buf, n + 1, Len(buf))]
        <5>1. "v4" \in AddressKinds /\ n \in Nat /\ n > 6 /\ n <= Len(buf)
          BY <2>2, <2>9 DEF AddressKinds
        <5> QED
          BY <5>1, HeaderOfAddress, ZenonT(60)
      <4> QED
        BY <2>9, <4>1, <4>2, Zenon
    <3>3. h[4] = 1 /\ h[4] # 3
      <4>1. h[4] = 1
        BY <2>3, <2>5, Zenon
      <4>2. 1 # 3
        OBVIOUS
      <4> QED
        BY <4>1, <4>2, Zenon
    <3>4. TargetOf(h) = [kind |-> "v4", host |-> SubSeq(h, 5, n - 2),
                         port |-> 256 * h[n - 1] + h[n]]
      BY <2>1, <3>3, Zenon DEF TargetOf
    <3> QED
      BY <2>9, <3>1, <3>2, <3>4
  <2>6. CASE buf[4] = 4 /\ n = 4 + V6Len + 2
    <3>0. buf[4] # 1
      BY <2>6
    <3>1. parse_socks_udp_header(buf) = Address("v6", buf, V6Len)
      BY <2>4, <2>6, <3>0, ParserCases
    <3>2. Address("v6", buf, V6Len) =
            [result |-> "ok",
             target |-> [kind |-> "v6", host |-> SubSeq(h, 5, n - 2),
                         port |-> 256 * h[n - 1] + h[n]],
             payload |-> SubSeq(buf, n + 1, Len(buf))]
      <4>1. V6Len = n - 6
        BY <2>6 DEF V6Len
      <4>2. Address("v6", buf, n - 6) =
              [result |-> "ok",
               target |-> [kind |-> "v6", host |-> SubSeq(SubSeq(buf, 1, n), 5, n - 2),
                           port |-> 256 * SubSeq(buf, 1, n)[n - 1] + SubSeq(buf, 1, n)[n]],
               payload |-> SubSeq(buf, n + 1, Len(buf))]
        <5>1. "v6" \in AddressKinds /\ n \in Nat /\ n > 6 /\ n <= Len(buf)
          BY <2>2, <2>9 DEF AddressKinds
        <5> QED
          BY <5>1, HeaderOfAddress, ZenonT(60)
      <4> QED
        BY <2>9, <4>1, <4>2, Zenon
    <3>3. h[4] = 4 /\ h[4] # 1 /\ h[4] # 3
      <4>1. h[4] = 4
        BY <2>3, <2>6, Zenon
      <4>2. 4 # 1 /\ 4 # 3
        OBVIOUS
      <4> QED
        BY <4>1, <4>2, Zenon
    <3>4. TargetOf(h) = [kind |-> "v6", host |-> SubSeq(h, 5, n - 2),
                         port |-> 256 * h[n - 1] + h[n]]
      BY <2>1, <3>3, Zenon DEF TargetOf
    <3> QED
      BY <2>9, <3>1, <3>2, <3>4
  <2>7. CASE buf[4] = 3 /\ n = 5 + buf[5] + 2
    <3>1. parse_socks_udp_header(buf) = Domain(buf)
      BY <2>4, <2>7, ParserCases
    <3>2. buf[5] \in Nat /\ h[4] = 3 /\ h[5] = buf[5]
      BY <1>0, <2>2, <2>3, <2>7
    <3>3. Domain(buf) = [result |-> "ok", target |-> TargetOf(h),
                         payload |-> SubSeq(buf, n + 1, Len(buf))]
      BY <2>7, <2>9, <3>2, HeaderOfName
    <3> QED
      BY <2>9, <3>1, <3>3
  <2>8. \/ buf[4] = 1 /\ n = 4 + V4Len + 2
        \/ buf[4] = 4 /\ n = 4 + V6Len + 2
        \/ buf[4] = 3 /\ n = 5 + buf[5] + 2
    BY <2>1, <2>3, <2>9 DEF IsHeader
  <2> QED
    BY <2>5, <2>6, <2>7, <2>8
<1>2. ASSUME \A n \in 0 .. Len(buf) : ~ IsHeader(SubSeq(buf, 1, n))
      PROVE  parse_socks_udp_header(buf) = Malformed
  <2>0. ASSUME NEW n \in Nat, n > 6, n <= Len(buf), buf[3] = 0,
               \/ buf[4] = 1 /\ n = 4 + V4Len + 2
               \/ buf[4] = 4 /\ n = 4 + V6Len + 2
               \/ buf[4] = 3 /\ n = 5 + buf[5] + 2
        PROVE  FALSE
    <3> DEFINE h == SubSeq(buf, 1, n)
    <3>1. n \in 0 .. Len(buf) /\ 3 \in 1 .. n /\ 4 \in 1 .. n /\ 5 \in 1 .. n
      BY <1>0, <2>0
    <3>2. Len(h) = n /\ \A i \in 1 .. n : h[i] = buf[i]
      BY <3>1, Prefix
    <3> HIDE DEF h
    <3>3. IsHeader(h)
      BY <2>0, <3>1, <3>2 DEF IsHeader
    <3> QED
      BY <1>2, <3>1, <3>3 DEF h
  <2>1. CASE Len(buf) < 4 \/ buf[3] # 0
    BY <2>1, ParserCases
  <2>2. CASE Len(buf) >= 4 /\ buf[3] = 0 /\ buf[4] = 1
    <3>1. Len(buf) < 4 + V4Len + 2
      BY <1>0, <2>0, <2>2 DEF V4Len
    <3>2. Address("v4", buf, V4Len) = Malformed
      BY <3>1 DEF Address
    <3> QED
      BY <1>0, <2>2, <3>2, ParserCases
  <2>3. CASE Len(buf) >= 4 /\ buf[3] = 0 /\ buf[4] = 4
    <3>1. Len(buf) < 4 + V6Len + 2
      BY <1>0, <2>0, <2>3 DEF V6Len
    <3>2. Address("v6", buf, V6Len) = Malformed
      BY <3>1 DEF Address
    <3> QED
      BY <1>0, <2>3, <3>2, ParserCases
  <2>4. CASE Len(buf) >= 4 /\ buf[3] = 0 /\ buf[4] = 3
    <3>1. Len(buf) < 5 \/ Len(buf) < 5 + buf[5] + 2
      BY <1>0, <2>0, <2>4
    <3>2. Domain(buf) = Malformed
      BY <3>1 DEF Domain, At
    <3> QED
      BY <1>0, <2>4, <3>2, ParserCases
  <2>5. CASE Len(buf) >= 4 /\ buf[3] = 0 /\ buf[4] \notin {1, 3, 4}
    BY <1>0, <2>5, ParserCases
  <2> QED
    BY <1>0, <2>1, <2>2, <2>3, <2>4, <2>5
<1>3. CASE \A n \in 0 .. Len(buf) : ~ IsHeader(SubSeq(buf, 1, n))
  BY <1>2, <1>3, Zenon DEF Means
<1>4. CASE \E n \in 0 .. Len(buf) : IsHeader(SubSeq(buf, 1, n))
  <2>1. PICK n \in 0 .. Len(buf) :
          /\ IsHeader(SubSeq(buf, 1, n))
          /\ outcome = [result |-> "ok", target |-> TargetOf(SubSeq(buf, 1, n)),
                        payload |-> SubSeq(buf, n + 1, Len(buf))]
    BY <1>4, Zenon DEF Means
  <2> QED
    BY <1>1, <2>1, Zenon
<1> QED
  BY <1>3, <1>4

-----------------------------------------------------------------------------
(* Wrapped replies.                                                        *)

\* The two octets of a port, as they are sent and as they are read.
LEMMA PortOctets ==
    ASSUME NEW port \in Ports
    PROVE  /\ port \div 256 \in Bytes /\ port % 256 \in Bytes
           /\ 256 * (port \div 256) + (port % 256) = port
<1>1. port \in Nat /\ port < 65536
  BY DEF Ports
<1>2. port \div 256 \in Nat /\ port \div 256 <= 255
  BY <1>1
<1>3. port % 256 \in Nat /\ port % 256 <= 255
  BY <1>1
<1>4. 256 * (port \div 256) + (port % 256) = port
  BY <1>1
<1>5. \A i \in Nat : i <= 255 => i \in Bytes
  BY DEF Bytes
<1> QED
  BY <1>2, <1>3, <1>4, <1>5

\* A sequence whose elements lie in another from an offset on is a part of it.
LEMMA Found ==
    ASSUME NEW buf \in Seq(Bytes), NEW s \in Seq(Bytes), NEW m \in Nat,
           Holds(buf, m, s)
    PROVE  SubSeq(buf, m + 1, m + Len(s)) = s
<1> DEFINE n == Len(s)
           t == SubSeq(buf, m + 1, m + n)
<1>1. n \in Nat /\ m + n <= Len(buf)
  BY DEF Holds
<1> HIDE DEF n
<1>2. t \in Seq(Bytes) /\ Len(t) = n /\ \A i \in 1 .. n : t[i] = buf[m + i]
  BY <1>1, Part
<1> HIDE DEF t
<1>3. \A i \in 1 .. n : t[i] = s[i]
  BY <1>2, Zenon DEF n, Holds
<1>4. t = s
  BY <1>2, <1>3, SameElements DEF n
<1> QED
  BY <1>4 DEF t, n

\* What a parser returns for a complete datagram.
Whole(kind, host, port, payload) ==
    [result |-> "ok", target |-> [kind |-> kind, host |-> host, port |-> port],
     payload |-> payload]

\* An address that lies in a datagram, followed by its port and the payload, is read.
LEMMA AddressInPlace ==
    ASSUME NEW p \in Seq(Bytes), NEW q \in Seq(Bytes), NEW host \in Seq(Bytes),
           NEW a \in Bytes, NEW b \in Bytes, NEW payload \in Seq(Bytes),
           NEW buf \in Seq(Bytes), LaidOut(buf, p, q, host, a, b, payload),
           Len(p) + Len(q) = 4, NEW kind \in AddressKinds
    PROVE  Address(kind, buf, Len(host)) = Whole(kind, host, 256 * a + b, payload)
<1> DEFINE n == Len(host)
<1>0. /\ n \in Nat /\ n = Len(host) /\ Len(buf) = 4 + n + 2 + Len(payload)
      /\ Holds(buf, 4, host) /\ Holds(buf, 4 + n + 2, payload)
      /\ buf[4 + n + 1] = a /\ buf[4 + n + 2] = b
  <2>1. n \in Nat
    OBVIOUS
  <2> QED
    BY <2>1, Zenon DEF LaidOut
<1> HIDE DEF n
<1>1. /\ SubSeq(buf, 4 + 1, 4 + n) = host
      /\ SubSeq(buf, 4 + n + 2 + 1, Len(buf)) = payload
  <2>1. 4 \in Nat /\ 4 + n + 2 \in Nat
    BY <1>0
  <2>2. SubSeq(buf, 4 + 1, 4 + Len(host)) = host
    BY <1>0, <2>1, Found, Zenon
  <2>3. SubSeq(buf, 4 + n + 2 + 1, 4 + n + 2 + Len(payload)) = payload
    BY <1>0, <2>1, Found, Zenon
  <2> QED
    BY <1>0, <2>2, <2>3, Zenon
<1>2. Len(buf) >= 4 + n + 2
  BY <1>0
<1>3. Address(kind, buf, n) =
        [result |-> "ok",
         target |-> [kind |-> kind, host |-> SubSeq(buf, 4 + 1, 4 + n),
                     port |-> 256 * buf[4 + n + 1] + buf[4 + n + 2]],
         payload |-> SubSeq(buf, 4 + n + 2 + 1, Len(buf))]
  <2>1. n \in Nat
    BY <1>0
  <2> QED
    BY <1>2, <2>1, ReadsAddress
<1> QED
  BY <1>0, <1>1, <1>3, ZenonT(60) DEF Whole

\* An address put behind its type is read back by both parsers, with its port and
\* the payload.
LEMMA AddressReadBack ==
    ASSUME NEW type \in Bytes, NEW host \in Seq(Bytes), NEW kind \in AddressKinds,
           NEW port \in Ports, NEW payload \in Seq(Bytes), NEW buf,
           buf = Assembled(<<0, 0, 0>>, <<type>>, host, be_bytes(port), payload)
    PROVE  /\ buf \in Seq(Bytes) /\ Len(buf) >= 4
           /\ buf[1] = 0 /\ buf[2] = 0 /\ buf[3] = 0 /\ buf[4] = type
           /\ Address(kind, buf, Len(host)) = Whole(kind, host, port, payload)
<1> DEFINE n == Len(host)
           a == port \div 256
           b == port % 256
           p == <<0, 0, 0>>
           q == <<type>>
<1>0. n \in Nat /\ n = Len(host) /\ Len(payload) \in Nat
  OBVIOUS
<1>1. /\ p \in Seq(Bytes) /\ Len(p) = 3 /\ p[1] = 0 /\ p[2] = 0 /\ p[3] = 0
      /\ q \in Seq(Bytes) /\ Len(q) = 1 /\ q[1] = type
  <2>1. 0 \in Bytes
    BY Constants, Zenon
  <2> QED
    BY <2>1
<1>2. a \in Bytes /\ b \in Bytes /\ 256 * a + b = port
  BY PortOctets
<1>3. buf = Assembled(p, q, host, <<a, b>>, payload)
  BY DEF be_bytes
<1> HIDE DEF n, a, b, p, q
<1>4. LaidOut(buf, p, q, host, a, b, payload)
  BY <1>1, <1>2, <1>3, Layout
<1>5. /\ buf \in Seq(Bytes)
      /\ Len(buf) = 4 + n + 2 + Len(payload)
      /\ \A i \in 1 .. Len(p) : buf[i] = p[i]
      /\ \A i \in 1 .. Len(q) : buf[Len(p) + i] = q[i]
  <2>1. 4 = Len(p) + Len(q)
    BY <1>1
  <2> QED
    BY <1>0, <1>4, <2>1, Zenon DEF LaidOut
<1>6. Address(kind, buf, Len(host)) = Whole(kind, host, 256 * a + b, payload)
  <2>1. p \in Seq(Bytes) /\ q \in Seq(Bytes) /\ Len(p) + Len(q) = 4
    BY <1>1
  <2>2. a \in Bytes /\ b \in Bytes /\ buf \in Seq(Bytes)
    BY <1>2, <1>5
  <2> QED
    BY <1>4, <2>1, <2>2, AddressInPlace
<1>7. buf[1] = 0 /\ buf[2] = 0 /\ buf[3] = 0 /\ buf[4] = type /\ Len(buf) >= 4
  BY <1>0, <1>1, <1>5
<1> QED
  BY <1>2, <1>5, <1>6, <1>7, Zenon

\* A name behind its length is read back, with its port and the payload.
LEMMA NameReadBack ==
    ASSUME NEW host \in Seq(Bytes), Len(host) \in Bytes,
           NEW port \in Ports, NEW payload \in Seq(Bytes), NEW buf,
           buf = Assembled(<<0, 0, 0>>, <<3, Len(host)>>, host, be_bytes(port), payload)
    PROVE  /\ buf \in Seq(Bytes) /\ Len(buf) >= 4 /\ buf[3] = 0 /\ buf[4] = 3
           /\ Domain(buf) = Whole("name", from_utf8_lossy(host), port, payload)
<1> DEFINE n == Len(host)
           a == port \div 256
           b == port % 256
           p == <<0, 0, 0>>
           q == <<3, n>>
<1>0. n \in Nat /\ n = Len(host) /\ Len(payload) \in Nat /\ n \in Bytes
  OBVIOUS
<1> HIDE DEF n
<1>1. /\ p \in Seq(Bytes) /\ Len(p) = 3 /\ p[1] = 0 /\ p[2] = 0 /\ p[3] = 0
      /\ q \in Seq(Bytes) /\ Len(q) = 2 /\ q[1] = 3 /\ q[2] = n
  <2>1. 0 \in Bytes /\ 3 \in Bytes
    BY Constants, Zenon
  <2> QED
    BY <1>0, <2>1
<1>2. a \in Bytes /\ b \in Bytes /\ 256 * a + b = port
  BY PortOctets
<1>3. buf = Assembled(p, q, host, <<a, b>>, payload)
  BY DEF be_bytes, n
<1> HIDE DEF a, b, p, q
<1>4. LaidOut(buf, p, q, host, a, b, payload)
  BY <1>1, <1>2, <1>3, Layout
<1>5. /\ buf \in Seq(Bytes)
      /\ Len(buf) = 5 + n + 2 + Len(payload)
      /\ \A i \in 1 .. Len(p) : buf[i] = p[i]
      /\ \A i \in 1 .. Len(q) : buf[Len(p) + i] = q[i]
      /\ Holds(buf, 5, host) /\ Holds(buf, 5 + n + 2, payload)
      /\ buf[5 + n + 1] = a /\ buf[5 + n + 2] = b
  <2>1. 5 = Len(p) + Len(q)
    BY <1>1
  <2> QED
    BY <1>0, <1>4, <2>1, Zenon DEF LaidOut
<1>6. /\ buf[3] = 0 /\ buf[4] = 3 /\ buf[5] = n
      /\ Len(buf) >= 4 /\ Len(buf) >= 5 + n + 2
      /\ 5 \in Nat /\ 5 + n + 2 \in Nat
  BY <1>0, <1>1, <1>5
<1>7. /\ SubSeq(buf, 5 + 1, 5 + n) = host
      /\ SubSeq(buf, 5 + n + 2 + 1, Len(buf)) = payload
  <2>1. SubSeq(buf, 5 + 1, 5 + Len(host)) = host
    BY <1>5, <1>6, Found, Zenon
  <2>2. SubSeq(buf, 5 + n + 2 + 1, 5 + n + 2 + Len(payload)) = payload
    BY <1>5, <1>6, Found, Zenon
  <2> QED
    BY <1>0, <1>5, <2>1, <2>2, Zenon
<1>8. Domain(buf) =
        [result |-> "ok",
         target |-> [kind |-> "name", host |-> from_utf8_lossy(SubSeq(buf, 5 + 1, 5 + n)),
                     port |-> 256 * buf[5 + n + 1] + buf[5 + n + 2]],
         payload |-> SubSeq(buf, 5 + n + 2 + 1, Len(buf))]
  BY <1>0, <1>5, <1>6, ReadsName, ZenonT(60)
<1>9. Domain(buf) = Whole("name", from_utf8_lossy(host), port, payload)
  <2>1. 256 * buf[5 + n + 1] + buf[5 + n + 2] = port
    BY <1>2, <1>5, ZenonT(60)
  <2> QED
    BY <1>7, <1>8, <2>1, ZenonT(60) DEF Whole
<1> QED
  BY <1>5, <1>6, <1>9, Zenon

\* A reply from an address, as it is assembled and as both parsers read it.
LEMMA AddressReplyIntact ==
    ASSUME NEW target \in Targets, target.kind \in AddressKinds, NEW payload \in Seq(Bytes),
           NEW buf, buf = wrap_socks_udp_reply(target, payload)
    PROVE  LET whole == [result |-> "ok", target |-> target, payload |-> payload]
           IN  /\ parse_socks_udp_header(buf) = whole
               /\ unwrap_socks5_udp_in_place(buf) = whole
<1> DEFINE kind == target.kind
           host == target.host
           port == target.port
           len == IF kind = "v4" THEN V4Len ELSE V6Len
           type == IF kind = "v4" THEN 1 ELSE 4
<1>1. /\ host \in [1 .. len -> Bytes] /\ port \in Ports
      /\ target = [kind |-> kind, host |-> host, port |-> port]
  BY DEF Targets, AddressKinds
<1>2. len \in Nat /\ type \in Bytes /\ type \in {1, 4}
  BY DEF V4Len, V6Len, Bytes
<1>3. buf = Assembled(<<0, 0, 0>>, <<type>>, host, be_bytes(port), payload)
  <2>1. CASE kind = "v4"
    BY <2>1, Zenon DEF wrap_socks_udp_reply, Assembled
  <2>2. CASE kind = "v6"
    BY <2>2 DEF wrap_socks_udp_reply, Assembled
  <2> QED
    BY <2>1, <2>2 DEF AddressKinds
<1>4. host \in Seq(Bytes) /\ Len(host) = len
  BY <1>1, <1>2
<1> HIDE DEF host, port, len, type
<1>5. /\ buf \in Seq(Bytes) /\ Len(buf) >= 4
      /\ buf[1] = 0 /\ buf[2] = 0 /\ buf[3] = 0 /\ buf[4] = type
      /\ Address(kind, buf, Len(host)) = Whole(kind, host, port, payload)
  BY <1>1, <1>2, <1>3, <1>4, AddressReadBack
<1>6. Whole(kind, host, port, payload) = [result |-> "ok", target |-> target, payload |-> payload]
  BY <1>1, Zenon DEF Whole
<1>7. /\ parse_socks_udp_header(buf) = Address(kind, buf, len)
      /\ unwrap_socks5_udp_in_place(buf) = Address(kind, buf, len)
  <2>0. ~ (Len(buf) < 4) /\ At(buf, 0) = 0 /\ At(buf, 1) = 0 /\ At(buf, 2) = 0 /\ At(buf, 3) = type
    BY <1>5 DEF At
  <2>1. CASE kind = "v4"
    <3>1. At(buf, 3) = 1 /\ len = V4Len
      BY <2>0, <2>1 DEF type, len
    <3> QED
      BY <2>0, <2>1, <3>1 DEF parse_socks_udp_header, unwrap_socks5_udp_in_place
  <2>2. CASE kind = "v6"
    <3>1. At(buf, 3) = 4 /\ At(buf, 3) # 1 /\ len = V6Len
      BY <2>0, <2>2 DEF type, len
    <3> QED
      BY <2>0, <2>2, <3>1 DEF parse_socks_udp_header, unwrap_socks5_udp_in_place
  <2> QED
    BY <2>1, <2>2 DEF AddressKinds
<1> QED
  BY <1>4, <1>5, <1>6, <1>7, Zenon

\* A reply from a name keeps its port and its payload, although the name is cut.
LEMMA NameReplyIntact ==
    ASSUME NEW target \in Targets, target.kind = "name", NEW payload \in Seq(Bytes),
           NEW buf, buf = wrap_socks_udp_reply(target, payload)
    PROVE  \E name : parse_socks_udp_header(buf) = Whole("name", name, target.port, payload)
<1> DEFINE port == target.port
           n == IF Len(target.host) < MaxName THEN Len(target.host) ELSE MaxName
           host == SubSeq(target.host, 1, n)
<1>1. target.host \in Seq(Bytes) /\ port \in Ports
  BY DEF Targets
<1>2. MaxName \in Nat /\ Len(target.host) \in Nat /\ MaxName \in Bytes
  BY <1>1, MaxNameAssumption DEF Bytes
<1>3. n \in 0 .. Len(target.host) /\ n \in Bytes
  <2>1. n \in Nat /\ n <= Len(target.host) /\ n <= MaxName
    BY <1>2
  <2>2. \A i \in Nat : i <= MaxName => i \in Bytes
    BY MaxNameAssumption DEF Bytes
  <2> QED
    BY <1>2, <2>1, <2>2
<1>4. buf = Assembled(<<0, 0, 0>>, <<3, n>>, host, be_bytes(port), payload)
  BY DEF wrap_socks_udp_reply, Assembled
<1> HIDE DEF n
<1>5. host \in Seq(Bytes) /\ Len(host) = n
  BY <1>1, <1>3, Prefix
<1> HIDE DEF host, port
<1>6. /\ buf \in Seq(Bytes) /\ Len(buf) >= 4 /\ buf[3] = 0 /\ buf[4] = 3
      /\ Domain(buf) = Whole("name", from_utf8_lossy(host), port, payload)
  BY <1>1, <1>3, <1>4, <1>5, NameReadBack
<1>7. parse_socks_udp_header(buf) = Domain(buf)
  BY <1>6, ParserCases
<1> QED
  BY <1>6, <1>7, Zenon DEF port

-----------------------------------------------------------------------------
(* The inductive invariants.                                               *)

\* A key has been wanted before anything is done for it: it is in the hands of the
\* loop, it has a conn, a reply comes back for it.
Attributed ==
    /\ datagrams \in Traffic
    /\ wanted \subseteq Keys
    /\ wire # Nothing =>
         /\ wire \in datagrams
         /\ wire.means.result = "ok" => <<wire.from, wire.means.target>> \in wanted
    /\ loop.at \notin {"recv", "aborted"} => loop.key \in wanted
    /\ \A c \in Conns : stage[c] # "unused" => key[c] \in wanted
    /\ back # Nothing =>
         /\ <<back.to, back.target>> \in wanted
         /\ back.payload = Payload
         /\ back.bytes = wrap_socks_udp_reply(back.target, back.payload)

\* What the client has been told when the connection's task is at a point.
Tellings(point) ==
    LET outcomes(rs) == {<<"no_authentication", r>> : r \in rs} IN
    CASE point = "greeting" -> {<<>>}
      [] point \in {"request", "connect", "opening", "associate", "bound"} ->
             {<<"no_authentication">>}
      [] point = "relaying" -> outcomes({"granted"})
      [] point = "associated" -> outcomes({"bound"})
      [] point = "closed" -> {<<>>, <<"no_authentication">>} \cup
                             outcomes({"no_address_type", "no_command", "granted", "bound"})

Points == {"greeting", "request", "connect", "opening", "associate", "bound",
           "relaying", "associated", "closed"}

\* The replies, and what they vouch for.
Vouched ==
    /\ at \in Points
    /\ told \in Tellings(at)
    /\ told # <<>> => request.version = 5
    /\ at \in {"connect", "opening"} => request.cmd = 1
    /\ at \in {"associate", "bound"} => request.cmd = 3
    /\ at = "bound" => opened = "bound"
    /\ Told("granted") => opened = "accepted" /\ request.cmd = 1
    /\ Told("bound") => opened = "bound" /\ request.cmd = 3
    /\ \/ loop.at # "recv"
       \/ \E c \in Conns : stage[c] # "unused"
       \/ wire # Nothing \/ back # Nothing
       => Told("bound")

\* What the parser finds in a datagram that arrived is a key.
LEMMA ParsedKey ==
    ASSUME Attributed, wire # Nothing
    PROVE  /\ parse_socks_udp_header(wire.bytes) = wire.means
           /\ wire.means.result = "ok" =>
                /\ <<wire.from, wire.means.target>> \in Keys
                /\ <<wire.from, wire.means.target>> \in wanted
<1>1. wire \in datagrams /\ datagrams \in Traffic
  BY DEF Attributed
<1>2. /\ wire.bytes \in Seq(Bytes)
      /\ Means(wire.bytes, wire.means)
      /\ wire.means.result = "ok" => <<wire.from, wire.means.target>> \in Keys
  BY <1>1, TrafficAssumption, Zenon
<1>3. parse_socks_udp_header(wire.bytes) = wire.means
  BY <1>2, ParserExact
<1> QED
  BY <1>2, <1>3, Zenon DEF Attributed

\* A step of the connection, its relay or its conns is a step of the listener and
\* its conns, or leaves them alone.
LEMMA StepImplements ==
    ASSUME Attributed, [SocksNext]_allVars
    PROVE  [Next]_vars
<1>1. CASE UNCHANGED vars
  BY <1>1
<1>2. CASE Abort
  BY <1>2, Zenon DEF Abort, Next
<1>3. CASE Received
  <2> DEFINE parsed == parse_socks_udp_header(wire.bytes)
  <2>1. CASE parsed.result = "ok" /\ Receive(<<wire.from, parsed.target>>)
    <3>1. wire # Nothing
      BY <1>3, Zenon DEF Received
    <3>2. <<wire.from, parsed.target>> \in Keys
      BY <2>1, <3>1, ParsedKey, Zenon
    <3> QED
      BY <2>1, <3>2, Zenon DEF Next, Listener
  <2> QED
    BY <1>1, <1>3, <2>1, Zenon DEF Received
<1>4. CASE ConnStep
  BY <1>4, Zenon DEF ConnStep, Next, Listener, FarEnd
<1>5. ASSUME NEW c \in Conns, SocksReply(c, Payload) PROVE [Next]_vars
  BY <1>5, Zenon DEF SocksReply, Next, FarEnd
<1>6. CASE Handshake
  BY <1>1, <1>6, Zenon
  DEF Handshake, Greeting, Request, OpenStream, Answered, BindRelay, Associate
<1>7. CASE RelayEnds \/ ControlEnds \/ Delivered \/ ClientLeaves \/ \E d \in datagrams : Arrive(d)
  BY <1>1, <1>7, Zenon DEF RelayEnds, ControlEnds, Delivered, ClientLeaves, Arrive
<1>8. CASE UNCHANGED allVars
  BY <1>1, <1>8, Zenon DEF allVars
<1> QED
  BY <1>2, <1>3, <1>4, <1>5, <1>6, <1>7, <1>8, Zenon DEF SocksNext

\* A step of the loop or of a conn is taken for a key that was wanted (ConnStep).
LEMMA ConnStepAttributed ==
    ASSUME IInv, Attributed, ConnStep
    PROVE  Attributed'
<1>0. /\ UNCHANGED <<datagrams, wanted, wire, back>>
      /\ stage \in [Conns -> Stages] /\ key \in [Conns -> Keys]
      /\ loop \in [at : {"recv", "check", "evict", "open", "send", "aborted"},
                   key : Keys, tx : Conns \cup {NoConn}]
  BY DEF ConnStep, socksVars, IInv, TypeOK
<1>1. ASSUME loop'.at \notin {"recv", "aborted"} => loop'.key \in wanted,
             \A c \in Conns : stage'[c] # "unused" => key'[c] \in wanted
      PROVE  Attributed'
  BY <1>0, <1>1, Zenon DEF Attributed
<1>2. CASE Check \/ Evict
  BY <1>0, <1>1, <1>2 DEF Check, Evict, Attributed
<1>3. CASE Open
  <2>1. loop.key \in wanted
    BY <1>3 DEF Open, Attributed
  <2>2. PICK c \in Conns :
          /\ key' = [key EXCEPT ![c] = loop.key]
          /\ stage' = [stage EXCEPT ![c] = "opening"]
          /\ loop' = [loop EXCEPT !.at = "send", !.tx = c]
    BY <1>3, Zenon DEF Open
  <2>3. loop'.key = loop.key
    BY <1>0, <2>2
  <2>4. \A d \in Conns : stage'[d] # "unused" => key'[d] \in wanted
    BY <1>0, <2>1, <2>2 DEF Attributed
  <2> QED
    BY <1>1, <2>1, <2>3, <2>4
<1>4. CASE Send
  BY <1>0, <1>1, <1>4 DEF Send, Waiting, Attributed
<1>5. CASE Tick
  BY <1>0, <1>1, <1>5 DEF Tick, Attributed
<1>6. ASSUME NEW c \in Conns, Task(c) PROVE Attributed'
  <2>1. UNCHANGED <<loop, key>>
    BY <1>6 DEF Task, Opened, Fails, StreamEnds, Forward, ForwardFails, NoSender, TimesOut,
                Remove, Ends
  <2>2. \/ UNCHANGED stage
        \/ stage[c] # "unused" /\ \E s \in Stages : stage' = [stage EXCEPT ![c] = s]
    BY <1>6 DEF Task, Opened, Fails, StreamEnds, Forward, ForwardFails, NoSender, TimesOut,
                Remove, Ends, Live, Stages
  <2>3. \A d \in Conns : stage'[d] # "unused" => stage[d] # "unused"
    BY <1>0, <2>2
  <2> QED
    BY <1>0, <1>1, <2>1, <2>3 DEF Attributed
<1>7. ASSUME NEW c \in Conns, InEnds(c) \/ PumpFails(c) \/ OutEnds(c) PROVE Attributed'
  BY <1>0, <1>1, <1>7 DEF InEnds, PumpFails, OutEnds, PumpEnds, Attributed
<1> QED
  BY <1>2, <1>3, <1>4, <1>5, <1>6, <1>7, Zenon DEF ConnStep

\* Every step keeps datagrams, conns and replies attributed to those who asked.
LEMMA StepAttributed ==
    ASSUME IInv, Attributed, [SocksNext]_allVars
    PROVE  Attributed'
<1>1. CASE UNCHANGED <<vars, datagrams, wire, wanted, back>>
  BY <1>1, Zenon DEF vars, Attributed
<1>2. CASE Abort
  <2>1. loop'.at = "aborted" /\ wire' = Nothing
    BY <1>2 DEF Abort, ListenerEnds, IInv, TypeOK
  <2>2. UNCHANGED <<stage, key, datagrams, wanted, back>>
    BY <1>2 DEF Abort, ListenerEnds
  <2> QED
    BY <2>1, <2>2 DEF Attributed
<1>3. ASSUME NEW d \in datagrams, Arrive(d) PROVE Attributed'
  <2>1. /\ wire' = d /\ UNCHANGED <<loop, stage, key, datagrams, back>>
        /\ wanted \subseteq wanted'
        /\ d.means.result = "ok" =>
             wanted' = wanted \cup {<<d.from, d.means.target>>}
        /\ d.means.result # "ok" => wanted' = wanted
    BY <1>3 DEF Arrive, vars
  <2>2. wanted' \subseteq Keys
    <3>1. datagrams \in Traffic /\ wanted \subseteq Keys
      BY DEF Attributed
    <3>2. d.means.result = "ok" => <<d.from, d.means.target>> \in Keys
      BY <3>1, TrafficAssumption, Zenon
    <3> QED
      BY <2>1, <3>1, <3>2
  <2> QED
    BY <2>1, <2>2 DEF Attributed
<1>4. CASE Received
  <2> DEFINE parsed == parse_socks_udp_header(wire.bytes)
  <2>1. wire # Nothing /\ wire' = Nothing /\ UNCHANGED <<datagrams, wanted, back>>
    BY <1>4, Zenon DEF Received
  <2>2. CASE UNCHANGED vars
    BY <2>1, <2>2, Zenon DEF vars, Attributed
  <2>3. CASE parsed.result = "ok" /\ Receive(<<wire.from, parsed.target>>)
    <3>1. <<wire.from, parsed.target>> \in wanted
      BY <2>1, <2>3, ParsedKey, Zenon
    <3>2. loop'.key = <<wire.from, parsed.target>> /\ UNCHANGED <<stage, key>>
      BY <2>3 DEF Receive
    <3> QED
      BY <2>1, <3>1, <3>2, Zenon DEF Attributed
  <2> QED
    BY <1>4, <2>2, <2>3, Zenon DEF Received
<1>5. CASE ConnStep
  BY <1>5, ConnStepAttributed
<1>6. ASSUME NEW c \in Conns, SocksReply(c, Payload) PROVE Attributed'
  <2>1. key[c] \in wanted /\ key[c] = <<key[c][1], key[c][2]>>
    <3>1. stage[c] # "unused"
      BY <1>6 DEF SocksReply, Reply, Streaming
    <3> QED
      BY <3>1, TrafficAssumption, Zenon DEF Attributed, IInv, TypeOK
  <2>2. back' = [bytes |-> wrap_socks_udp_reply(key[c][2], Payload), to |-> key[c][1],
                 target |-> key[c][2], payload |-> Payload]
    BY <1>6, Zenon DEF SocksReply
  <2>3. /\ back'.bytes = wrap_socks_udp_reply(back'.target, back'.payload)
        /\ back'.payload = Payload
        /\ back'.to = key[c][1] /\ back'.target = key[c][2]
    BY <2>2
  <2>4. UNCHANGED <<vars, datagrams, wire, wanted>>
    BY <1>6, Zenon DEF SocksReply, Reply
  <2> QED
    BY <2>1, <2>3, <2>4, Zenon DEF Attributed, vars
<1>7. CASE Delivered
  BY <1>7, Zenon DEF Delivered, vars, Attributed
<1>8. CASE Handshake
  BY <1>1, <1>8, Zenon
  DEF Handshake, Greeting, Request, OpenStream, Answered, BindRelay, Associate
<1>9. CASE RelayEnds \/ ControlEnds \/ ClientLeaves
  BY <1>1, <1>9, Zenon DEF RelayEnds, ControlEnds, ClientLeaves
<1>10. CASE UNCHANGED allVars
  BY <1>1, <1>10 DEF allVars, socksVars
<1> QED
  BY <1>2, <1>3, <1>4, <1>5, <1>6, <1>7, <1>8, <1>9, <1>10, Zenon DEF SocksNext

\* Which replies a sequence of them holds.
LEMMA Holding ==
    ASSUME NEW s, NEW point \in Points, s \in Tellings(point)
    PROVE  /\ \A r \in {"granted", "bound"} :
                (\E i \in DOMAIN s : s[i] = r) <=> s = <<"no_authentication", r>>
           /\ \/ s = <<>> \/ s = <<"no_authentication">>
              \/ \E r \in {"no_address_type", "no_command", "granted", "bound"} :
                   s = <<"no_authentication", r>>
<1>1. \/ s = <<>> \/ s = <<"no_authentication">>
      \/ \E r \in {"no_address_type", "no_command", "granted", "bound"} :
           s = <<"no_authentication", r>>
  BY DEF Tellings, Points
<1>2. ASSUME NEW r \in {"granted", "bound"}
      PROVE  (\E i \in DOMAIN s : s[i] = r) <=> s = <<"no_authentication", r>>
  <2>1. CASE s = <<>>
    BY <2>1
  <2>2. CASE s = <<"no_authentication">>
    BY <2>2
  <2>3. ASSUME NEW q \in {"no_address_type", "no_command", "granted", "bound"},
               s = <<"no_authentication", q>>
        PROVE  (\E i \in DOMAIN s : s[i] = r) <=> s = <<"no_authentication", r>>
    <3>1. DOMAIN s = {1, 2} /\ s[1] = "no_authentication" /\ s[2] = q
      BY <2>3
    <3>2. (\E i \in DOMAIN s : s[i] = r) <=> q = r
      BY <3>1
    <3>3. s = <<"no_authentication", r>> <=> q = r
      BY <2>3
    <3> QED
      BY <3>2, <3>3
  <2> QED
    BY <1>1, <2>1, <2>2, <2>3
<1> QED
  BY <1>1, <1>2

Replies == {"no_authentication", "no_address_type", "no_command", "granted", "bound"}

\* A reply appended to another.
LEMMA Appended ==
    ASSUME NEW a \in Replies, NEW b \in Replies
    PROVE  Append(<<a>>, b) = <<a, b>>
<1> DEFINE s == Append(<<a>>, b)
           t == <<a, b>>
<1>1. <<a>> \in Seq(Replies) /\ Len(<<a>>) = 1 /\ <<a>>[1] = a
  OBVIOUS
<1>2. s \in Seq(Replies) /\ Len(s) = 2 /\ s[1] = a /\ s[2] = b
  BY <1>1
<1>3. t \in Seq(Replies) /\ Len(t) = 2 /\ t[1] = a /\ t[2] = b
  OBVIOUS
<1> HIDE DEF s, t
<1>4. s = t
  BY <1>2, <1>3, SameElements
<1> QED
  BY <1>4 DEF s, t

\* The points the handshake passes through, and what is said at each.
LEMMA HandshakeVouched ==
    ASSUME Vouched, Handshake
    PROVE  Vouched'
<1> DEFINE first == <<"no_authentication">>
           granted == <<"no_authentication", "granted">>
           bound == <<"no_authentication", "bound">>
<1>0. UNCHANGED <<request, loop, stage, wire, back>>
  BY DEF Handshake, Greeting, Request, OpenStream, Answered, BindRelay, Associate, vars
<1>1. /\ at \in {"greeting", "request", "connect", "opening", "associate", "bound"}
      /\ at = "greeting" => told = <<>>
      /\ at # "greeting" => told = first /\ request.version = 5
  <2>1. at \in {"greeting", "request", "connect", "opening", "associate", "bound"}
    BY DEF Handshake, Greeting, Request, OpenStream, Answered, BindRelay, Associate
  <2>2. (at = "greeting" => told = <<>>) /\ (at # "greeting" => told = first)
    BY <2>1 DEF Vouched, Tellings
  <2>3. first # <<>>
    OBVIOUS
  <2> QED
    BY <2>1, <2>2, <2>3, Zenon DEF Vouched
<1>2. ~ Told("bound")
  BY <1>1 DEF Told
<1>3. ASSUME at' \in Points, told' \in Tellings(at'), told' # <<>> => request.version = 5,
             at' \in {"connect", "opening"} => request.cmd = 1,
             at' \in {"associate", "bound"} => request.cmd = 3,
             at' = "bound" => opened' = "bound",
             told' = granted => opened' = "accepted" /\ request.cmd = 1,
             told' = bound => opened' = "bound" /\ request.cmd = 3
      PROVE  Vouched'
  <2>1. (Told("granted")' => told' = granted) /\ (Told("bound")' => told' = bound)
    BY <1>3, Holding DEF Told
  <2>2. loop.at = "recv" /\ (\A c \in Conns : stage[c] = "unused")
        /\ wire = Nothing /\ back = Nothing
    BY <1>2, Zenon DEF Vouched
  <2> QED
    BY <1>0, <1>3, <2>1, <2>2, Zenon DEF Vouched
<1>4. ASSUME at' = "closed", UNCHANGED told PROVE Vouched'
  <2>1. told' \in Tellings(at') /\ told' \notin {granted, bound} /\ at' \in Points
    BY <1>1, <1>4 DEF Tellings, Points
  <2>2. told' # <<>> => request.version = 5
    BY <1>1, <1>4
  <2> QED
    BY <1>3, <1>4, <2>1, <2>2
<1>5. ASSUME NEW reply \in {"no_address_type", "no_command", "granted", "bound"},
             at # "greeting", told' = Append(told, reply),
             \/ at' = "closed" /\ reply \notin {"granted", "bound"}
             \/ at' = "relaying" /\ reply = "granted"
                /\ opened' = "accepted" /\ request.cmd = 1
             \/ at' = "associated" /\ reply = "bound"
                /\ opened' = "bound" /\ request.cmd = 3
      PROVE  Vouched'
  <2>1. told' = <<"no_authentication", reply>>
    <3>1. told = <<"no_authentication">>
      BY <1>1, <1>5
    <3>2. "no_authentication" \in Replies /\ reply \in Replies
      BY DEF Replies
    <3> QED
      BY <1>5, <3>1, <3>2, Appended, Zenon
  <2>2. at' \in Points /\ told' \in Tellings(at')
    BY <1>5, <2>1 DEF Tellings, Points
  <2>3. (told' = granted => reply = "granted") /\ (told' = bound => reply = "bound")
    BY <2>1
  <2> QED
    BY <1>1, <1>3, <1>5, <2>2, <2>3
<1>6. CASE Greeting
  <2>1. CASE request.version # 5 /\ at' = "closed" /\ UNCHANGED told
    BY <1>4, <2>1
  <2>2. CASE request.version = 5 /\ told' = Append(told, "no_authentication") /\ at' = "request"
    <3>1. told' = first
      BY <1>1, <1>6, <2>2 DEF Greeting
    <3>2. at' \in Points /\ told' \in Tellings(at') /\ told' \notin {granted, bound}
      <4>1. at' \in Points /\ Tellings(at') = {first}
        BY <2>2 DEF Tellings, Points
      <4>2. first \notin {granted, bound}
        OBVIOUS
      <4> QED
        BY <3>1, <4>1, <4>2, Zenon
    <3> QED
      BY <1>3, <2>2, <3>2
  <2> QED
    BY <1>4, <1>6, <2>1, <2>2, Zenon DEF Greeting, Say
<1>7. CASE Request
  <2>1. CASE UNCHANGED told /\ at' \in {"connect", "associate"}
             /\ (at' = "connect" => request.cmd = 1) /\ (at' = "associate" => request.cmd = 3)
    <3>1. /\ at' \in Points /\ told' \in Tellings(at') /\ told' \notin {granted, bound}
          /\ request.version = 5 /\ at' # "opening"
      BY <1>1, <1>7, <2>1 DEF Request, Tellings, Points
    <3> QED
      BY <1>3, <2>1, <3>1
  <2>2. \/ at' = "closed" /\ UNCHANGED told
        \/ at' = "closed" /\ \E reply \in {"no_address_type", "no_command"} :
                               told' = Append(told, reply)
        \/ UNCHANGED told /\ at' \in {"connect", "associate"}
           /\ (at' = "connect" => request.cmd = 1) /\ (at' = "associate" => request.cmd = 3)
    BY <1>7 DEF Request, Reads, Say
  <2>3. at # "greeting"
    BY <1>7 DEF Request
  <2> QED
    BY <1>4, <1>5, <2>1, <2>2, <2>3
<1>8. CASE OpenStream
  <2>1. CASE at' = "opening"
    <3>1. /\ at' \in Points /\ told' \in Tellings(at') /\ told' \notin {granted, bound}
          /\ request.version = 5 /\ request.cmd = 1
      BY <1>1, <1>8, <2>1 DEF OpenStream, Tellings, Points, Vouched
    <3> QED
      BY <1>3, <2>1, <3>1
  <2> QED
    BY <1>4, <1>8, <2>1, Zenon DEF OpenStream
<1>9. CASE Answered
  <2>1. request.cmd = 1 /\ at # "greeting"
    BY <1>9 DEF Answered, Vouched
  <2>2. CASE opened' = "accepted" /\ told' = Append(told, "granted") /\ at' = "relaying"
    BY <1>5, <2>1, <2>2
  <2> QED
    BY <1>4, <1>9, <2>2, Zenon DEF Answered, Say
<1>11. CASE BindRelay
  <2>1. CASE at' = "bound" /\ opened' = "bound"
    <3>1. /\ at' \in Points /\ told' \in Tellings(at') /\ told' \notin {granted, bound}
          /\ request.version = 5 /\ request.cmd = 3
      BY <1>1, <1>11, <2>1 DEF BindRelay, Tellings, Points, Vouched
    <3> QED
      BY <1>3, <2>1, <3>1
  <2> QED
    BY <1>4, <1>11, <2>1, Zenon DEF BindRelay
<1>10. CASE Associate
  <2>0. at # "greeting" /\ opened' = "bound" /\ request.cmd = 3
    BY <1>10 DEF Associate, Vouched
  <2>1. CASE told' = Append(told, "bound") /\ at' = "associated"
    BY <1>5, <2>0, <2>1
  <2> QED
    BY <1>4, <1>10, <2>1, Zenon DEF Associate, Say
<1> QED
  BY <1>6, <1>7, <1>8, <1>9, <1>10, <1>11 DEF Handshake

\* Every step keeps the replies vouched for.
LEMMA StepVouched ==
    ASSUME Vouched, [SocksNext]_allVars
    PROVE  Vouched'
<1>1. ASSUME UNCHANGED <<request, at, told, opened>>, Told("bound")
      PROVE  Vouched'
  BY <1>1, Zenon DEF Vouched, Told
<1>2. ASSUME UNCHANGED <<request, at, told, opened, loop, stage>>,
             wire' \in {wire, Nothing}, back' \in {back, Nothing}
      PROVE  Vouched'
  <2>1. UNCHANGED <<wire, back>> \/ wire' = Nothing \/ back' = Nothing
    BY <1>2
  <2>2. (wire' # Nothing => wire # Nothing) /\ (back' # Nothing => back # Nothing)
    BY <1>2
  <2> QED
    BY <1>2, <2>2, Zenon DEF Vouched, Told
<1>3. CASE RelayEnds \/ ControlEnds
  <2>1. /\ at \in {"relaying", "associated"} /\ at' = "closed"
        /\ UNCHANGED <<request, told, opened, loop, stage, wire, back>>
    BY <1>3 DEF RelayEnds, ControlEnds, vars
  <2>2. at' \in Points /\ told \in Tellings("closed")
    BY <2>1 DEF Vouched, Tellings, Points
  <2>3. at' \notin {"connect", "opening"} /\ at' \notin {"associate", "bound"} /\ at' # "bound"
    BY <2>1
  <2> QED
    BY <2>1, <2>2, <2>3, Zenon DEF Vouched, Told
<1>4. CASE Abort \/ Received \/ \E d \in datagrams : Arrive(d)
  BY <1>1, <1>4, Zenon DEF Abort, Received, Arrive, RelayRuns
<1>5. CASE ConnStep
  <2>1. UNCHANGED <<request, at, told, opened, wire, back>>
    BY <1>5 DEF ConnStep, socksVars
  <2>2. CASE ~ Told("bound")
    <3>1. loop.at = "recv" /\ \A c \in Conns : stage[c] = "unused"
      BY <2>2, Zenon DEF Vouched
    <3>2. ~ (Check \/ Evict \/ Open \/ Send)
      BY <3>1 DEF Check, Evict, Open, Send
    <3>3. \A c \in Conns : ~ Task(c)
      BY <3>1 DEF Task, Opened, Fails, StreamEnds, Forward, ForwardFails, NoSender, TimesOut,
                  Remove, Live
    <3>4. UNCHANGED <<loop, stage>>
      BY <1>5, <3>2, <3>3, Zenon
      DEF ConnStep, Tick, InEnds, PumpFails, OutEnds, PumpEnds
    <3> QED
      BY <1>2, <2>1, <3>4
  <2> QED
    BY <1>1, <2>1, <2>2
<1>6. ASSUME NEW c \in Conns, SocksReply(c, Payload) PROVE Vouched'
  <2>1. stage[c] # "unused" /\ UNCHANGED <<request, at, told, opened>>
    BY <1>6 DEF SocksReply, Reply, Streaming
  <2>2. Told("bound")
    BY <2>1, Zenon DEF Vouched
  <2> QED
    BY <1>1, <2>1, <2>2
<1>7. CASE Delivered \/ ClientLeaves
  BY <1>2, <1>7 DEF Delivered, ClientLeaves, vars
<1>8. CASE UNCHANGED allVars
  BY <1>2, <1>8 DEF allVars, socksVars, vars
<1> QED
  BY <1>3, <1>4, <1>5, <1>6, <1>7, <1>8, HandshakeVouched, Zenon DEF SocksNext

\* The initial state: nothing sent and nothing told.
LEMMA SocksInitEstablishes == SocksInit => IInv /\ Attributed /\ Vouched
<1> SUFFICES ASSUME SocksInit PROVE IInv /\ Attributed /\ Vouched
  OBVIOUS
<1>1. IInv
  BY InitEstablishes DEF SocksInit
<1>2. loop.at = "recv" /\ \A c \in Conns : stage[c] = "unused"
  BY DEF SocksInit, Init, Waiting
<1>3. Attributed
  BY <1>2 DEF SocksInit, Attributed
<1>4. Vouched
  <2>1. at \in Points /\ told \in Tellings(at)
        /\ at \notin {"connect", "opening"} /\ at \notin {"associate", "bound"} /\ at # "bound"
    BY DEF SocksInit, Points, Tellings
  <2>2. told = <<>> /\ wire = Nothing /\ back = Nothing
    BY DEF SocksInit
  <2>3. ~ Told("granted") /\ ~ Told("bound")
    BY <2>2 DEF Told
  <2> QED
    BY <1>2, <2>1, <2>2, <2>3, Zenon DEF Vouched
<1> QED
  BY <1>1, <1>3, <1>4

-----------------------------------------------------------------------------
(* The theorems.                                                           *)

\* The inductive invariant of a SOCKS connection with its association: the map of
\* its conns, the attribution of its traffic and the replies on its control
\* connection (socks_handshake, run_socks_udp_relay).
THEOREM SocksInvariant == SocksSpec => [](IInv /\ Attributed /\ Vouched)
<1>1. IInv /\ Attributed /\ Vouched /\ [SocksNext]_allVars => (IInv /\ Attributed /\ Vouched)'
  BY StepImplements, StepPreserves, StepAttributed, StepVouched
<1> QED
  BY <1>1, SocksInitEstablishes, PTL DEF SocksSpec

\* The relay of an association is the receive loop of UdpConns behind a parser:
\* every step it takes is a step of that loop, of a conn or none (the code of
\* run_socks_udp_relay and of tunnel_udp_client is written twice in the source).
THEOREM RelayImplementsConns == SocksSpec => Spec
<1>1. Attributed /\ [SocksNext]_allVars => [Next]_vars
  BY StepImplements
<1>2. SocksInit => Init
  BY DEF SocksInit
<1> QED
  BY <1>1, <1>2, SocksInvariant, PTL DEF SocksSpec, Spec

\* The client of socks_handshake is told the method first, then one outcome, and
\* each only once it is true, whatever it asks for and whenever it leaves.
THEOREM ToldInOrderAlways == SocksSpec => []ToldInOrder
<1>1. Vouched => ToldInOrder
  <2> SUFFICES ASSUME Vouched PROVE ToldInOrder
    OBVIOUS
  <2>1. at \in Points /\ told \in Tellings(at)
    BY DEF Vouched
  <2>2. \/ told = <<>> \/ told = <<"no_authentication">>
        \/ \E r \in {"no_address_type", "no_command", "granted", "bound"} :
             told = <<"no_authentication", r>>
    BY <2>1, Holding
  <2>3. /\ Len(told) > 0 => told # <<>> /\ told[1] = "no_authentication"
        /\ Len(told) = 2 => told[2] # "no_authentication"
        /\ Len(told) <= 2
    <3> DEFINE Goal == /\ Len(told) > 0 => told # <<>> /\ told[1] = "no_authentication"
                       /\ Len(told) = 2 => told[2] # "no_authentication"
                       /\ Len(told) <= 2
    <3>1. told = <<>> => Goal
      OBVIOUS
    <3>2. told = <<"no_authentication">> => Goal
      OBVIOUS
    <3>3. ASSUME NEW r \in {"no_address_type", "no_command", "granted", "bound"},
                 told = <<"no_authentication", r>>
          PROVE  Goal
      <4>1. Len(told) = 2 /\ told # <<>> /\ told[1] = "no_authentication" /\ told[2] = r
        BY <3>3
      <4> QED
        BY <4>1
    <3> HIDE DEF Goal
    <3>4. Goal
      BY <2>2, <3>1, <3>2, <3>3, Zenon
    <3> QED
      BY <3>4 DEF Goal
  <2>4. at = "relaying" => told = <<"no_authentication", "granted">>
    BY <2>1 DEF Tellings
  <2>5. at = "relaying" => Told("granted")
    BY <2>1, <2>4, Holding DEF Told
  <2> QED
    BY <2>3, <2>5, Zenon DEF Vouched, ToldInOrder
<1> QED
  BY <1>1, SocksInvariant, PTL

\* parse_socks_udp_header finds in any datagram, of any length and octets, the
\* target and the payload that RFC 1928 gives it.
THEOREM ParsedAsMeantAlways == SocksSpec => []ParsedAsMeant
<1>1. Attributed => ParsedAsMeant
  BY ParsedKey DEF ParsedAsMeant
<1> QED
  BY <1>1, SocksInvariant, PTL

\* No source of an association is sent a reply of a target it has not sent to, for
\* any number of sources and targets and however their conns end and start over.
THEOREM SourcesIsolatedAlways == SocksSpec => []SourcesIsolated
<1>1. Attributed => SourcesIsolated
  BY DEF Attributed, SourcesIsolated
<1> QED
  BY <1>1, SocksInvariant, PTL

\* A reply of any target, also one whose name wrap_socks_udp_reply has to cut, is
\* parsed with the port and the payload it was wrapped with; one of an address is
\* unwrapped by a Rusnel client behind the proxy as its server's datagram.
THEOREM RepliesIntactAlways == SocksSpec => []RepliesIntact
<1>1. Attributed => RepliesIntact
  <2> SUFFICES ASSUME Attributed, back # Nothing PROVE RepliesIntact
    BY DEF RepliesIntact
  <2> DEFINE target == back.target
             payload == back.payload
             seen == parse_socks_udp_header(back.bytes)
  <2>1. back.bytes = wrap_socks_udp_reply(target, payload) /\ payload \in Seq(Bytes)
    BY TrafficAssumption DEF Attributed
  <2>2. target \in Targets
    <3>1. <<back.to, target>> \in Keys
      BY DEF Attributed
    <3>2. <<back.to, target>>[2] \in Targets
      BY <3>1, TrafficAssumption, Zenon
    <3> QED
      BY <3>2
  <2>3. target.kind \in AddressKinds \/ target.kind = "name"
    BY <2>2 DEF Targets, AddressKinds
  <2> HIDE DEF target, payload
  <2>4. CASE target.kind \in AddressKinds
    <3> DEFINE whole == [result |-> "ok", target |-> target, payload |-> payload]
    <3>1. seen = whole /\ unwrap_socks5_udp_in_place(back.bytes) = whole
      BY <2>1, <2>2, <2>4, AddressReplyIntact
    <3>2. whole.result = "ok" /\ whole.target = target /\ whole.payload = payload
      OBVIOUS
    <3> HIDE DEF whole
    <3>3. poll_recv(target, back.bytes) = payload
      BY <3>1, <3>2, Zenon DEF poll_recv
    <3> QED
      BY <3>1, <3>2, <3>3, Zenon DEF RepliesIntact, target, payload
  <2>5. CASE target.kind = "name"
    <3>1. PICK name : seen = Whole("name", name, target.port, payload)
      BY <2>1, <2>2, <2>5, NameReplyIntact
    <3>2. seen.result = "ok" /\ seen.payload = payload /\ seen.target.port = target.port
      BY <3>1 DEF Whole
    <3> QED
      BY <2>5, <3>2, Zenon DEF RepliesIntact, target, payload
  <2> QED
    BY <2>3, <2>4, <2>5
<1> QED
  BY <1>1, SocksInvariant, PTL

\* Neither parser reads past the end of a datagram, whatever its octets: no byte
\* that arrives from the network makes parse_socks_udp_header or
\* unwrap_socks5_udp_in_place panic.
THEOREM ParsersTotal ==
    \A buf \in Seq(Bytes) :
        /\ parse_socks_udp_header(buf).result \in {"ok", "malformed"}
        /\ unwrap_socks5_udp_in_place(buf).result \in {"ok", "malformed"}
<1> SUFFICES ASSUME NEW buf \in Seq(Bytes)
             PROVE  /\ parse_socks_udp_header(buf).result \in {"ok", "malformed"}
                    /\ unwrap_socks5_udp_in_place(buf).result \in {"ok", "malformed"}
  OBVIOUS
<1> DEFINE Fine(outcome) == outcome.result \in {"ok", "malformed"}
<1>0. Len(buf) \in Nat /\ V4Len \in Nat /\ V6Len \in Nat
  BY DEF V4Len, V6Len
<1>1. Fine(Malformed)
  BY DEF Malformed
<1>2. ASSUME NEW kind, NEW octets, NEW offset \in Nat, NEW n \in Nat, offset + n + 2 <= Len(buf)
      PROVE  Fine(Decoded(kind, octets, buf, offset, n))
  <2>1. ~ (offset + n + 2 > Len(buf))
    BY <1>0, <1>2
  <2> QED
    BY <2>1 DEF Decoded
<1>3. ASSUME NEW kind, NEW n \in Nat PROVE Fine(Address(kind, buf, n))
  <2>1. CASE Len(buf) < 4 + n + 2
    BY <1>1, <2>1 DEF Address
  <2>2. CASE ~ (Len(buf) < 4 + n + 2)
    <3>1. 4 \in Nat /\ 4 + n + 2 <= Len(buf)
      BY <1>0, <2>2
    <3> HIDE DEF Fine
    <3> QED
      BY <1>2, <2>2, <3>1, Zenon DEF Address
  <2> QED
    BY <2>1, <2>2
<1>4. Fine(Domain(buf))
  <2> DEFINE n == At(buf, 4)
  <2>1. CASE Len(buf) < 5 \/ Len(buf) < 5 + n + 2
    BY <1>1, <2>1 DEF Domain
  <2>2. CASE ~ (Len(buf) < 5 \/ Len(buf) < 5 + n + 2)
    <3>1. buf[5] \in Bytes
      BY <1>0, <2>2
    <3>2. \A b \in Bytes : b \in Nat
      BY DEF Bytes
    <3>3. n \in Nat
      BY <3>1, <3>2 DEF At
    <3>4. 5 \in Nat /\ 5 + n + 2 <= Len(buf)
      BY <1>0, <2>2, <3>3
    <3> HIDE DEF Fine, n
    <3>5. Domain(buf) = Decoded("name", from_utf8_lossy(Octets(buf, 5, n)), buf, 5, n)
      BY <2>2, Zenon DEF Domain, n
    <3> QED
      BY <1>2, <3>3, <3>4, <3>5, Zenon
  <2> QED
    BY <2>1, <2>2
<1> HIDE DEF Fine
<1>5. Fine(parse_socks_udp_header(buf))
  BY <1>0, <1>1, <1>3, <1>4, ParserCases
<1>6. Fine(unwrap_socks5_udp_in_place(buf))
  BY <1>0, <1>1, <1>3 DEF unwrap_socks5_udp_in_place
<1> QED
  BY <1>5, <1>6 DEF Fine
=============================================================================
