------------------------------ MODULE SocksUdp ------------------------------
(***************************************************************************)
(* The SOCKS5 UDP datagrams of both ends: what the SOCKS5 server parses    *)
(* and wraps (common/socks.rs) and what a client behind a proxy wraps and  *)
(* unwraps (common/proxy.rs).  A datagram is a sequence of bytes; offsets  *)
(* count from 0 as in the code, and a read past the end is a panic.        *)
(***************************************************************************)
EXTENDS Integers, Sequences

CONSTANT MaxName  \* u8::MAX, the longest name the wire format can carry

Bytes == 0 .. 255

ASSUME MaxNameAssumption == MaxName \in Bytes

V4Len == 4

V6Len == 16

Malformed == [result |-> "malformed"]

Panic == [result |-> "panic"]

At(buf, i) == buf[i + 1]

From(buf, i) == SubSeq(buf, i + 1, Len(buf))

be_bytes(port) == <<port \div 256, port % 256>>

\* The target at the head of a datagram: n octets at an offset, the port, and the
\* payload behind them.
Decoded(kind, octets, buf, offset, n) ==
    IF offset + n + 2 > Len(buf) THEN Panic
    ELSE [result |-> "ok",
          target |-> [kind |-> kind, host |-> octets,
                      port |-> 256 * At(buf, offset + n) + At(buf, offset + n + 1)],
          payload |-> From(buf, offset + n + 2)]

Octets(buf, offset, n) == SubSeq(buf, offset + 1, offset + n)

\* Fault: room for the octets, but not for the port behind them.
AddressNoPort(kind, buf, n) ==
    IF Len(buf) < 4 + n THEN Malformed
    ELSE Decoded(kind, Octets(buf, 4, n), buf, 4, n)

\* An IPv4 or IPv6 address and its port, as both parsers read it.
Address(kind, buf, n) ==
    IF Len(buf) < 4 + n + 2 THEN Malformed
    ELSE Decoded(kind, Octets(buf, 4, n), buf, 4, n)

\* String::from_utf8_lossy: an invalid byte becomes U+FFFD, which takes three.
\* (Names with valid characters of several bytes are left out.)
from_utf8_lossy(bytes) ==
    LET lossy[i \in 0 .. Len(bytes)] ==
            IF i = 0 THEN <<>>
            ELSE lossy[i - 1] \o IF bytes[i] < 128 THEN <<bytes[i]>> ELSE <<239, 191, 189>>
    IN  lossy[Len(bytes)]

\* A name behind its length; one that does not spell an address.
Domain(buf) ==
    IF Len(buf) < 5 \/ Len(buf) < 5 + At(buf, 4) + 2 THEN Malformed
    ELSE Decoded("name", from_utf8_lossy(Octets(buf, 5, At(buf, 4))), buf, 5, At(buf, 4))

\* The SOCKS5 server's parser: a fragment, an unknown address type and a
\* truncated header are errors; the reserved bytes are not looked at.
parse_socks_udp_header(buf) ==
    IF Len(buf) < 4 \/ At(buf, 2) # 0 THEN Malformed
    ELSE CASE At(buf, 3) = 1 -> Address("v4", buf, V4Len)
           [] At(buf, 3) = 4 -> Address("v6", buf, V6Len)
           [] At(buf, 3) = 3 -> Domain(buf)
           [] OTHER -> Malformed

\* Fault: the length is cast to u8, the name is not cut.
wrap_uncut(target, payload) ==
    <<0, 0, 0>>
    \o (CASE target.kind = "v4" -> <<1>> \o target.host
          [] target.kind = "v6" -> <<4>> \o target.host
          [] target.kind = "name" -> <<3, Len(target.host) % (MaxName + 1)>> \o target.host)
    \o be_bytes(target.port) \o payload

\* A reply of a target, addressed from it; a name is cut to what fits.
wrap_socks_udp_reply(target, payload) ==
    <<0, 0, 0>>
    \o (CASE target.kind = "v4" -> <<1>> \o target.host
          [] target.kind = "v6" -> <<4>> \o target.host
          [] target.kind = "name" ->
               LET n == IF Len(target.host) < MaxName THEN Len(target.host) ELSE MaxName
               IN  <<3, n>> \o SubSeq(target.host, 1, n))
    \o be_bytes(target.port) \o payload

\* What a client behind a proxy sends; its target is an address, never a name.
wrap_socks5_udp(target, payload) ==
    <<0, 0, 0>>
    \o (IF target.kind = "v4" THEN <<1>> ELSE <<4>>) \o target.host
    \o be_bytes(target.port) \o payload

\* What a client behind a proxy accepts: no fragment and no name.
unwrap_socks5_udp_in_place(buf) ==
    IF Len(buf) < 4 \/ At(buf, 0) # 0 \/ At(buf, 1) # 0 \/ At(buf, 2) # 0 THEN Malformed
    ELSE CASE At(buf, 3) = 1 -> Address("v4", buf, V4Len)
           [] At(buf, 3) = 4 -> Address("v6", buf, V6Len)
           [] OTHER -> Malformed

-----------------------------------------------------------------------------
(* What a datagram means, by RFC 1928: a complete header, then the payload. *)

Ports == {port \in Nat : port < 65536}

Targets ==
    [kind : {"v4"}, host : [1 .. V4Len -> Bytes], port : Ports]
    \cup [kind : {"v6"}, host : [1 .. V6Len -> Bytes], port : Ports]
    \cup [kind : {"name"}, host : Seq(Bytes), port : Ports]

\* The octets of the host lie between the address type, or the length of a name,
\* and the two octets of the port.
IsHeader(h) ==
    /\ Len(h) > 6
    /\ h[3] = 0
    /\ \/ h[4] = 1 /\ Len(h) = 4 + V4Len + 2
       \/ h[4] = 4 /\ Len(h) = 4 + V6Len + 2
       \/ h[4] = 3 /\ Len(h) = 5 + h[5] + 2

TargetOf(h) ==
    LET n == Len(h) IN
    [kind |-> IF h[4] = 1 THEN "v4" ELSE IF h[4] = 4 THEN "v6" ELSE "name",
     host |-> IF h[4] = 3 THEN from_utf8_lossy(SubSeq(h, 6, n - 2)) ELSE SubSeq(h, 5, n - 2),
     port |-> 256 * h[n - 1] + h[n]]

\* The datagram means an outcome of the parser.
Means(bytes, outcome) ==
    \/ \E n \in 0 .. Len(bytes) :
          /\ IsHeader(SubSeq(bytes, 1, n))
          /\ outcome = [result |-> "ok", target |-> TargetOf(SubSeq(bytes, 1, n)),
                        payload |-> SubSeq(bytes, n + 1, Len(bytes))]
    \/ /\ \A n \in 0 .. Len(bytes) : ~ IsHeader(SubSeq(bytes, 1, n))
       /\ outcome = Malformed
=============================================================================
