------------------------------- MODULE MCSocks -------------------------------
(***************************************************************************)
(* An instance of SocksServer: two sources, targets of each address type   *)
(* and a name of invalid bytes so long that its replacement is cut.        *)
(***************************************************************************)
EXTENDS SocksServer

V4Target == [kind |-> "v4", host |-> <<10, 0, 0, 7>>, port |-> 258]

V6Target == [kind |-> "v6", host |-> [i \in 1 .. 16 |-> i], port |-> 65535]

LongName == <<200, 201, 202>>

NameTarget == [kind |-> "name", host |-> from_utf8_lossy(LongName), port |-> 53]

RelayKeys == {"s1", "s2"} \X {V4Target, V6Target, NameTarget}

RelayPayload == <<7, 7>>

\* A well-formed datagram for a target.
Wrapped(target) ==
    IF target.kind = "name"
    THEN <<0, 0, 0, 3, Len(LongName)>> \o LongName \o be_bytes(target.port) \o RelayPayload
    ELSE wrap_socks5_udp(target, RelayPayload)

\* Cut to n bytes: an error within the header, a shorter payload behind it.
Cut(source, target, n) ==
    LET header == Len(Wrapped(target)) - Len(RelayPayload) IN
    [from |-> source,
     bytes |-> SubSeq(Wrapped(target), 1, n),
     means |-> IF n < header THEN Malformed
               ELSE [result |-> "ok", target |-> target,
                     payload |-> SubSeq(RelayPayload, 1, n - header)]]

Cuts(target, lengths) == {Cut("s1", target, n) : n \in lengths}

Whole(source, target) == Cut(source, target, Len(Wrapped(target)))

\* Another byte at an offset.
Altered(target, i, byte, means) ==
    [from |-> "s1", bytes |-> [Wrapped(target) EXCEPT ![i + 1] = byte], means |-> means]

\* Two sources of one target and two targets of one source; then IPv6, with a
\* fragment, an unknown address type and a reserved byte that is set.
RelayTraffic ==
    {Cuts(V4Target, {9, 10, 12}) \cup {Whole("s2", V4Target)}
     \cup Cuts(NameTarget, {3, 4, 8, 9, 12}),
     Cuts(V6Target, {21, 24})
     \cup {Altered(V6Target, 2, 1, Malformed), Altered(V6Target, 3, 9, Malformed),
           Altered(V6Target, 0, 1, Whole("s1", V6Target).means)}}
=============================================================================
