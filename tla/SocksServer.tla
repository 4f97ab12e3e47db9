----------------------------- MODULE SocksServer -----------------------------
(***************************************************************************)
(* One connection to a SOCKS5 listener (common/socks.rs): the handshake,   *)
(* then a CONNECT carried over a conn of the tunnel, or a UDP ASSOCIATE.   *)
(* The association's relay is the receive loop of UdpConns with a map      *)
(* keyed by source and target, in front of which it parses each datagram;  *)
(* its conns wrap each reply for the source.  One of the sources may be a  *)
(* Rusnel client that uses this listener as its proxy (common/proxy.rs).   *)
(***************************************************************************)
EXTENDS UdpConns, SocksUdp

CONSTANTS
    Traffic,  \* sets of datagrams [from, bytes, means], means the outcome meant
    Payload   \* what a target sends

ASSUME TrafficAssumption ==
    /\ \A k \in Keys : k = <<k[1], k[2]>> /\ k[2] \in Targets
    /\ \A ds \in Traffic : \A d \in ds :
          /\ d.bytes \in Seq(Bytes)
          /\ Means(d.bytes, d.means)
          /\ d.means.result = "ok" => <<d.from, d.means.target>> \in Keys
    /\ Payload \in Seq(Bytes)

VARIABLES
    request,  \* what the SOCKS client sends: [version, cmd, atyp]
    at,       \* where the connection's task is
    told,     \* the replies written to it
    control,  \* its TCP connection is open
    opened,   \* the OpenConn of a CONNECT: none, asked, accepted; or the UDP socket
              \* of an association: none, bound
    datagrams,  \* what the sources may send, a member of Traffic
    wire,     \* the datagram that recv_from returns next, or Nothing
    wanted,   \* the keys of the datagrams meant for a target
    back      \* the datagram the relay's socket sent last, or Nothing

socksVars == <<request, at, told, control, opened, datagrams, wire, wanted, back>>

allVars == <<vars, socksVars>>

Nothing == [bytes |-> <<>>, to |-> "nobody"]

\* The bytes the server distinguishes, and one other value of each; of the three
\* address types, which it reads alike, one.
Requests == [version : {4, 5}, cmd : {1, 2, 3}, atyp : {1, 9}]

SocksInit ==
    /\ Init
    /\ request \in Requests
    /\ at = "greeting"
    /\ told = <<>>
    /\ control = TRUE
    /\ opened = "none"
    /\ datagrams \in Traffic
    /\ wire = Nothing
    /\ wanted = {}
    /\ back = Nothing

-----------------------------------------------------------------------------
(* socks_handshake.                                                        *)

\* Reading from a client that is gone, or writing to it, may still succeed; when
\* it fails the connection is closed.
Reads(next) == at' = next \/ (~ control /\ at' = "closed")

Say(reply, next) ==
    \/ told' = Append(told, reply) /\ at' = next
    \/ ~ control /\ at' = "closed" /\ UNCHANGED told

\* Version and methods; the methods offered are not looked at.
Greeting ==
    /\ at = "greeting"
    /\ \/ request.version # 5 /\ at' = "closed" /\ UNCHANGED told
       \/ request.version = 5 /\ Say("no_authentication", "request")
    /\ UNCHANGED <<vars, request, datagrams, control, opened, wire, wanted, back>>

\* The address is read before the command is looked at.
Request ==
    /\ at = "request"
    /\ \/ request.atyp \notin {1, 3, 4} /\ Say("no_address_type", "closed")
       \/ /\ request.atyp \in {1, 3, 4}
          /\ \/ request.cmd \notin {1, 3} /\ Say("no_command", "closed")
             \/ /\ request.cmd \in {1, 3}
                /\ Reads(IF request.cmd = 1 THEN "connect" ELSE "associate")
                /\ UNCHANGED told
    /\ UNCHANGED <<vars, request, datagrams, control, opened, wire, wanted, back>>

-----------------------------------------------------------------------------
(* CONNECT: start_client_dynamic_tunnel.                                   *)

\* open_bi, and the OpenConn with the target.
OpenStream ==
    /\ at = "connect"
    /\ \/ at' = "opening" /\ opened' = "asked"
       \/ at' = "closed" /\ UNCHANGED opened
    /\ UNCHANGED <<vars, request, datagrams, told, control, wire, wanted, back>>

\* Fault: the client is told before the far end has answered.
GrantsEarly ==
    /\ at = "opening"
    /\ Say("granted", "relaying")
    /\ UNCHANGED <<vars, request, datagrams, control, opened, wire, wanted, back>>

\* The far end answers: only then is the client told.  A refusal, or a session
\* that is lost first, closes the connection without a reply.
Answered ==
    /\ at = "opening"
    /\ \/ opened' = "accepted" /\ Say("granted", "relaying")
       \/ at' = "closed" /\ UNCHANGED <<told, opened>>
    /\ UNCHANGED <<vars, request, datagrams, control, wire, wanted, back>>

\* Fault: an error of the relay is reported like one of the handshake.
RelayEndsRefused ==
    /\ at = "relaying"
    /\ Say("failed", "closed")
    /\ UNCHANGED <<vars, request, datagrams, control, opened, wire, wanted, back>>

\* tunnel_tcp_stream returns: module TcpRelay.
RelayEnds ==
    /\ at = "relaying"
    /\ at' = "closed"
    /\ UNCHANGED <<vars, request, datagrams, told, control, opened, wire, wanted, back>>

-----------------------------------------------------------------------------
(* UDP ASSOCIATE: handle_socks_udp_associate and run_socks_udp_relay.      *)

\* UdpSocket::bind and local_addr.
BindRelay ==
    /\ at = "associate"
    /\ \/ at' = "bound" /\ opened' = "bound"
       \/ at' = "closed" /\ UNCHANGED opened
    /\ UNCHANGED <<vars, request, datagrams, told, control, wire, wanted, back>>

\* The reply with the socket's address, and then the relay is spawned.
Associate ==
    /\ at = "bound"
    /\ Say("bound", "associated")
    /\ UNCHANGED <<vars, request, datagrams, control, opened, wire, wanted, back>>

Told(reply) == \E i \in DOMAIN told : told[i] = reply

RelayRuns == Told("bound") /\ loop.at # "aborted"

Aborted == RelayRuns /\ at = "closed"

\* relay_handle.abort(), once the control connection ended, or recv_from fails.
\* abort() takes effect at the relay's only await.
Abort ==
    /\ RelayRuns
    /\ ListenerEnds
    /\ wire' = Nothing
    /\ UNCHANGED <<request, datagrams, at, told, control, opened, wanted, back>>

\* The control connection ends; what it carries before is drained.
ControlEnds ==
    /\ at = "associated"
    /\ ~ control
    /\ at' = "closed"
    /\ UNCHANGED <<vars, request, datagrams, told, control, opened, wire, wanted, back>>

\* A datagram reaches the relay's socket.
Arrive(d) ==
    /\ RelayRuns
    /\ at = "associated"
    /\ loop.at = "recv"
    /\ wire = Nothing
    /\ received < MaxDatagrams
    /\ wire' = d
    /\ wanted' = IF d.means.result = "ok" THEN wanted \cup {<<d.from, d.means.target>>}
                 ELSE wanted
    /\ UNCHANGED <<vars, request, datagrams, at, told, control, opened, back>>

\* Fault: conns are shared between the sources of a target.
ReceivedByTarget ==
    /\ RelayRuns /\ wire # Nothing
    /\ LET parsed == parse_socks_udp_header(wire.bytes) IN
        \/ /\ parsed.result = "ok"
           /\ Receive(CHOOSE k \in Keys : k[2] = parsed.target)
        \/ parsed.result # "ok" /\ UNCHANGED vars
    /\ wire' = Nothing
    /\ UNCHANGED <<request, datagrams, at, told, control, opened, wanted, back>>

\* recv_from, the parser and the lookup of the conn; what does not parse is
\* dropped.
Received ==
    /\ RelayRuns /\ wire # Nothing
    /\ LET parsed == parse_socks_udp_header(wire.bytes) IN
        \/ parsed.result = "ok" /\ Receive(<<wire.from, parsed.target>>)
        \/ parsed.result # "ok" /\ UNCHANGED vars
    /\ wire' = Nothing
    /\ UNCHANGED <<request, datagrams, at, told, control, opened, wanted, back>>

\* A reply of the target, wrapped and sent to the conn's source.
SocksReply(c, payload) ==
    /\ back = Nothing
    /\ Reply(c)
    /\ LET target == key[c][2] IN
        back' = [bytes |-> wrap_socks_udp_reply(target, payload), to |-> key[c][1],
                 target |-> target, payload |-> payload]
    /\ UNCHANGED <<request, datagrams, at, told, control, opened, wire, wanted>>

\* Socks5UdpSocket::poll_recv of a Rusnel client whose server is the target:
\* what a datagram gives it, or nothing when it skips it.
poll_recv(server, bytes) ==
    LET unwrapped == unwrap_socks5_udp_in_place(bytes) IN
    IF unwrapped.result = "ok" /\ unwrapped.target = server THEN unwrapped.payload
    ELSE <<"skipped">>

\* The source takes the datagram.
Delivered ==
    /\ back # Nothing
    /\ back' = Nothing
    /\ UNCHANGED <<vars, request, datagrams, at, told, control, opened, wire, wanted>>

\* The rest of the receive loop, the conns' tasks and their far ends.
ConnStep ==
    /\ \/ Check \/ Evict \/ Open \/ Send \/ Tick
       \/ \E c \in Conns : Task(c) \/ InEnds(c) \/ PumpFails(c) \/ OutEnds(c)
    /\ UNCHANGED socksVars

\* The SOCKS client closes its TCP connection, or it breaks.
ClientLeaves ==
    /\ control
    /\ control' = FALSE
    /\ UNCHANGED <<vars, request, datagrams, at, told, opened, wire, wanted, back>>

Handshake == Greeting \/ Request \/ OpenStream \/ Answered \/ BindRelay \/ Associate

SocksNext ==
    \/ Handshake \/ RelayEnds \/ Abort \/ ControlEnds
    \/ \E d \in datagrams : Arrive(d)
    \/ Received \/ ConnStep \/ Delivered \/ ClientLeaves
    \/ \E c \in Conns : SocksReply(c, Payload)

SocksSpec == SocksInit /\ [][SocksNext]_allVars

\* The client, the datagrams and the targets do what they like.  A read of a
\* connection that ended fails, an OpenConn is answered or fails, and tasks that
\* are ready are polled.
SocksFairness ==
    /\ WF_allVars(~ control /\ (Greeting \/ Request))
    /\ WF_allVars(OpenStream \/ Answered \/ BindRelay \/ Associate)
    /\ WF_allVars(ControlEnds)
    /\ WF_allVars(Aborted /\ Abort)
    /\ WF_allVars(Received)
    /\ WF_allVars((Check \/ Evict \/ Open \/ Send) /\ UNCHANGED socksVars)
    /\ WF_allVars(Tick /\ UNCHANGED socksVars)
    /\ \A c \in Conns :
        /\ WF_allVars((Opened(c) \/ (stage[c] = "opening" /\ Fails(c)))
                      /\ UNCHANGED socksVars)
        /\ WF_allVars((StreamEnds(c) \/ Forward(c) \/ ForwardFails(c) \/ NoSender(c)
                       \/ TimesOut(c)) /\ UNCHANGED socksVars)
        /\ WF_allVars(Remove(c) /\ UNCHANGED socksVars)

SocksFairSpec == SocksSpec /\ SocksFairness

-----------------------------------------------------------------------------
(* Properties.                                                             *)

\* The SOCKS client is told what has happened, in the order of the protocol: the
\* method first, then one outcome and nothing after it, also when the relay of a
\* CONNECT fails; "granted" only when the far end accepted the OpenConn, "bound"
\* only when the socket of the association is; no byte is relayed and no datagram
\* handled before the client is told.
ToldInOrder ==
    /\ Len(told) <= 2
    /\ Len(told) > 0 => told[1] = "no_authentication" /\ request.version = 5
    /\ Len(told) = 2 => told[2] # "no_authentication"
    /\ Told("granted") => opened = "accepted" /\ request.cmd = 1
    /\ Told("bound") => opened = "bound" /\ request.cmd = 3
    /\ at = "relaying" => Told("granted")
    /\ wire # Nothing \/ back # Nothing => Told("bound")

\* parse_socks_udp_header finds the target and the payload its sender meant, for
\* every address type, and rejects what is truncated anywhere in the header, a
\* fragment or of an unknown type; it never reads past the end of the datagram.
ParsedAsMeant == wire # Nothing => parse_socks_udp_header(wire.bytes) = wire.means

\* A reply reaches the source with its payload and port intact whatever the
\* target's name, however long; when the target is an address, a Rusnel client
\* behind this proxy takes it for its server's datagram.
RepliesIntact ==
    back # Nothing =>
        LET seen == parse_socks_udp_header(back.bytes) IN
        /\ seen.result = "ok"
        /\ seen.payload = back.payload
        /\ seen.target.port = back.target.port
        /\ back.target.kind # "name" => poll_recv(back.target, back.bytes) = back.payload

\* The comment in run_socks_udp_relay: "two different SOCKS clients sharing the
\* same association never see each other's traffic".  A reply goes to a source
\* that has sent to this target, also after its conn was replaced.
SourcesIsolated == back # Nothing => <<back.to, back.target>> \in wanted

Released ==
    /\ at = "closed"
    /\ loop.at = "aborted"
    /\ \A c \in Conns : stage[c] \in {"unused", "gone"}

\* An association whose control connection is gone frees its socket: the relay
\* is aborted and every conn's task ends, although each holds the map and with it
\* the sender of its own queue, so that only the idle timeout can end it.
AssociationReleased == ~ control /\ Told("bound") ~> Released
=============================================================================
