--------------------------- MODULE MCTunnelProtocol ---------------------------
(* A forward TCP tunnel beside a reverse SOCKS5 tunnel, and a single reverse *)
(* TCP tunnel.                                                               *)
EXTENDS TunnelProtocol

Target(p, d) == [proto |-> p, dest |-> d]

MixedRemotes == <<
    [dir |-> "forward", kind |-> "tcp", target |-> Target("tcp", "web")],
    [dir |-> "reverse", kind |-> "socks", target |-> Target("socks", "any")]>>

ReverseRemote == <<[dir |-> "reverse", kind |-> "tcp", target |-> Target("tcp", "ssh")]>>

DynamicTargets == {Target("tcp", "web"), Target("udp", "dns")}
=============================================================================
