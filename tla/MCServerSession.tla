--------------------------- MODULE MCServerSession ---------------------------
(***************************************************************************)
(* Instances of ServerSession for TLC.                                     *)
(***************************************************************************)
EXTENDS ServerSession, TLC

CONSTANTS k1, k2, k3,          \* clients
          f1, r1, s1, q1,      \* tunnels: forward f1, s1; reverse r1, q1
          c1, c2, c3, a1, a2   \* conns: streams c*, accepted a*

\* Forward sessions: k1 has a TCP tunnel with two conns, k2 declares nothing and
\* opens a conn on an unknown tunnel, k3 competes with them for a permit.
ForwardOwner == f1 :> k1
ForwardTunnelOf == c1 :> f1 @@ c2 :> f1 @@ c3 :> NoTunnel
ForwardVia == c1 :> k1 @@ c2 :> k1 @@ c3 :> k2
ForwardDirection == f1 :> "Forward"
ForwardKind == f1 :> "Tcp"
ForwardDynamic == c1 :> "None" @@ c2 :> "None" @@ c3 :> "None"

\* Both directions in one session: k1 has a forward SOCKS5 tunnel with a CONNECT, and
\* a reverse SOCKS5 tunnel that accepts a CONNECT and a UDP conn, which register at
\* different points of their life.
MixedOwner == s1 :> k1 @@ q1 :> k1
MixedTunnelOf == c1 :> s1 @@ a1 :> q1 @@ a2 :> q1
MixedVia == c1 :> k1
MixedDirection == s1 :> "Forward" @@ q1 :> "Reverse"
MixedKind == s1 :> "Socks5" @@ q1 :> "Socks5"
MixedDynamic == c1 :> "Tcp" @@ a1 :> "Udp" @@ a2 :> "Tcp"

\* One forward SOCKS5 and one reverse TCP tunnel.
PairOwner == s1 :> k1 @@ r1 :> k1
PairTunnelOf == c1 :> s1 @@ a1 :> r1
PairVia == c1 :> k1
PairDirection == s1 :> "Forward" @@ r1 :> "Reverse"
PairKind == s1 :> "Socks5" @@ r1 :> "Tcp"
PairDynamic == c1 :> "Tcp" @@ a1 :> "None"
=============================================================================
