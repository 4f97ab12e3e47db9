---------------------------- MODULE ServerSession ----------------------------
(***************************************************************************)
(* The sessions of a Rusnel server (server/mod.rs) over its registry: the  *)
(* accept loop with its connection cap, handle_client_connection from the  *)
(* QUIC handshake to the release of the permit, the conns a client opens   *)
(* on forward tunnels (handle_open_conn), and the listeners of reverse     *)
(* tunnels with the conns they accept (common/tcp.rs, udp.rs, socks.rs).   *)
(*                                                                         *)
(* Forward conns and reverse listeners are tasks of the session's JoinSet. *)
(* shutdown() aborts them at an await point and waits for each one, drop   *)
(* of its locals included.  The conns a reverse listener accepts are       *)
(* spawned with tokio::spawn: nothing aborts or awaits them.               *)
(*                                                                         *)
(* An action is one stretch of a task between two await points, split      *)
(* further where it makes several accesses to the registry.                *)
(***************************************************************************)
EXTENDS ServerState

CONSTANTS
    Streams,         \* the conns that a client opens with an OpenConn frame
    Via,             \* [Streams -> Clients]: the connection of that stream
    Direction,       \* [Tunnels -> {"Forward", "Reverse"}]
    Kind,            \* [Tunnels -> {"Tcp", "Udp", "Socks5"}]
    Dynamic,         \* [Conns -> {"None", "Tcp", "Udp"}]: OpenConn::dynamic
    AllowReverse,    \* ServerConfig::allow_reverse
    AllowSocks,      \* ServerConfig::allow_socks
    MaxConnections,  \* ServerConfig::max_connections
    MaxBytes         \* bound on the bytes counted per conn

\* The conns that a reverse listener of the server accepts.
Accepted == Conns \ Streams

\* A client names a tunnel its own hello was answered with, or a number that
\* is no tunnel's id (NoTunnel).
ASSUME SessionAssumption ==
    /\ Streams \subseteq Conns
    /\ Via \in [Streams -> Clients]
    /\ Direction \in [Tunnels -> {"Forward", "Reverse"}]
    /\ Kind \in [Tunnels -> {"Tcp", "Udp", "Socks5"}]
    /\ Dynamic \in [Conns -> {"None", "Tcp", "Udp"}]
    /\ AllowReverse \in BOOLEAN /\ AllowSocks \in BOOLEAN
    /\ MaxConnections \in Nat \ {0}
    /\ MaxBytes \in Nat
    /\ \A c \in Streams : TunnelOf[c] # NoTunnel => Owner[TunnelOf[c]] = Via[c]
    /\ \A c \in Accepted : /\ TunnelOf[c] \in Tunnels
                           /\ Direction[TunnelOf[c]] = "Reverse"

VARIABLES
    permits,   \* the clients whose task holds a permit of the semaphore
    phase,     \* where a client's handle_client_connection is
    link,      \* whether a client's QUIC connection is up
    listener,  \* the task of a reverse tunnel's listener
    stage      \* the task of a conn

vars == <<registry, permits, phase, link, listener, stage>>

Phases == {"none", "refused", "accepted", "hello", "replying", "serving",
           "aborting", "deregistering", "leaving", "ended"}

ListenerStates == {"none", "binding", "listening", "stopped"}

\* "handshake": the SOCKS5 handshake of an accepted socket; "spawned": before
\* the bi-stream is open, or before the OpenConn frame is read; "opened":
\* before the OpenConnResponse is through; "agreed": the relay; "closing": the
\* drop of the ConnGuard.
Stages == {"none", "handshake", "spawned", "opened", "agreed", "closing",
           "done"}

TypeOK ==
    /\ RegistryTypeOK
    /\ permits \in SUBSET Clients
    /\ phase \in [Clients -> Phases]
    /\ link \in [Clients -> BOOLEAN]
    /\ listener \in [Tunnels -> ListenerStates]
    /\ stage \in [Conns -> Stages]

Init ==
    /\ RegistryInit
    /\ permits = {}
    /\ phase = [k \in Clients |-> "none"]
    /\ link = [k \in Clients |-> FALSE]
    /\ listener = [t \in Tunnels |-> "none"]
    /\ stage = [c \in Conns |-> "none"]

-----------------------------------------------------------------------------
(* Helpers.                                                                *)

Declared(k) == {t \in Tunnels : Owner[t] = k}

ClientOf(c) == IF c \in Streams THEN Via[c] ELSE Owner[TunnelOf[c]]

ConnsOf(k) == {c \in Conns : ClientOf(c) = k}

\* The hello is rejected as a whole for its first offending remote.
validate_remotes(ts) ==
    \A t \in ts : /\ Direction[t] = "Reverse" => AllowReverse
                  /\ Kind[t] = "Socks5" => AllowSocks

\* What the relay of an OpenConn speaks to its target, or "Err".
resolve_dispatch(t, dynamic) ==
    IF Direction[t] # "Forward" THEN "Err"
    ELSE IF Kind[t] # "Socks5" /\ dynamic = "None" THEN Kind[t]
    ELSE IF Kind[t] = "Socks5" /\ dynamic # "None" THEN dynamic
    ELSE "Err"

\* The task of c, once it relays, runs tunnel_tcp_stream.
RelaysTcp(c) ==
    IF c \in Streams THEN resolve_dispatch(TunnelOf[c], Dynamic[c]) = "Tcp"
    ELSE Kind[TunnelOf[c]] = "Tcp" \/ (Kind[TunnelOf[c]] = "Socks5" /\ Dynamic[c] # "Udp")

\* The task of c is in a TCP relay, where it may wait for the local application for
\* ever: a copy that is stuck in a write to it does not look at the connection.
AtLocalPeer(c) == stage[c] = "agreed" /\ RelaysTcp(c)

\* The stage in which a conn's task calls register_conn: a forward conn and a
\* reverse TCP conn when the OpenConn is agreed, a SOCKS5 CONNECT when its
\* stream is open, a UDP conn first of all.
RegisterAt(c) ==
    IF c \in Streams THEN "agreed"
    ELSE LET kind == Kind[TunnelOf[c]] IN
         CASE kind = "Tcp"                              -> "agreed"
           [] kind = "Socks5" /\ Dynamic[c] # "Udp"     -> "opened"
           [] OTHER                                     -> "spawned"

\* The task of c is suspended in an await, or about to be.  From the stage in
\* which it registers it goes on only with the guard in hand.
AtAwait(c) ==
    /\ stage[c] \in {"handshake", "spawned", "opened", "agreed"}
    /\ stage[c] = RegisterAt(c) => guard[c] = "held"

\* Fault: the guard is leaked on the way out.
FinishLeaks(c) == stage' = [stage EXCEPT ![c] = "done"]

\* The task of c returns or is dropped, and with it the guard it holds.
Finish(c) ==
    stage' = [stage EXCEPT ![c] = IF guard[c] = "held" THEN "closing" ELSE "done"]

Goto(k, p) == phase' = [phase EXCEPT ![k] = p]

-----------------------------------------------------------------------------
(* The accept loop of run_async and handle_client_connection.              *)

\* try_acquire_owned: at the cap the connection is refused, not queued.
Accept(k) ==
    /\ phase[k] = "none"
    /\ \/ /\ Cardinality(permits) < MaxConnections
          /\ permits' = permits \cup {k}
          /\ link' = [link EXCEPT ![k] = TRUE]
          /\ Goto(k, "accepted")
       \/ /\ Cardinality(permits) >= MaxConnections
          /\ Goto(k, "refused")
          /\ UNCHANGED <<permits, link>>
    /\ UNCHANGED <<registry, listener, stage>>

\* The connection is closed by the peer or by ^C, or times out.
Lose(k) ==
    /\ link[k]
    /\ link' = [link EXCEPT ![k] = FALSE]
    /\ UNCHANGED <<registry, permits, phase, listener, stage>>

Connected(k) ==
    /\ phase[k] = "accepted"
    /\ register_client(k)
    /\ Goto(k, "hello")
    /\ UNCHANGED <<permits, link, listener, stage>>

HandshakeFails(k) ==
    /\ phase[k] = "accepted"
    /\ Goto(k, "leaving")
    /\ UNCHANGED <<registry, permits, link, listener, stage>>

\* The hello is read and passes: its tunnels exist before it is answered.
HelloAccepted(k) ==
    /\ phase[k] = "hello"
    /\ validate_remotes(Declared(k))
    /\ register_tunnels(k, Declared(k))
    /\ Goto(k, "replying")
    /\ UNCHANGED <<permits, link, listener, stage>>

\* No stream, no readable frame, or a remote that the policy forbids: the
\* session is deregistered at once, no task of the JoinSet exists yet.
HelloRejected(k) ==
    /\ phase[k] = "hello"
    /\ RemoveClient(k)
    /\ Goto(k, "deregistering")
    /\ UNCHANGED <<permits, link, listener, stage>>

\* The answer is written and the reverse handlers are spawned.
Established(k) ==
    /\ phase[k] = "replying"
    /\ link[k]
    /\ Goto(k, "serving")
    /\ listener' = [t \in Tunnels |->
                       IF t \in client_tunnels[k] /\ Direction[t] = "Reverse"
                       THEN "binding" ELSE listener[t]]
    /\ UNCHANGED <<registry, permits, link, stage>>

\* The answer cannot be written: the tunnels are already registered.
ReplyFails(k) ==
    /\ phase[k] = "replying"
    /\ ~ link[k]
    /\ RemoveClient(k)
    /\ Goto(k, "deregistering")
    /\ UNCHANGED <<permits, link, listener, stage>>

\* Fault: the permit is returned when the connection ends, not when the task does.
ConnectionEndsReleases(k) ==
    /\ phase[k] = "serving"
    /\ ~ link[k]
    /\ Goto(k, "aborting")
    /\ permits' = permits \ {k}
    /\ UNCHANGED <<registry, link, listener, stage>>

\* accept_bi reports the end of the connection: tunnels.shutdown() begins.
ConnectionEnds(k) ==
    /\ phase[k] = "serving"
    /\ ~ link[k]
    /\ Goto(k, "aborting")
    /\ UNCHANGED <<registry, permits, link, listener, stage>>

\* The tasks of the session's JoinSet that have not completed.
JoinSetConns(k) == {c \in Streams : Via[c] = k /\ stage[c] \notin {"none", "done"}}

JoinSetListeners(k) ==
    {t \in Tunnels : Owner[t] = k /\ listener[t] \in {"binding", "listening"}}

\* Fault: abort_all() in place of shutdown(): nobody waits for the tasks.
AbortAllReturns(k) ==
    /\ phase[k] = "aborting"
    /\ RemoveClient(k)
    /\ Goto(k, "deregistering")
    /\ UNCHANGED <<permits, link, listener, stage>>

\* shutdown() returns when the JoinSet is empty.
ShutdownReturns(k) ==
    /\ phase[k] = "aborting"
    /\ JoinSetConns(k) = {}
    /\ JoinSetListeners(k) = {}
    /\ RemoveClient(k)
    /\ Goto(k, "deregistering")
    /\ UNCHANGED <<permits, link, listener, stage>>

Deregister(k) ==
    /\ phase[k] = "deregistering"
    /\ deregister_client_step(k)
    /\ UNCHANGED <<permits, phase, link, listener, stage>>

\* The task of the connection ends: the permit is dropped, and a connection
\* that is still up is closed with its last handle.
Release(k) ==
    /\ \/ phase[k] = "leaving"
       \/ phase[k] = "deregistering" /\ dereg[k].at = "done"
    /\ Goto(k, "ended")
    /\ permits' = permits \ {k}
    /\ link' = [link EXCEPT ![k] = FALSE]
    /\ UNCHANGED <<registry, listener, stage>>

-----------------------------------------------------------------------------
(* The listeners of reverse tunnels.                                       *)

Bind(t) ==
    /\ listener[t] = "binding"
    /\ \E s \in {"listening", "stopped"} : listener' = [listener EXCEPT ![t] = s]
    /\ UNCHANGED <<registry, permits, phase, link, stage>>

\* Fault: a listener that is still binding escapes the abort.
AbortListenerBound(t) ==
    /\ phase[Owner[t]] = "aborting"
    /\ listener[t] = "listening"
    /\ listener' = [listener EXCEPT ![t] = "stopped"]
    /\ UNCHANGED <<registry, permits, phase, link, stage>>

AbortListener(t) ==
    /\ phase[Owner[t]] = "aborting"
    /\ listener[t] \in {"binding", "listening"}
    /\ listener' = [listener EXCEPT ![t] = "stopped"]
    /\ UNCHANGED <<registry, permits, phase, link, stage>>

-----------------------------------------------------------------------------
(* Conns.                                                                  *)

\* accept_bi yields a stream: handle_open_conn is spawned into the JoinSet.
AcceptStream(c) ==
    /\ stage[c] = "none"
    /\ phase[Via[c]] = "serving"
    /\ stage' = [stage EXCEPT ![c] = "spawned"]
    /\ UNCHANGED <<registry, permits, phase, link, listener>>

\* The OpenConn frame is read, its tunnel looked up in the flat index and the
\* relay resolved.  A frame that cannot be served is answered with Failed.
ReceiveOpenConn(c) ==
    /\ stage[c] = "spawned"
    /\ LET t == TunnelOf[c]
           ok == t \in tunnels /\ resolve_dispatch(t, Dynamic[c]) # "Err"
       IN stage' = [stage EXCEPT ![c] = IF ok THEN "opened" ELSE "done"]
    /\ UNCHANGED <<registry, permits, phase, link, listener>>

\* The listener accepts a socket, or a UDP listener or SOCKS5 relay sees a new
\* source: a detached task is spawned.
AcceptLocal(c) ==
    /\ stage[c] = "none"
    /\ listener[TunnelOf[c]] = "listening"
    /\ stage' = [stage EXCEPT ![c] = IF Kind[TunnelOf[c]] = "Socks5"
                                     THEN "handshake" ELSE "spawned"]
    /\ UNCHANGED <<registry, permits, phase, link, listener>>

SocksHandshake(c) ==
    /\ stage[c] = "handshake"
    /\ stage' = [stage EXCEPT ![c] = "spawned"]
    /\ UNCHANGED <<registry, permits, phase, link, listener>>

\* open_bi of an accepted conn returns a stream.
OpenBi(c) ==
    /\ stage[c] = "spawned"
    /\ AtAwait(c)
    /\ link[ClientOf(c)]
    /\ stage' = [stage EXCEPT ![c] = "opened"]
    /\ UNCHANGED <<registry, permits, phase, link, listener>>

\* The OpenConnResponse Ok is written (forward) or read (reverse).
Agree(c) ==
    /\ stage[c] = "opened"
    /\ AtAwait(c)
    /\ link[ClientOf(c)]
    /\ stage' = [stage EXCEPT ![c] = "agreed"]
    /\ UNCHANGED <<registry, permits, phase, link, listener>>

\* register_conn, called by the task of c in the stage RegisterAt(c).
register_conn(c) ==
    /\ stage[c] = RegisterAt(c)
    /\ ListConn(c) \/ IndexConn(c) \/ CountConn(c)
    /\ UNCHANGED <<permits, phase, link, listener, stage>>

\* The relay copies a byte, up to the bound.
Relay(c) ==
    /\ stage[c] = "agreed"
    /\ counters[c] < MaxBytes
    /\ Count(c)
    /\ UNCHANGED <<permits, phase, link, listener, stage>>

\* The relay is over, or a step before it fails.
TaskReturns(c) ==
    /\ AtAwait(c)
    /\ Finish(c)
    /\ UNCHANGED <<registry, permits, phase, link, listener>>

\* tunnels.shutdown() drops the future of a forward conn.
AbortConn(c) ==
    /\ phase[ClientOf(c)] = "aborting"
    /\ AtAwait(c)
    /\ Finish(c)
    /\ UNCHANGED <<registry, permits, phase, link, listener>>

\* ConnGuard::drop, the last thing the task of c does.
close_conn(c) ==
    /\ stage[c] = "closing"
    /\ \/ (FoldConn(c) \/ UnlistConn(c)) /\ UNCHANGED stage
       \/ UnindexConn(c) /\ stage' = [stage EXCEPT ![c] = "done"]
    /\ UNCHANGED <<permits, phase, link, listener>>

-----------------------------------------------------------------------------
(* The specification.                                                      *)

SessionStep(k) ==
    \/ Accept(k) \/ Lose(k) \/ Connected(k) \/ HandshakeFails(k)
    \/ HelloAccepted(k) \/ HelloRejected(k) \/ Established(k) \/ ReplyFails(k)
    \/ ConnectionEnds(k) \/ ShutdownReturns(k) \/ Deregister(k) \/ Release(k)

ConnStep(c) ==
    \/ Agree(c) \/ register_conn(c) \/ Relay(c) \/ TaskReturns(c) \/ close_conn(c)

\* Every slot of the model is used up; the server itself would go on accepting.
Quiescent ==
    /\ \A k \in Clients : phase[k] \in {"refused", "ended"}
    /\ \A c \in Conns : stage[c] \in {"none", "done"}
    /\ UNCHANGED vars

Next ==
    \/ \E k \in Clients : SessionStep(k)
    \/ \E t \in Tunnels : Bind(t) \/ AbortListener(t)
    \/ \E c \in Streams : AcceptStream(c) \/ ReceiveOpenConn(c) \/ AbortConn(c)
    \/ \E c \in Accepted : AcceptLocal(c) \/ SocksHandshake(c) \/ OpenBi(c)
    \/ \E c \in Conns : ConnStep(c)
    \/ Quiescent

Spec == Init /\ [][Next]_vars

\* What the runtime, the kernel and the transport guarantee: the QUIC handshake
\* completes or times out, a task that can run is run, and an await on a dead
\* connection returns an error.  Nothing makes a peer send, close or stop, and
\* nothing ends a wait for the local peer: a SOCKS5 handshake, or a TCP relay
\* (TcpRelay says when that one ends).
Fairness ==
    /\ \A k \in Clients :
        /\ WF_vars(Connected(k) \/ HandshakeFails(k))
        /\ WF_vars(~ link[k] /\ HelloRejected(k))
        /\ WF_vars(Established(k) \/ ReplyFails(k))
        /\ WF_vars(ConnectionEnds(k))
        /\ WF_vars(ShutdownReturns(k))
        /\ WF_vars(Deregister(k))
        /\ WF_vars(Release(k))
    /\ \A t \in Tunnels : WF_vars(AbortListener(t))
    /\ \A c \in Streams : WF_vars(AbortConn(c))
    /\ \A c \in Conns :
        /\ WF_vars(register_conn(c))
        /\ WF_vars(close_conn(c))
        /\ WF_vars(/\ ~ link[ClientOf(c)]
                   /\ stage[c] # "handshake" /\ ~ AtLocalPeer(c)
                   /\ TaskReturns(c))

FairSpec == Spec /\ Fairness

-----------------------------------------------------------------------------
(* Properties.                                                             *)

\* The registered clients never exceed max_connections: the permit taken before
\* handle_client_connection is spawned is released only after it has returned,
\* and with it after deregister_client.
CapHolds == Cardinality(clients) <= MaxConnections

\* The work of the JoinSet is scoped to the session: when deregister_client runs
\* no forward conn and no reverse listener of the client is alive, whatever each
\* of them was doing when the connection ended.
JoinSetScoped ==
    \A k \in Clients : phase[k] \in {"deregistering", "ended"} =>
        JoinSetConns(k) = {} /\ JoinSetListeners(k) = {}

\* handle_open_conn finds the tunnel a client was told of, however the frame is
\* delayed: the tunnels are indexed before the hello is answered and removed
\* after the last handle_open_conn of the session is gone.
OpenConnFindsTunnel ==
    \A c \in Streams : stage[c] \in {"spawned", "opened"} /\ TunnelOf[c] # NoTunnel
                        => TunnelOf[c] \in tunnels

\* An entry of either conn index belongs to a task that will remove it: no exit
\* path, abort or late registration leaves a conn behind without its guard.
EntriesGuarded ==
    /\ \A c \in conns : guard[c] \in {"indexed", "held", "folded", "unlisted"}
    /\ \A t \in Tunnels : \A c \in tunnel_conns[t] :
            TunnelOf[c] = t /\ guard[c] \in {"listed", "indexed", "held", "folded"}
    /\ \A c \in Conns : guard[c] \in {"listed", "indexed", "folded", "unlisted"}
                         => stage[c] \notin {"none", "done"}

\* While its client is registered, a conn that holds its guard is in the flat
\* index and below its tunnel, and the tunnel is in the flat index: the two views
\* the admin API serves agree.
ViewsAgree ==
    \A c \in Conns : guard[c] = "held" /\ ClientOf(c) \in clients =>
        /\ c \in conns
        /\ c \in tunnel_conns[TunnelOf[c]]
        /\ TunnelOf[c] \in tunnels \cap client_tunnels[ClientOf(c)]

\* The sum of f over a set of conns: the bytes that flowed through them if f is
\* counters, the n-th byte of conn c being <<c, n>>.
Sum(f, S) == Cardinality(UNION {{c} \X (1 .. f[c]) : c \in S})

\* What deregister_client should have recorded for client k.
ExactEntry(k) ==
    LET opened == {c \in ConnsOf(k) : guard[c] # "none"} IN
    [client_id   |-> k,
     bytes       |-> Sum(counters, opened),
     total_conns |-> Cardinality(opened)]

Least(m, n) == IF m <= n THEN m ELSE n

\* The ring holds the clients deregistered last, as many as it has room for, each
\* once and in that order: it is the end of the sequence of all of them, and a full
\* ring drops its oldest entry.  The entry of a client that declared only forward
\* tunnels is exact: every byte and every conn is counted once, although conns may be
\* aborted in the middle of a relay and close while the session is torn down, and
\* sessions end together (deregister_client, HISTORY_CAPACITY).
HistoryExact ==
    LET dropped == Len(departed) - Len(history) IN
    /\ Len(history) = Least(HISTORY_CAPACITY, Len(departed))
    /\ \A k \in Clients : dereg[k].at = "done" <=> \E i \in DOMAIN departed : departed[i] = k
    /\ \A i, j \in DOMAIN departed : departed[i] = departed[j] => i = j
    /\ \A i \in DOMAIN history :
            LET k == history[i].client_id IN
            /\ k = departed[dropped + i]
            /\ (\A t \in Declared(k) : Direction[t] = "Forward")
                => history[i] = ExactEntry(k)

\* Once a client is deregistered its tunnels are out of the flat index, and so
\* are its forward conns.
DeregisteredLeavesNothing ==
    \A k \in Clients : dereg[k].at = "done" =>
        /\ \A t \in tunnels : Owner[t] # k
        /\ \A c \in conns \cap Streams : Via[c] # k

\* A session whose connection is gone ends and returns its permit.
SessionEnds ==
    \A k \in Clients :
        (phase[k] \notin {"none", "refused"} /\ ~ link[k])
            ~> (phase[k] = "ended" /\ k \notin permits)

\* A conn that was registered leaves the registry once its connection is gone: a
\* forward conn whatever its applications do, because shutdown() aborts it, and a
\* detached reverse conn too, unless it is a TCP relay, which nothing aborts and which
\* may wait for its local application.
ConnsDrain ==
    \A c \in Conns :
        (guard[c] # "none" /\ ~ link[ClientOf(c)])
            ~> \/ c \notin conns /\ stage[c] = "done"
               \/ c \in Accepted /\ AtLocalPeer(c)

\* state.rs:276-277: "so the HistoryEntry reflects everything that flowed".
HistoryNeverOvercounts == \A i \in DOMAIN history : history[i].bytes <= ExactEntry(history[i].client_id).bytes
=============================================================================
