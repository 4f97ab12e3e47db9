------------------------------- MODULE UdpConns -------------------------------
(***************************************************************************)
(* The UDP listener of a tunnel (tunnel_udp_client in common/udp.rs): one  *)
(* loop receives datagrams and hands each to the conn of its source, which *)
(* it finds, replaces or creates in a map shared with the conns' tasks.    *)
(* SOCKS5 UDP (run_socks_udp_relay) keys its map by source and target and  *)
(* is otherwise the same code.                                             *)
(*                                                                         *)
(* The map holds the sending half of a conn's queue.  A conn's task drops  *)
(* the receiving half when it is done and then removes its key, whatever   *)
(* the map holds for it by then; loop and tasks run on different threads.  *)
(*                                                                         *)
(* The far end of a conn (tunnel_udp_server) is two pumps joined, not      *)
(* selected: one reads the stream, the other the target's socket.  Dropped *)
(* streams tell the other end: a reader sees the end of the stream at      *)
(* once, a writer only when it writes.                                     *)
(***************************************************************************)
EXTENDS Integers, FiniteSets

CONSTANTS
    Keys,          \* sources of datagrams
    MaxDatagrams,  \* bound on the datagrams received, and so on the conns
    Capacity,      \* CONN_CHANNEL_CAPACITY
    IdleTimeout,   \* CONN_IDLE_TIMEOUT, in ticks of the clock
    Chatty         \* conns to whose far socket the target never stops sending

ASSUME UdpAssumption ==
    /\ Keys # {}
    /\ MaxDatagrams \in Nat
    /\ Capacity \in Nat \ {0}
    /\ IdleTimeout \in Nat \ {0}
    /\ Chatty \subseteq 1 .. MaxDatagrams

Conns == 1 .. MaxDatagrams

NoConn == 0

VARIABLES
    conns,     \* the map: the conn a key's sender belongs to, or NoConn
    loop,      \* the receive loop: [at, key, tx]; tx is the sender it holds
    received,  \* datagrams received so far
    key,       \* the key a conn was created for
    stage,     \* where a conn's task is
    queue,     \* datagrams in its channel
    age,       \* ticks its task has waited for a datagram from the loop
    far        \* the pumps of its far end that run

vars == <<conns, loop, received, key, stage, queue, age, far>>

Stages == {"unused", "opening", "relaying", "ended", "gone"}

Live == {"opening", "relaying"}

\* pump_stream_to_socket and pump_socket_to_stream.
Pumps == {"in", "out"}

AnyKey == CHOOSE k \in Keys : TRUE

\* The loop in recv_from; its locals are out of scope.
Waiting == [at |-> "recv", key |-> AnyKey, tx |-> NoConn]

TypeOK ==
    /\ conns \in [Keys -> Conns \cup {NoConn}]
    /\ loop \in [at : {"recv", "check", "evict", "open", "send", "aborted"},
                 key : Keys, tx : Conns \cup {NoConn}]
    /\ received \in 0 .. MaxDatagrams
    /\ key \in [Conns -> Keys]
    /\ stage \in [Conns -> Stages]
    /\ queue \in [Conns -> 0 .. Capacity]
    /\ age \in [Conns -> 0 .. IdleTimeout]
    /\ far \in [Conns -> SUBSET Pumps]

Init ==
    /\ conns = [k \in Keys |-> NoConn]
    /\ loop = Waiting
    /\ key = [c \in Conns |-> AnyKey]
    /\ received = 0
    /\ stage = [c \in Conns |-> "unused"]
    /\ queue = [c \in Conns |-> 0]
    /\ age = [c \in Conns |-> 0]
    /\ far = [c \in Conns |-> {}]

-----------------------------------------------------------------------------
(* The receive loop.                                                       *)

is_closed(c) == stage[c] \in {"ended", "gone"}

\* recv_from returns a datagram of key k and conns.get clones its sender.
Receive(k) ==
    /\ loop.at = "recv"
    /\ received < MaxDatagrams
    /\ received' = received + 1
    /\ loop' = [at |-> IF conns[k] = NoConn THEN "open" ELSE "check",
                key |-> k, tx |-> conns[k]]
    /\ UNCHANGED <<conns, key, stage, queue, age, far>>

Check ==
    /\ loop.at = "check"
    /\ loop' = [loop EXCEPT !.at = IF is_closed(loop.tx) THEN "evict" ELSE "send"]
    /\ UNCHANGED <<conns, received, key, stage, queue, age, far>>

Evict ==
    /\ loop.at = "evict"
    /\ conns' = [conns EXCEPT ![loop.key] = NoConn]
    /\ loop' = [loop EXCEPT !.at = "open"]
    /\ UNCHANGED <<received, key, stage, queue, age, far>>

\* A new channel enters the map and its task is spawned.
Open ==
    /\ loop.at = "open"
    /\ \E c \in Conns :
        /\ stage[c] = "unused"
        /\ \A d \in Conns : d < c => stage[d] # "unused"
        /\ conns' = [conns EXCEPT ![loop.key] = c]
        /\ key' = [key EXCEPT ![c] = loop.key]
        /\ stage' = [stage EXCEPT ![c] = "opening"]
        /\ loop' = [loop EXCEPT !.at = "send", !.tx = c]
    /\ UNCHANGED <<received, queue, age, far>>

\* try_send drops the datagram of a full or closed channel; the loop's own
\* sender goes out of scope.
Send ==
    /\ loop.at = "send"
    /\ queue' = [queue EXCEPT ![loop.tx] =
                    IF is_closed(loop.tx) \/ @ = Capacity THEN @ ELSE @ + 1]
    /\ loop' = Waiting
    /\ UNCHANGED <<conns, received, key, stage, age, far>>

\* The listener's task is aborted at its only await, or recv_from fails.  The
\* conns keep the map, and with it their own senders, alive.
ListenerEnds ==
    /\ loop.at = "recv"
    /\ loop' = [loop EXCEPT !.at = "aborted"]
    /\ UNCHANGED <<conns, received, key, stage, queue, age, far>>

-----------------------------------------------------------------------------
(* The task of a conn: run_udp_conn, then the removal of its key.          *)

\* open_bi and send_open_conn succeed; the far end answers before it dials, and
\* may then find no address or no socket.
Opened(c) ==
    /\ stage[c] = "opening"
    /\ stage' = [stage EXCEPT ![c] = "relaying"]
    /\ \E pumps \in {Pumps, {}} : far' = [far EXCEPT ![c] = pumps]
    /\ UNCHANGED <<conns, loop, received, key, queue, age>>

\* run_udp_conn returns: the receiving half and what it holds are dropped.
Ends(c) ==
    /\ stage' = [stage EXCEPT ![c] = "ended"]
    /\ queue' = [queue EXCEPT ![c] = 0]
    /\ age' = [age EXCEPT ![c] = 0]
    /\ UNCHANGED <<conns, loop, received, key, far>>

\* An error of the QUIC stream or of the socket.
Fails(c) == stage[c] \in Live /\ Ends(c)

\* read_datagram finds the end of the stream once the far end stopped writing.
StreamEnds(c) ==
    /\ stage[c] = "relaying"
    /\ "out" \notin far[c]
    /\ Ends(c)

\* Writing fails when the far end stopped reading.
Forward(c) ==
    /\ stage[c] = "relaying"
    /\ queue[c] > 0
    /\ "in" \in far[c]
    /\ queue' = [queue EXCEPT ![c] = @ - 1]
    /\ age' = [age EXCEPT ![c] = 0]
    /\ UNCHANGED <<conns, loop, received, key, stage, far>>

ForwardFails(c) ==
    /\ stage[c] = "relaying"
    /\ queue[c] > 0
    /\ "in" \notin far[c]
    /\ Ends(c)

HasSender(c) == loop.tx = c \/ \E k \in Keys : conns[k] = c

\* Fault: None is taken for nothing to do, and the wait starts over.
NoSenderSpins(c) ==
    /\ stage[c] = "relaying"
    /\ queue[c] = 0
    /\ ~ HasSender(c)
    /\ age' = [age EXCEPT ![c] = 0]
    /\ UNCHANGED <<conns, loop, received, key, stage, queue, far>>

\* rx.recv() yields None.
NoSender(c) ==
    /\ stage[c] = "relaying"
    /\ queue[c] = 0
    /\ ~ HasSender(c)
    /\ Ends(c)

\* Fault: off by one, the timer never fires.
TimesOutLate(c) ==
    /\ stage[c] = "relaying"
    /\ queue[c] = 0
    /\ age[c] > IdleTimeout
    /\ Ends(c)

TimesOut(c) ==
    /\ stage[c] = "relaying"
    /\ queue[c] = 0
    /\ age[c] = IdleTimeout
    /\ Ends(c)

\* Fault: the key stays in the map.
RemoveForgotten(c) ==
    /\ stage[c] = "ended"
    /\ stage' = [stage EXCEPT ![c] = "gone"]
    /\ UNCHANGED <<conns, loop, received, key, queue, age, far>>

\* drop(conn_guard); conns.remove(&source).
Remove(c) ==
    /\ stage[c] = "ended"
    /\ stage' = [stage EXCEPT ![c] = "gone"]
    /\ conns' = [conns EXCEPT ![key[c]] = NoConn]
    /\ UNCHANGED <<loop, received, key, queue, age, far>>

-----------------------------------------------------------------------------
(* The far end: tunnel_udp_stream.                                         *)

Streaming(c) == stage[c] = "relaying"

PumpEnds(c, pump) ==
    /\ pump \in far[c]
    /\ far' = [far EXCEPT ![c] = @ \ {pump}]
    /\ UNCHANGED <<conns, loop, received, key, stage, queue, age>>

\* The end of the stream.
InEnds(c) == ~ Streaming(c) /\ PumpEnds(c, "in")

\* An error of the far socket, in send_to or recv_from.
PumpFails(c) == \E pump \in Pumps : Streaming(c) /\ PumpEnds(c, pump)

\* A datagram of the target.  It reaches the source, and does not restart the
\* timeout there.
Reply(c) ==
    /\ "out" \in far[c]
    /\ Streaming(c)
    /\ UNCHANGED vars

\* Fault: the failed write is logged and the pump goes on.
OutRunsOn(c) ==
    /\ "out" \in far[c]
    /\ ~ Streaming(c)
    /\ UNCHANGED vars

\* A datagram of the target that the pump cannot write any more.
OutEnds(c) == ~ Streaming(c) /\ PumpEnds(c, "out")

-----------------------------------------------------------------------------

\* Time passes; a due timer is handled before the clock moves on.
Tick ==
    /\ \A c \in Conns : stage[c] = "relaying" => queue[c] = 0 /\ age[c] < IdleTimeout
    /\ age' = [c \in Conns |-> IF stage[c] = "relaying" THEN age[c] + 1 ELSE age[c]]
    /\ UNCHANGED <<conns, loop, received, key, stage, queue, far>>

Listener == (\E k \in Keys : Receive(k)) \/ Check \/ Evict \/ Open \/ Send

Task(c) ==
    \/ Opened(c) \/ Fails(c) \/ StreamEnds(c) \/ Forward(c) \/ ForwardFails(c)
    \/ NoSender(c) \/ TimesOut(c) \/ Remove(c)

FarEnd(c) == InEnds(c) \/ PumpFails(c) \/ Reply(c) \/ OutEnds(c)

Next == Listener \/ ListenerEnds \/ Tick \/ \E c \in Conns : Task(c) \/ FarEnd(c)

Spec == Init /\ [][Next]_vars

\* Time passes, ready tasks are polled, the end of a stream arrives and an
\* OpenConn is answered or fails; no datagram has to arrive, and only the target
\* of a chatty conn has to send.
Fairness ==
    /\ WF_vars(Check \/ Evict \/ Open \/ Send)
    /\ WF_vars(Tick)
    /\ \A c \in Conns :
        /\ WF_vars(Opened(c) \/ (stage[c] = "opening" /\ Fails(c)))
        /\ WF_vars(StreamEnds(c) \/ Forward(c) \/ ForwardFails(c) \/ NoSender(c)
                   \/ TimesOut(c))
        /\ WF_vars(Remove(c))
        /\ WF_vars(InEnds(c))
        /\ WF_vars(c \in Chatty /\ OutEnds(c))

FairSpec == Spec /\ Fairness

-----------------------------------------------------------------------------
(* Properties.                                                             *)

\* A finished task leaves nothing behind in the map: the entry of a conn that is
\* gone is never found again, and no entry points to a conn that never started.
MapForgets == \A k \in Keys : conns[k] # NoConn => stage[conns[k]] \notin {"unused", "gone"}

\* The map does not grow without bound under churn: once no datagram arrives in
\* either direction any more, from the source or from its target, the entry of
\* the source goes, also under an aborted listener.  (The doc of
\* CONN_IDLE_TIMEOUT counts both directions; a chatty conn, whose replies the
\* code's timer ignores, is left out.)
MapDrains == <>[](\A k \in Keys : conns[k] = NoConn \/ conns[k] \in Chatty)

\* No task lingers once its sender is unreachable, and none lingers unlisted.
UnlistedEnds ==
    \A c \in Conns : stage[c] \in Live /\ ~ HasSender(c) ~> stage[c] = "gone"

\* The doc of tunnel_udp_client: "Conns are torn down after `CONN_IDLE_TIMEOUT`
\* of inactivity", so not because the map lost the sender of a conn in use.
EndsOnlyIdle == \A c \in Conns : Streaming(c) => HasSender(c)

\* A far end does not outlive its conn for ever: its socket is closed once the
\* target sends again, whichever pump stopped first and for whatever reason.  (A
\* target that stays silent keeps the far end until the session ends.)
FarReleased == \A c \in Chatty : is_closed(c) ~> far[c] = {}
=============================================================================
