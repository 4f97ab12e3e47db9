--------------------------- MODULE ClientReconnect ---------------------------
(***************************************************************************)
(* The life of a Rusnel client (client/mod.rs): connect, run a session     *)
(* until it dies, sleep with exponential backoff, connect again, until the *)
(* retries are exhausted or a shutdown is requested by ^C or by the end of *)
(* a stdio tunnel.                                                         *)
(*                                                                         *)
(* Shutdown travels over a broadcast channel of capacity 1.  A receiver    *)
(* sees what is sent while it is subscribed, and nothing else: outer is    *)
(* the receiver of the reconnect loop, subscribed afresh in every round,   *)
(* inner the one a session subscribes once its tasks are spawned.  The     *)
(* task that waits for ^C returns after the first one.                     *)
(***************************************************************************)
EXTENDS Integers, FiniteSets

CONSTANTS
    RetryLimits,     \* values of ReconnectConfig::max_retries; NoLimit is None
    NoLimit,
    InitialBackoff,  \* ReconnectConfig::initial_backoff
    MaxBackoffs,     \* values of ReconnectConfig::max_backoff
    U32Max           \* the value at which attempt saturates

\* The initial backoff doubled k times.
Doubled[k \in Nat] == IF k = 0 THEN InitialBackoff ELSE 2 * Doubled[k - 1]

\* A Duration is shorter than 2^94 ns: it reaches any cap long before attempt
\* saturates, unless it is zero.
ASSUME ReconnectAssumption ==
    /\ NoLimit \notin Nat
    /\ U32Max \in Nat \ {0, 1}
    /\ RetryLimits \subseteq 0 .. (U32Max - 1) \cup {NoLimit}
    /\ InitialBackoff \in Nat
    /\ MaxBackoffs \subseteq Nat
    /\ \A m \in MaxBackoffs : InitialBackoff = 0 \/ Doubled[U32Max - 1] >= m

VARIABLES
    config,   \* the configuration, fixed at the start: the limit on retries, the
              \* cap of the backoff, whether a remote is a stdio tunnel, and
              \* whether the connection goes through a SOCKS5 proxy
    pc,       \* where run_with_reconnect / run_connection is
    attempt,
    backoff,
    redials,  \* history: connect attempts since the last connection, or since
              \* the first attempt, that attempt itself excluded
    link,     \* whether the QUIC connection is up
    outer,    \* a shutdown is pending in the loop's receiver
    inner,    \* a shutdown is pending in the session's receiver
    sigint,   \* the ^C task: "waiting" or "sent"
    stdio     \* the task of a stdio tunnel; "aborted": its last poll may still send

vars == <<config, pc, attempt, backoff, redials, link, outer, inner, sigint, stdio>>

\* "hello" to "session" is run_connection; "spawned": its tasks run and its
\* receiver is not subscribed yet.
Places == {"subscribe", "connecting", "hello", "spawned", "session", "failed",
           "sleeping", "stopped", "gave_up"}

Exited == {"stopped", "gave_up"}

Configs == [max_retries : RetryLimits, max_backoff : MaxBackoffs,
            has_stdio : BOOLEAN, proxied : BOOLEAN]

TypeOK ==
    /\ config \in Configs
    /\ pc \in Places
    /\ attempt \in 0 .. U32Max
    /\ backoff \in Nat
    /\ redials \in 0 .. U32Max
    /\ link \in BOOLEAN
    /\ outer \in BOOLEAN
    /\ inner \in BOOLEAN
    /\ sigint \in {"waiting", "sent"}
    /\ stdio \in {"none", "running", "aborted", "done"}

Init ==
    /\ config \in Configs
    /\ pc = "subscribe"
    /\ attempt = 0
    /\ backoff = InitialBackoff
    /\ redials = 0
    /\ link = FALSE
    /\ outer = FALSE
    /\ inner = FALSE
    /\ sigint = "waiting"
    /\ stdio = "none"

-----------------------------------------------------------------------------
(* The broadcast channel.                                                  *)

\* Fault: the loop subscribes for each select! instead of once per round.
OuterSubscribedPerSelect == pc \in {"connecting", "sleeping"}

OuterSubscribed == pc \notin {"subscribe"} \cup Exited

InnerSubscribed == pc = "session"

\* shutdown_tx.send(()): without a receiver the message is gone.
Broadcast ==
    /\ outer' = (outer \/ OuterSubscribed)
    /\ inner' = (inner \/ InnerSubscribed)

\* signal::ctrl_c() resolves.
Interrupt ==
    /\ pc \notin Exited
    /\ sigint = "waiting"
    /\ sigint' = "sent"
    /\ Broadcast
    /\ UNCHANGED <<config, pc, attempt, backoff, redials, link, stdio>>

\* The stdio tunnel ends: end of input, refusal or a dead connection.
StdioEnds ==
    /\ stdio \in {"running", "aborted"}
    /\ stdio' = "done"
    /\ Broadcast
    /\ UNCHANGED <<config, pc, attempt, backoff, redials, link, sigint>>

-----------------------------------------------------------------------------
(* run_with_reconnect and run_connection.                                  *)

next_backoff(current) ==
    IF 2 * current < config.max_backoff THEN 2 * current ELSE config.max_backoff

saturating_add(n) == IF n = U32Max THEN U32Max ELSE n + 1

\* The top of a round: the previous receiver is dropped, a fresh one sees
\* nothing that was sent before.
Subscribe ==
    /\ pc = "subscribe"
    /\ pc' = "connecting"
    /\ outer' = FALSE
    /\ UNCHANGED <<config, attempt, backoff, redials, link, inner, sigint, stdio>>

\* Fault: a connection does not reset the backoff.
ConnectedKeepsBackoff ==
    /\ pc = "connecting"
    /\ pc' = "hello"
    /\ link' = TRUE
    /\ attempt' = 0
    /\ redials' = 0
    /\ UNCHANGED <<config, backoff, outer, inner, sigint, stdio>>

Connected ==
    /\ pc = "connecting"
    /\ pc' = "hello"
    /\ link' = TRUE
    /\ attempt' = 0
    /\ backoff' = InitialBackoff
    /\ redials' = 0
    /\ UNCHANGED <<config, outer, inner, sigint, stdio>>

\* Fault: the counter is reset by an attempt, not by a connection.
ConnectFailsResets ==
    /\ pc = "connecting"
    /\ pc' = "failed"
    /\ attempt' = 0
    /\ UNCHANGED <<config, backoff, redials, link, outer, inner, sigint, stdio>>

ConnectFails ==
    /\ pc = "connecting"
    /\ pc' = "failed"
    /\ UNCHANGED <<config, attempt, backoff, redials, link, outer, inner, sigint, stdio>>

\* The hello is accepted: the listeners, the stdio task and the accept loop of
\* reverse conns are spawned.
HelloAccepted ==
    /\ pc = "hello"
    /\ link
    /\ pc' = "spawned"
    /\ stdio' = IF config.has_stdio THEN "running" ELSE "none"
    /\ UNCHANGED <<config, attempt, backoff, redials, link, outer, inner, sigint>>

\* The hello is rejected, or the connection is lost before it is answered; the
\* connection is closed with its last handle.
HelloFails ==
    /\ pc = "hello"
    /\ pc' = "failed"
    /\ link' = FALSE
    /\ UNCHANGED <<config, attempt, backoff, redials, outer, inner, sigint, stdio>>

SubscribeSession ==
    /\ pc = "spawned"
    /\ pc' = "session"
    /\ inner' = FALSE
    /\ UNCHANGED <<config, attempt, backoff, redials, link, outer, sigint, stdio>>

LinkDies ==
    /\ link
    /\ link' = FALSE
    /\ UNCHANGED <<config, pc, attempt, backoff, redials, outer, inner, sigint, stdio>>

\* A shutdown is received: the connection is closed, the tasks are aborted and
\* the client returns.
SessionShutdown ==
    /\ pc = "session"
    /\ inner
    /\ pc' = "stopped"
    /\ link' = FALSE
    /\ inner' = FALSE
    /\ stdio' = "none"
    /\ UNCHANGED <<config, attempt, backoff, redials, outer, sigint>>

\* Fault: the session's select! waits for a shutdown only.
SessionLostUnwatched == pc = "session" /\ ~ link /\ UNCHANGED vars

\* connection.closed() resolves: the tasks are aborted.
SessionLost ==
    /\ pc = "session"
    /\ ~ link
    /\ pc' = "failed"
    /\ inner' = FALSE
    /\ stdio' = IF stdio = "running" THEN "aborted" ELSE stdio
    /\ UNCHANGED <<config, attempt, backoff, redials, link, outer, sigint>>

StdioAborted ==
    /\ stdio = "aborted"
    /\ stdio' = "none"
    /\ UNCHANGED <<config, pc, attempt, backoff, redials, link, outer, inner, sigint>>

Limited == config.max_retries # NoLimit

\* Fault: attempt >= max.
RetryGivesUpEarly ==
    /\ pc = "failed"
    /\ attempt' = saturating_add(attempt)
    /\ pc' = IF Limited /\ attempt' >= config.max_retries THEN "gave_up"
                                                         ELSE "sleeping"
    /\ UNCHANGED <<config, backoff, redials, link, outer, inner, sigint, stdio>>

\* Fault: a missing limit is taken for the largest one.
RetryAlwaysLimited ==
    /\ pc = "failed"
    /\ attempt' = saturating_add(attempt)
    /\ pc' = IF attempt = U32Max THEN "gave_up" ELSE "sleeping"
    /\ UNCHANGED <<config, backoff, redials, link, outer, inner, sigint, stdio>>

Retry ==
    /\ pc = "failed"
    /\ attempt' = saturating_add(attempt)
    /\ pc' = IF Limited /\ attempt' > config.max_retries THEN "gave_up"
                                                        ELSE "sleeping"
    /\ UNCHANGED <<config, backoff, redials, link, outer, inner, sigint, stdio>>

\* The timer fires, possibly together with a shutdown: select! picks either.
SleepEnds ==
    /\ pc = "sleeping"
    /\ pc' = "subscribe"
    /\ backoff' = next_backoff(backoff)
    /\ redials' = saturating_add(redials)
    /\ UNCHANGED <<config, attempt, link, outer, inner, sigint, stdio>>

\* The loop's receiver yields a shutdown while connecting or sleeping.
LoopShutdown ==
    /\ pc \in {"connecting", "sleeping"}
    /\ outer
    /\ pc' = "stopped"
    /\ UNCHANGED <<config, attempt, backoff, redials, link, outer, inner, sigint, stdio>>

Terminated == pc \in Exited /\ UNCHANGED vars

Next ==
    \/ Interrupt \/ StdioEnds \/ StdioAborted \/ LinkDies
    \/ Subscribe \/ Connected \/ ConnectFails \/ HelloAccepted \/ HelloFails
    \/ SubscribeSession \/ SessionShutdown \/ SessionLost \/ Retry \/ SleepEnds
    \/ LoopShutdown \/ Terminated

Spec == Init /\ [][Next]_vars

(***************************************************************************)
(* The runtime polls every ready task, timers fire, a direct connect       *)
(* attempt succeeds or fails (QUIC's handshake timeout) and a server       *)
(* answers a hello or the connection is lost.  Nobody has to press ^C, end *)
(* standard input or cut the link, and no proxy has to answer: nothing     *)
(* bounds the negotiation with it.                                         *)
(***************************************************************************)
Fairness ==
    /\ WF_vars(Subscribe)
    /\ WF_vars(~ config.proxied /\ (Connected \/ ConnectFails))
    /\ WF_vars(HelloAccepted \/ HelloFails)
    /\ WF_vars(SubscribeSession)
    /\ WF_vars(SessionShutdown)
    /\ WF_vars(SessionLost)
    /\ WF_vars(Retry)
    /\ WF_vars(SleepEnds)
    /\ WF_vars(LoopShutdown)

FairSpec == Spec /\ Fairness

-----------------------------------------------------------------------------
(* Properties.                                                             *)

\* The sleep before the k-th retry of a streak is the initial backoff doubled k - 1
\* times, up to the cap, and a connection starts the streak again: attempt, backoff
\* and their two resets (run_with_reconnect) stay in step.  The cap is applied when
\* the backoff is doubled: the first sleep is the initial backoff itself, also when
\* the cap is smaller.
BackoffFollowsStreak ==
    pc = "sleeping" =>
        /\ attempt >= 1
        /\ LET doubled == Doubled[attempt - 1]
           IN  backoff = IF attempt = 1 \/ doubled < config.max_backoff THEN doubled
                                                                       ELSE config.max_backoff

\* A limited client gives up after exactly max_retries reconnect attempts,
\* counted from the last connection or from the failure of the first attempt
\* (run_with_reconnect: attempt > max).
RetriesCounted ==
    Limited =>
        /\ redials <= config.max_retries
        /\ pc = "gave_up" => redials = config.max_retries

\* A shutdown pending in a running session is pending in the reconnect loop
\* too: when connection.closed() wins the session's select!, the loop still
\* finds the shutdown before it sleeps (run_connection, run_with_reconnect).
LoopSeesSessionShutdown == inner => outer

\* A proxy that takes the connection and stops answering holds an attempt for
\* ever (establish_socks5_udp_associate has no timeout).
StalledAtProxy == config.proxied /\ <>[](pc = "connecting")

\* A limited client that from some time on gets no connection returns: with an
\* error, or because of a shutdown.  Only a silent proxy can hold it.
RetriesExhausted ==
    Limited /\ <>[](pc \notin {"hello", "spawned", "session"}) =>
        <>(pc \in Exited) \/ StalledAtProxy

\* An unlimited client never stalls: it starts one attempt after another, stays
\* in a session, or was shut down.  Only a silent proxy can hold it.
KeepsReconnecting ==
    \/ Limited
    \/ []<>(pc = "subscribe")
    \/ <>[](pc = "session")
    \/ <>(pc = "stopped")
    \/ StalledAtProxy

\* The comment on the ^C listener (run_async): sessions subscribe to it "so a
\* shutdown wins over both an in-progress reconnect sleep and a running
\* connection": one requested while the connection is up ends the connection.
ShutdownWins == outer /\ link ~> ~ link
=============================================================================
