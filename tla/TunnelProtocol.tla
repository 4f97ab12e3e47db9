--------------------------- MODULE TunnelProtocol ---------------------------
(***************************************************************************)
(* Both ends of the session protocol (common/tunnel.rs, client/mod.rs,     *)
(* server/mod.rs) across reconnects: the hello that declares the remotes   *)
(* and is answered with their tunnel ids, the listeners each end binds for *)
(* its share of them, and the OpenConn frames that name a tunnel by id and *)
(* make the other end dial.  Connections are cut, either end notices on    *)
(* its own, the server restarts and counts ids from the start again.       *)
(*                                                                         *)
(* Sessions are numbered by the connections of one client; other clients   *)
(* show only in the ids they take.  A frame crosses while both ends hold   *)
(* the connection and it is not cut.                                       *)
(***************************************************************************)
EXTENDS Naturals, Sequences, FiniteSets

CONSTANTS
    Remotes,      \* the client's remotes: records of dir, kind and target
    Conns,        \* connections accepted by any listener
    Dynamic,      \* targets a SOCKS5 client may ask for
    Nowhere,      \* no target
    MaxSessions,  \* bound: connections of the client
    MaxGap,       \* bound: ids other clients take in between
    MaxRestarts   \* bound: restarts of the server

Tunnels == DOMAIN Remotes

Sessions == 1 .. MaxSessions

Ends == {"client", "server"}

Other(e) == CHOOSE f \in Ends : f # e

ASSUME ProtocolAssumption ==
    /\ MaxSessions \in Nat \ {0}
    /\ MaxGap \in Nat
    /\ MaxRestarts \in Nat
    /\ Nowhere \notin Dynamic
    /\ Remotes \in Seq({Remotes[i] : i \in Tunnels})
    /\ Remotes # <<>>
    /\ \A i \in Tunnels :
        /\ Remotes[i].dir \in {"forward", "reverse"}
        /\ Remotes[i].kind \in {"tcp", "udp", "socks"}
        /\ Remotes[i].target # Nowhere

VARIABLES
    policy,    \* allow_reverse and allow_socks, whether a hello fits the cap, and how
               \* many ids other clients take between two of a batch
    cur,       \* the client's latest session
    alive,     \* per session, the ends that hold its connection
    cut,       \* sessions whose packets no longer arrive
    place,     \* per session and end: where run_connection or
               \* handle_client_connection is
    reply,     \* per session, the answer to the hello on its way: the assigned ids in
               \* the hello's order, or Failed
    known,     \* per session, the ids the client was told
    registry,  \* the server's flat index: tunnel id to remote
    nextId,
    restarts,
    tried,     \* per session, the tunnels whose listener was started
    port,      \* per tunnel, the session whose listener holds its local port, or 0
    conns

link == <<cur, alive, cut>>
hello == <<policy, reply, known>>
server == <<registry, nextId, restarts>>
listeners == <<tried, port>>

protocolVars == <<link, place, hello, server, listeners, conns>>

NoConn == [stage |-> "new", session |-> 0, tunnel |-> 0, wants |-> Nowhere,
           id |-> 0, dynamic |-> Nowhere, dialed |-> Nowhere]

NoReply == <<>>

Failed == <<0>>  \* ids start at 1

Closed == [NoConn EXCEPT !.stage = "closed"]

Policies == [reverse : BOOLEAN, socks : BOOLEAN, fits : BOOLEAN, crowd : 0 .. MaxGap]

Places == {"none", "hello", "serving", "over"}

\* What a local peer of tunnel i may ask for.
Wants(i) == IF Remotes[i].kind = "socks" THEN Dynamic ELSE {Remotes[i].target}

Targets == UNION {Wants(i) : i \in Tunnels}

Ids == [Tunnels -> Nat \ {0}]

ProtocolTypeOK ==
    /\ policy \in Policies
    /\ cur \in 0 .. MaxSessions
    /\ alive \in [Sessions -> SUBSET Ends]
    /\ cut \subseteq Sessions
    /\ place \in [Sessions -> [Ends -> Places]]
    /\ reply \in [Sessions -> {NoReply, Failed} \cup Ids]
    /\ known \in [Sessions -> {<<>>} \cup Ids]
    /\ registry \subseteq [id : Nat, session : Sessions, tunnel : Tunnels]
    /\ nextId \in Nat \ {0}
    /\ restarts \in 0 .. MaxRestarts
    /\ tried \in [Sessions -> SUBSET Tunnels]
    /\ port \in [Tunnels -> 0 .. MaxSessions]
    /\ conns \in [Conns ->
          [stage : {"new", "asked", "refused", "dialed", "closed"},
           session : {0} \cup Sessions, tunnel : {0} \cup Tunnels, id : Nat,
           wants : {Nowhere} \cup Targets, dynamic : {Nowhere} \cup Dynamic,
           dialed : {Nowhere} \cup Targets]]

ProtocolInit ==
    /\ policy \in Policies
    /\ cur = 0
    /\ alive = [s \in Sessions |-> {}]
    /\ cut = {}
    /\ place = [s \in Sessions |-> [e \in Ends |-> "none"]]
    /\ reply = [s \in Sessions |-> NoReply]
    /\ known = [s \in Sessions |-> <<>>]
    /\ registry = {}
    /\ nextId = 1
    /\ restarts = 0
    /\ tried = [s \in Sessions |-> {}]
    /\ port = [i \in Tunnels |-> 0]
    /\ conns = [c \in Conns |-> NoConn]

-----------------------------------------------------------------------------
(* The connection.                                                         *)

Crosses(s) == alive[s] = Ends /\ s \notin cut

Holds(s, e) == e \in alive[s]

LeftBy(s, e) == alive' = [alive EXCEPT ![s] = @ \ {e}]

Cut(s) ==
    /\ Crosses(s)
    /\ cut' = cut \cup {s}
    /\ UNCHANGED <<cur, alive, place, hello, server, listeners, conns>>

\* The other end's close arrives, or the idle timeout fires.
Notice(s, e) ==
    /\ Holds(s, e)
    /\ s \in cut \/ ~ Holds(s, Other(e))
    /\ LeftBy(s, e)
    /\ UNCHANGED <<cur, cut, place, hello, server, listeners, conns>>

\* The client connects again once its last session is over, and sends the hello.
Connect ==
    /\ cur < MaxSessions
    /\ cur # 0 => place[cur].client = "over"
    /\ cur' = cur + 1
    /\ alive' = [alive EXCEPT ![cur'] = Ends]
    /\ place' = [place EXCEPT ![cur'] = [e \in Ends |-> "hello"]]
    /\ UNCHANGED <<cut, hello, server, listeners, conns>>

-----------------------------------------------------------------------------
(* The server's end of the hello.                                          *)

\* validate_remotes: every remote of the batch, or none.
Allowed ==
    \A i \in Tunnels :
        /\ Remotes[i].dir = "reverse" => policy.reverse
        /\ Remotes[i].kind = "socks" => policy.socks

\* The connection goes with its last handle when the handler returns.
Rejects(s, answer) ==
    /\ reply' = [reply EXCEPT ![s] = answer]
    /\ place' = [place EXCEPT ![s].server = "over"]
    /\ LeftBy(s, "server")
    /\ UNCHANGED <<registry, nextId>>

\* register_tunnels takes one id after the other, as other clients do meanwhile.
Registers(s) ==
    /\ LET stride == policy.crowd + 1
       IN  /\ reply' = [reply EXCEPT ![s] = [i \in Tunnels |-> nextId + (i - 1) * stride]]
           /\ nextId' = nextId + Len(Remotes) * stride
    /\ registry' = registry \cup {[id |-> reply'[s][i], session |-> s, tunnel |-> i] :
                                    i \in Tunnels}
    /\ place' = [place EXCEPT ![s].server = "serving"]
    /\ UNCHANGED alive

\* Fault: a remote that is not allowed is left out and the others are served.
HalfAccept(s) ==
    /\ place[s].server = "hello"
    /\ Crosses(s)
    /\ \/ ~ policy.fits /\ Rejects(s, NoReply)
       \/ policy.fits /\ Registers(s)
    /\ UNCHANGED <<cur, cut, policy, known, restarts, listeners, conns>>

\* perform_session_hello: a frame over the cap is an error without an answer.
ServerHello(s) ==
    /\ place[s].server = "hello"
    /\ Crosses(s)
    /\ \/ ~ policy.fits /\ Rejects(s, NoReply)
       \/ policy.fits /\ ~ Allowed /\ Rejects(s, Failed)
       \/ policy.fits /\ Allowed /\ Registers(s)
    /\ UNCHANGED <<cur, cut, policy, known, restarts, listeners, conns>>

\* Fault: the handler returns without its cleanup.
ServerEndsUncleaned(s) ==
    /\ place[s].server \in {"hello", "serving"}
    /\ ~ Holds(s, "server")
    /\ place' = [place EXCEPT ![s].server = "over"]
    /\ UNCHANGED <<link, hello, server, listeners, conns>>

\* The connection is gone: the JoinSet is shut down, which frees the ports of
\* reverse listeners and ends forward conns, then the client is deregistered.
ServerEnds(s) ==
    /\ place[s].server \in {"hello", "serving"}
    /\ ~ Holds(s, "server")
    /\ place' = [place EXCEPT ![s].server = "over"]
    /\ registry' = {t \in registry : t.session # s}
    /\ port' = [i \in Tunnels |->
                  IF port[i] = s /\ Remotes[i].dir = "reverse" THEN 0 ELSE port[i]]
    /\ conns' = [c \in Conns |->
                   IF /\ conns[c].session = s
                      /\ conns[c].stage = "dialed"
                      /\ Remotes[conns[c].tunnel].dir = "forward"
                   THEN Closed ELSE conns[c]]
    /\ UNCHANGED <<link, hello, nextId, restarts, tried>>

\* The server process is killed and started again: nothing of it survives.
Restart ==
    /\ restarts < MaxRestarts
    /\ restarts' = restarts + 1
    /\ alive' = [s \in Sessions |-> alive[s] \ {"server"}]
    /\ place' = [s \in Sessions |->
                   [place[s] EXCEPT !.server = IF @ = "none" THEN @ ELSE "over"]]
    /\ registry' = {}
    /\ nextId' = 1
    /\ port' = [i \in Tunnels |-> IF Remotes[i].dir = "reverse" THEN 0 ELSE port[i]]
    /\ conns' = [c \in Conns |->
                   IF \/ conns[c].stage = "dialed"
                      \/ conns[c].stage = "asked" /\ Remotes[conns[c].tunnel].dir = "reverse"
                   THEN Closed ELSE conns[c]]
    /\ UNCHANGED <<cur, cut, hello, tried>>

-----------------------------------------------------------------------------
(* The client's end of the hello.                                          *)

\* Fault: the ids are taken to be the positions of the remotes.
HelloAnsweredByPosition(s) ==
    /\ place[s].client = "hello"
    /\ Holds(s, "client")
    /\ reply[s] \notin {NoReply, Failed}
    /\ known' = [known EXCEPT ![s] = [i \in Tunnels |-> i]]
    /\ reply' = [reply EXCEPT ![s] = NoReply]
    /\ place' = [place EXCEPT ![s].client = "serving"]
    /\ UNCHANGED <<link, policy, server, listeners, conns>>

\* client_send_session_hello: one id for every remote, in order.
HelloAnswered(s) ==
    /\ place[s].client = "hello"
    /\ Holds(s, "client")
    /\ reply[s] \notin {NoReply, Failed}
    /\ Len(reply[s]) = Len(Remotes)
    /\ known' = [known EXCEPT ![s] = reply[s]]
    /\ reply' = [reply EXCEPT ![s] = NoReply]
    /\ place' = [place EXCEPT ![s].client = "serving"]
    /\ UNCHANGED <<link, policy, server, listeners, conns>>

\* Fault: only an answer ends the wait for one.
HelloFailsIfTold(s) ==
    /\ place[s].client = "hello"
    /\ reply[s] = Failed \/ ~ Holds(s, "client")
    /\ IF reply[s] = Failed
       THEN /\ place' = [place EXCEPT ![s].client = "over"]
            /\ reply' = [reply EXCEPT ![s] = NoReply]
            /\ LeftBy(s, "client")
            /\ UNCHANGED <<cur, cut, policy, known, server, listeners, conns>>
       ELSE UNCHANGED protocolVars

\* Rejected, if the answer outran the end of the connection, or lost.
HelloFails(s) ==
    /\ place[s].client = "hello"
    /\ reply[s] = Failed \/ ~ Holds(s, "client")
    /\ place' = [place EXCEPT ![s].client = "over"]
    /\ reply' = [reply EXCEPT ![s] = NoReply]
    /\ LeftBy(s, "client")
    /\ UNCHANGED <<cur, cut, policy, known, server, listeners, conns>>

\* connection.closed(): the tasks are aborted and the loop goes on to reconnect.
ClientEnds(s) ==
    /\ place[s].client = "serving"
    /\ ~ Holds(s, "client")
    /\ place' = [place EXCEPT ![s].client = "over"]
    /\ UNCHANGED <<link, hello, server, listeners, conns>>

-----------------------------------------------------------------------------
(* Listeners.                                                              *)

Entry(i) == IF Remotes[i].dir = "forward" THEN "client" ELSE "server"

\* The listener's task binds the local port; if that fails it is over, logged,
\* and nothing starts it again before the next session.
Bind(s, i) ==
    /\ place[s][Entry(i)] = "serving"
    /\ i \notin tried[s]
    /\ tried' = [tried EXCEPT ![s] = @ \cup {i}]
    /\ port' = [port EXCEPT ![i] = IF @ = 0 THEN s ELSE @]
    /\ UNCHANGED <<link, place, hello, server, conns>>

\* An aborted task of the client is dropped, and its listener with it.
Release(i) ==
    /\ port[i] # 0
    /\ Entry(i) = "client"
    /\ place[port[i]].client = "over"
    /\ port' = [port EXCEPT ![i] = 0]
    /\ UNCHANGED <<link, place, hello, server, tried, conns>>

-----------------------------------------------------------------------------
(* OpenConn.                                                               *)

\* A listener accepts, opens a stream and announces the conn by its tunnel's id,
\* with the target only if that is not declared.
Accept(c, i, t) ==
    /\ conns[c].stage = "new"
    /\ port[i] # 0
    /\ t \in Wants(i)
    /\ LET s == port[i]
           own == IF Entry(i) = "client" THEN known[s][i]
                  ELSE (CHOOSE e \in registry : e.session = s /\ e.tunnel = i).id
       IN  conns' = [conns EXCEPT ![c] =
               [stage |-> "asked", session |-> s, tunnel |-> i, wants |-> t,
                id |-> own,
                dynamic |-> IF Remotes[i].kind = "socks" THEN t ELSE Nowhere,
                dialed |-> Nowhere]]
    /\ UNCHANGED <<link, place, hello, server, listeners>>

\* Fault: the declared target, whatever the frame says.
DispatchDeclared(dir, i, dynamic) ==
    IF Remotes[i].dir # dir THEN Nowhere ELSE Remotes[i].target

\* resolve_dispatch and resolve_reverse_dispatch: the target of an OpenConn that
\* names a tunnel of the given direction, or none if the two do not fit.
Dispatch(dir, i, dynamic) ==
    IF Remotes[i].dir # dir THEN Nowhere
    ELSE IF Remotes[i].kind = "socks" THEN dynamic
    ELSE IF dynamic = Nowhere THEN Remotes[i].target ELSE Nowhere

\* The tunnel an end finds under an id, if any.
Lookup(s, e, id) ==
    IF e = "server" THEN {t.tunnel : t \in {u \in registry : u.id = id}}
                    ELSE {i \in DOMAIN known[s] : known[s][i] = id}

\* handle_open_conn at the server, client_accept_reverse_conn at the client: the
\* id is looked up, the target resolved, the conn acknowledged and dialed, or
\* refused.  The client takes no stream before its hello is answered.
HandleOpenConn(c) ==
    /\ conns[c].stage = "asked"
    /\ LET s == conns[c].session
           far == Other(Entry(conns[c].tunnel))
           found == {Dispatch(IF far = "server" THEN "forward" ELSE "reverse", i,
                              conns[c].dynamic) : i \in Lookup(s, far, conns[c].id)}
       IN  /\ Crosses(s)
           /\ place[s][far] = "serving"
           /\ conns' = [conns EXCEPT ![c] =
                 IF found \ {Nowhere} = {} THEN [@ EXCEPT !.stage = "refused"]
                 ELSE [@ EXCEPT !.stage = "dialed",
                                !.dialed = CHOOSE t \in found : t # Nowhere]]
    /\ UNCHANGED <<link, place, hello, server, listeners>>

\* A conn ends: its peers close, the dial fails, or the end that opened the stream
\* hears a refusal or loses the connection.
ConnEnds(c) ==
    /\ \/ conns[c].stage \in {"dialed", "refused"}
       \/ conns[c].stage = "asked" /\ ~ Holds(conns[c].session, Entry(conns[c].tunnel))
    /\ conns' = [conns EXCEPT ![c] = Closed]
    /\ UNCHANGED <<link, place, hello, server, listeners>>

-----------------------------------------------------------------------------

\* Nothing is left to do within the bound on sessions.
OutOfSessions ==
    /\ cur = MaxSessions
    /\ place[cur].client = "over"
    /\ UNCHANGED protocolVars

ProtocolNext ==
    \/ Connect \/ Restart \/ OutOfSessions
    \/ \E s \in Sessions :
        \/ Cut(s) \/ ServerHello(s) \/ ServerEnds(s)
        \/ HelloAnswered(s) \/ HelloFails(s) \/ ClientEnds(s)
        \/ \E e \in Ends : Notice(s, e)
        \/ \E i \in Tunnels : Bind(s, i)
    \/ \E i \in Tunnels : Release(i)
    \/ \E c \in Conns :
        \/ HandleOpenConn(c) \/ ConnEnds(c)
        \/ \E i \in Tunnels, t \in Targets : Accept(c, i, t)

ProtocolSpec == ProtocolInit /\ [][ProtocolNext]_protocolVars

(***************************************************************************)
(* The runtime polls what is ready, a frame sent on a connection that      *)
(* stays up arrives, and each end notices a dead connection (idle          *)
(* timeout).  Nothing has to be cut, accepted or closed, and the server    *)
(* need not restart.                                                       *)
(***************************************************************************)
ProtocolFairness ==
    /\ \A s \in Sessions :
        /\ WF_protocolVars(ServerHello(s))
        /\ WF_protocolVars(ServerEnds(s))
        /\ WF_protocolVars(HelloAnswered(s))
        /\ WF_protocolVars(HelloFails(s))
        /\ WF_protocolVars(ClientEnds(s))
        /\ \A e \in Ends : WF_protocolVars(Notice(s, e))
        /\ \A i \in Tunnels : WF_protocolVars(Bind(s, i))
    /\ \A i \in Tunnels : WF_protocolVars(Release(i))
    /\ \A c \in Conns :
        /\ WF_protocolVars(HandleOpenConn(c))
        /\ WF_protocolVars(ConnEnds(c) /\ conns[c].stage # "dialed")

ProtocolFairSpec == ProtocolSpec /\ ProtocolFairness

-----------------------------------------------------------------------------
(* Properties.                                                             *)

\* "There is no half-accept" (tunnel.rs): a client serves a session only if all of
\* its remotes are allowed, and while the server serves it too, every id the
\* client uses names the same tunnel of the same session there.
SessionAgreed ==
    \A s \in Sessions : place[s].client = "serving" =>
        /\ Allowed
        /\ place[s].server = "serving" =>
            \A i \in Tunnels : [id |-> known[s][i], session |-> s, tunnel |-> i] \in registry

\* An OpenConn that reaches the other end is never refused, whichever sessions,
\* restarts and other clients came before: its id is known there, to a tunnel of
\* the right direction, with a target exactly where one is needed
\* (handle_open_conn, client_accept_reverse_conn).
OpenConnNeverRefused == \A c \in Conns : conns[c].stage # "refused"

Served == [c \in Conns |->
             [stage |-> IF conns[c].stage = "refused" THEN "asked" ELSE conns[c].stage,
              wants |-> conns[c].wants, dialed |-> conns[c].dialed]]

Service == INSTANCE TunnelService WITH conn <- Served

\* Sessions, ids and frames implement the service: a connection accepted at a
\* tunnel's entry is dialed to the target it asked for, or closed, and never left
\* without an answer.
ImplementsService == Service!FairSpec

\* A client that waits for the answer to its hello goes on: the rejection may be
\* lost with the connection the server drops right after writing it, and a hello
\* over the cap is not answered at all (handle_client_connection, read_framed).
HelloSettles ==
    \A s \in Sessions : place[s].client = "hello" ~> place[s].client # "hello"

\* A listener does not outlive its session for ever: once the end that bound it has
\* lost the connection, its port is freed (tunnels.shutdown, handle.abort).
PortsReleased ==
    \A s \in Sessions, i \in Tunnels :
        port[i] = s /\ ~ Holds(s, Entry(i)) ~> port[i] # s

\* README.md: "The client survives both transient network drops and full server
\* restarts out of the box": while a session lasts, all its tunnels get served.
SurvivesDrops ==
    \A s \in Sessions :
        place[s].client = "serving" ~>
            ~ Crosses(s) \/ \A i \in Tunnels : port[i] = s
=============================================================================
