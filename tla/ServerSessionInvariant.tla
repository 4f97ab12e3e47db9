------------------------- MODULE ServerSessionInvariant -----------------------
(***************************************************************************)
(* Type correctness and the inductive invariant of the server's sessions:  *)
(* what the phase of a session, the state of its deregistration and the    *)
(* stage of each conn say about the indexes of the registry, for any       *)
(* number of clients, tunnels and conns, any policy and any cap.           *)
(***************************************************************************)
EXTENDS ServerSession, TLAPS

\* Every step of deregister_client keeps its locals well-typed.
LEMMA DeregLocalsType ==
    ASSUME RegistryTypeOK, NEW k \in Clients, deregister_client_step(k)
    PROVE  dereg' \in [Clients -> DeregLocals]
<1> DEFINE r == dereg[k]
<1>0. /\ dereg \in [Clients -> DeregLocals]
      /\ r \in DeregLocals
      /\ client_tunnels[k] \in SUBSET Tunnels
      /\ \A c \in Conns : counters[c] \in Nat
      /\ \A t \in Tunnels : /\ tunnel_conns[t] \in SUBSET Conns
                            /\ cumulative[t] \in Nat
                            /\ total_conns[t] \in Nat
  BY DEF RegistryTypeOK
<1>1. ASSUME NEW t \in Tunnels, TotalsTunnel(k, t) \/ UnindexTunnel(k, t)
      PROVE  dereg' \in [Clients -> DeregLocals]
  <2>1. [r EXCEPT !.cur = t, !.due = tunnel_conns[t], !.seen = {}] \in DeregLocals
    BY <1>0 DEF DeregLocals
  <2> QED
    BY <1>0, <1>1, <2>1 DEF TotalsTunnel, UnindexTunnel, BeginIteration
<1>3. ASSUME NEW c \in Conns, TotalsConn(k, c)
      PROVE  dereg' \in [Clients -> DeregLocals]
  <2>0. r.bytes + counters[c] \in Nat
    BY <1>0 DEF DeregLocals
  <2>1. [r EXCEPT !.seen = r.seen \cup {c}, !.bytes = r.bytes + counters[c]] \in DeregLocals
    BY <1>0, <2>0 DEF DeregLocals
  <2> QED
    BY <1>0, <1>3, <2>1 DEF TotalsConn
<1>4. ASSUME NEW c \in Conns, UnindexTunnelConn(k, c)
      PROVE  dereg' \in [Clients -> DeregLocals]
  <2>1. [r EXCEPT !.seen = r.seen \cup {c}] \in DeregLocals
    BY <1>0 DEF DeregLocals
  <2> QED
    BY <1>0, <1>4, <2>1 DEF UnindexTunnelConn
<1>5. CASE TotalsLoad(k)
  <2> DEFINE t == r.cur
  <2>1. t \in Tunnels
    BY <1>0, <1>5 DEF TotalsLoad, Iterating, DeregLocals
  <2>0. r.bytes + cumulative[t] \in Nat /\ r.total + total_conns[t] \in Nat
    BY <1>0, <2>1 DEF DeregLocals
  <2>2. [r EXCEPT !.bytes = r.bytes + cumulative[t], !.total = r.total + total_conns[t],
                  !.todo = r.todo \ {t}, !.cur = NoTunnel] \in DeregLocals
    BY <1>0, <2>0 DEF DeregLocals
  <2> QED
    BY <1>0, <1>5, <2>2 DEF TotalsLoad
<1>6. CASE TotalsDone(k)
  <2>1. [r EXCEPT !.at = "unindex", !.todo = client_tunnels[k]] \in DeregLocals
    BY <1>0 DEF DeregLocals
  <2> QED
    BY <1>0, <1>6, <2>1 DEF TotalsDone
<1>7. CASE UnindexTunnelDone(k)
  <2>1. [r EXCEPT !.todo = r.todo \ {r.cur}, !.cur = NoTunnel] \in DeregLocals
    BY <1>0 DEF DeregLocals
  <2> QED
    BY <1>0, <1>7, <2>1 DEF UnindexTunnelDone
<1>8. CASE PushHistory(k)
  <2>1. [Idle EXCEPT !.at = "done"] \in DeregLocals
    BY DEF DeregLocals, Idle
  <2> QED
    BY <1>0, <1>8, <2>1 DEF PushHistory
<1> QED
  BY <1>1, <1>3, <1>4, <1>5, <1>6, <1>7, <1>8 DEF deregister_client_step

LEMMA DeregisterType ==
    ASSUME RegistryTypeOK, NEW k \in Clients, deregister_client_step(k)
    PROVE  RegistryTypeOK'
<1>1. dereg' \in [Clients -> DeregLocals]
  BY DeregLocalsType
<1>2. CASE PushHistory(k)
  <2>1. dereg[k].bytes \in Nat /\ dereg[k].total \in Nat
    BY DEF RegistryTypeOK, DeregLocals
  <2>2. [client_id |-> k, bytes |-> dereg[k].bytes, total_conns |-> dereg[k].total]
            \in HistoryEntry
    BY <2>1 DEF HistoryEntry
  <2>3. ASSUME Len(history) = HISTORY_CAPACITY PROVE Tail(history) \in Seq(HistoryEntry)
    BY <2>3, RegistryAssumption DEF RegistryTypeOK
  <2>4. history' \in Seq(HistoryEntry)
    BY <1>2, <2>2, <2>3 DEF PushHistory, RegistryTypeOK
  <2>5. departed' \in Seq(Clients)
    BY <1>2 DEF PushHistory, RegistryTypeOK
  <2> QED
    BY <1>1, <1>2, <2>4, <2>5 DEF PushHistory, RegistryTypeOK
<1>3. CASE ~ PushHistory(k)
  BY <1>1, <1>3 DEF deregister_client_step, RegistryTypeOK, TotalsTunnel,
     UnindexTunnel, TotalsConn, UnindexTunnelConn, TotalsLoad, TotalsDone,
     UnindexTunnelDone
<1> QED
  BY <1>2, <1>3

LEMMA RemoveClientType ==
    ASSUME RegistryTypeOK, NEW k \in Clients, RemoveClient(k)
    PROVE  RegistryTypeOK'
<1>1. [Idle EXCEPT !.at = "totals", !.todo = client_tunnels[k]] \in DeregLocals
  BY DEF RegistryTypeOK, DeregLocals, Idle
<1> QED
  BY <1>1 DEF RemoveClient, RegistryTypeOK

\* register_conn, the data plane and close_conn.
LEMMA ConnType ==
    ASSUME RegistryTypeOK, NEW c \in Conns,
           \/ ListConn(c) \/ IndexConn(c) \/ CountConn(c) \/ Count(c)
           \/ FoldConn(c) \/ UnlistConn(c) \/ UnindexConn(c)
    PROVE  RegistryTypeOK'
<1> USE DEF RegistryTypeOK, GuardStates, Advance
<1>1. CASE ListConn(c)
  BY <1>1 DEF ListConn
<1>2. CASE IndexConn(c) \/ UnindexConn(c)
  BY <1>2 DEF IndexConn, UnindexConn
<1>3. CASE CountConn(c)
  <2>1. \A t \in Tunnels : total_conns[t] + 1 \in Nat
    OBVIOUS
  <2>2. total_conns' \in [Tunnels -> Nat]
    BY <1>3, <2>1 DEF CountConn
  <2> QED
    BY <1>3, <2>2 DEF CountConn
<1>4. CASE Count(c)
  BY <1>4 DEF Count
<1>5. CASE FoldConn(c)
  <2>1. \A t \in Tunnels : cumulative[t] + counters[c] \in Nat
    OBVIOUS
  <2>2. cumulative' \in [Tunnels -> Nat]
    BY <1>5, <2>1 DEF FoldConn
  <2> QED
    BY <1>5, <2>2 DEF FoldConn
<1>6. CASE UnlistConn(c)
  BY <1>6 DEF UnlistConn
<1> QED
  BY <1>1, <1>2, <1>3, <1>4, <1>5, <1>6

LEMMA SessionStepType ==
    ASSUME TypeOK, NEW k \in Clients, SessionStep(k)
    PROVE  TypeOK'
<1> USE DEF TypeOK, Phases, Goto
<1>1. CASE Accept(k) \/ Lose(k) \/ HandshakeFails(k) \/ ConnectionEnds(k) \/ Release(k)
  BY <1>1 DEF Accept, Lose, HandshakeFails, ConnectionEnds, Release, registry,
     RegistryTypeOK
<1>2. CASE Connected(k)
  BY <1>2 DEF Connected, register_client, RegistryTypeOK
<1>3. CASE HelloAccepted(k)
  BY <1>3 DEF HelloAccepted, register_tunnels, RegistryTypeOK, Declared
<1>4. CASE HelloRejected(k) \/ ReplyFails(k) \/ ShutdownReturns(k)
  <2>1. RegistryTypeOK'
    BY <1>4, RemoveClientType DEF HelloRejected, ReplyFails, ShutdownReturns
  <2> QED
    BY <1>4, <2>1 DEF HelloRejected, ReplyFails, ShutdownReturns
<1>5. CASE Established(k)
  <2>1. listener' \in [Tunnels -> ListenerStates]
    BY <1>5 DEF Established, ListenerStates
  <2>2. RegistryTypeOK'
    BY <1>5 DEF Established, registry, RegistryTypeOK
  <2> QED
    BY <1>5, <2>1, <2>2 DEF Established
<1>6. CASE Deregister(k)
  <2>1. RegistryTypeOK'
    BY <1>6, DeregisterType DEF Deregister
  <2> QED
    BY <1>6, <2>1 DEF Deregister
<1> QED
  BY <1>1, <1>2, <1>3, <1>4, <1>5, <1>6 DEF SessionStep

\* The steps of conns and listeners that leave the registry alone.
LEMMA TaskStepType ==
    ASSUME TypeOK, UNCHANGED <<registry, permits, phase, link>>,
           listener' \in [Tunnels -> ListenerStates],
           stage' \in [Conns -> Stages]
    PROVE  TypeOK'
BY DEF TypeOK, RegistryTypeOK, registry

LEMMA ConnStepType ==
    ASSUME TypeOK, NEW c \in Conns, ConnStep(c)
    PROVE  TypeOK'
<1>1. CASE Agree(c) \/ TaskReturns(c)
  <2>1. stage' \in [Conns -> Stages]
    BY <1>1 DEF Agree, TaskReturns, Finish, TypeOK, Stages
  <2> QED
    BY <1>1, <2>1, TaskStepType DEF Agree, TaskReturns, TypeOK
<1>2. CASE register_conn(c) \/ Relay(c) \/ close_conn(c)
  <2>1. RegistryTypeOK'
    BY <1>2, ConnType DEF register_conn, Relay, close_conn, TypeOK
  <2>2. stage' \in [Conns -> Stages]
    BY <1>2 DEF register_conn, Relay, close_conn, TypeOK, Stages
  <2> QED
    BY <1>2, <2>1, <2>2 DEF register_conn, Relay, close_conn, TypeOK
<1> QED
  BY <1>1, <1>2 DEF ConnStep

LEMMA TypeInductive == TypeOK /\ [Next]_vars => TypeOK'
<1> SUFFICES ASSUME TypeOK, [Next]_vars PROVE TypeOK'
  OBVIOUS
<1>1. CASE \E k \in Clients : SessionStep(k)
  BY <1>1, SessionStepType
<1>2. ASSUME NEW t \in Tunnels, Bind(t) \/ AbortListener(t) PROVE TypeOK'
  <2>1. listener' \in [Tunnels -> ListenerStates]
    BY <1>2 DEF Bind, AbortListener, TypeOK, ListenerStates
  <2> QED
    BY <1>2, <2>1, TaskStepType DEF Bind, AbortListener, TypeOK
<1>3. ASSUME NEW c \in Streams, AcceptStream(c) \/ ReceiveOpenConn(c) \/ AbortConn(c)
      PROVE TypeOK'
  <2>1. stage' \in [Conns -> Stages]
    BY <1>3, SessionAssumption
       DEF AcceptStream, ReceiveOpenConn, AbortConn, Finish, TypeOK, Stages
  <2> QED
    BY <1>3, <2>1, TaskStepType DEF AcceptStream, ReceiveOpenConn, AbortConn, TypeOK
<1>4. ASSUME NEW c \in Accepted, AcceptLocal(c) \/ SocksHandshake(c) \/ OpenBi(c)
      PROVE TypeOK'
  <2>1. stage' \in [Conns -> Stages]
    BY <1>4 DEF AcceptLocal, SocksHandshake, OpenBi, TypeOK, Stages, Accepted
  <2> QED
    BY <1>4, <2>1, TaskStepType DEF AcceptLocal, SocksHandshake, OpenBi, TypeOK
<1>5. CASE \E c \in Conns : ConnStep(c)
  BY <1>5, ConnStepType
<1>6. CASE Quiescent \/ UNCHANGED vars
  <2>1. UNCHANGED <<registry, permits, phase, link, listener, stage>>
    BY <1>6 DEF Quiescent, vars
  <2> QED
    BY <2>1, TaskStepType DEF TypeOK
<1> QED
  BY <1>1, <1>2, <1>3, <1>4, <1>5, <1>6 DEF Next

LEMMA TypeInit == Init => TypeOK
BY DEF Init, RegistryInit, TypeOK, RegistryTypeOK, DeregLocals, Idle, GuardStates,
   Phases, ListenerStates, Stages

\* The registry and the session variables are well-typed in every reachable state.
THEOREM TypeCorrect == Spec => []TypeOK
BY TypeInit, TypeInductive, PTL DEF Spec

-----------------------------------------------------------------------------
(* What the states of sessions, tunnels and conns say of each other.       *)

Serving == {"serving", "aborting"}

Registered == {"hello", "replying"} \cup Serving

\* The phase of a session says what the registry holds for its client.
SessionOK(k) ==
    /\ k \in clients <=> phase[k] \in Registered
    /\ phase[k] \in Registered \cup {"accepted", "leaving", "deregistering"}
          => k \in permits
    /\ client_tunnels[k] \subseteq Declared(k)
    /\ phase[k] \in {"replying"} \cup Serving => client_tunnels[k] = Declared(k)
    /\ dereg[k].at # "no" => phase[k] \in {"deregistering", "ended"}
    /\ dereg[k].todo \subseteq client_tunnels[k]
    /\ dereg[k].cur # NoTunnel => Owner[dereg[k].cur] = k

SessionInv == \A k \in Clients : SessionOK(k)

\* The flat tunnel index holds the tunnels of the clients not yet torn down.
TunnelOK(t) ==
    LET k == Owner[t] IN
    /\ t \in tunnels => t \in client_tunnels[k]
    /\ dereg[k].at = "unindex" /\ t \in tunnels => t \in dereg[k].todo
    /\ dereg[k].at = "unindex" /\ dereg[k].cur = t => t \notin tunnels
    /\ dereg[k].at = "done" => t \notin tunnels
    /\ phase[k] \in {"replying"} \cup Serving => t \in tunnels
    /\ listener[t] \in {"binding", "listening"} => phase[k] \in Serving

TunnelInv == \A t \in Tunnels : TunnelOK(t)

\* The stage of a conn's task says what its guard can be, and a forward conn
\* lives within its session.
ConnOK(c) ==
    /\ stage[c] \in {"none", "handshake"} => guard[c] = "none"
    /\ stage[c] = "done" => guard[c] \in {"none", "dropped"}
    /\ stage[c] = "closing" => guard[c] \in {"held", "folded", "unlisted"}
    /\ stage[c] \in {"spawned", "opened", "agreed"}
          => guard[c] \in {"none", "listed", "indexed", "held"}
    /\ guard[c] \in {"listed", "indexed"} => stage[c] = RegisterAt(c)
    /\ c \in Streams /\ stage[c] \notin {"none", "done"} => phase[Via[c]] \in Serving
    /\ c \in Streams /\ stage[c] = "spawned" => guard[c] = "none"
    /\ c \in Streams /\ stage[c] \in {"opened", "agreed", "closing"}
          => TunnelOf[c] \in Tunnels
    /\ c \in Accepted /\ stage[c] # "none" =>
          phase[Owner[TunnelOf[c]]] \notin {"none", "accepted", "hello", "replying"}
    /\ guard[c] # "none" => TunnelOf[c] \in Tunnels

ConnInv == \A c \in Conns : ConnOK(c)

\* The two conn indexes against the guards.
IndexOK(c) ==
    /\ c \in conns => guard[c] \in {"indexed", "held", "folded", "unlisted"}
    /\ \A t \in Tunnels : c \in tunnel_conns[t]
          => TunnelOf[c] = t /\ guard[c] \in {"listed", "indexed", "held", "folded"}
    /\ guard[c] \in {"listed", "indexed", "held", "folded"}
          => c \in tunnel_conns[TunnelOf[c]]
    /\ guard[c] \in {"indexed", "held", "folded", "unlisted"} /\ ClientOf(c) \in clients
          => c \in conns

IndexInv == \A c \in Conns : IndexOK(c)

IndInv == TypeOK /\ SessionInv /\ TunnelInv /\ ConnInv /\ IndexInv

-----------------------------------------------------------------------------
(* The inductive invariant.                                                *)

\* The client of a conn owns its tunnel.
LEMMA ClientOfTunnel ==
    ASSUME NEW c \in Conns, TunnelOf[c] \in Tunnels
    PROVE  ClientOf(c) = Owner[TunnelOf[c]] /\ ClientOf(c) \in Clients
BY RegistryAssumption, SessionAssumption DEF ClientOf, Accepted

\* What a step of deregister_client for k may do: change its own locals, and take
\* its own client's tunnels and conns out of the flat indexes.
OwnTeardown(k) ==
    /\ UNCHANGED <<clients, client_tunnels, tunnel_conns, guard>>
    /\ \A j \in Clients \ {k} : dereg'[j] = dereg[j]
    /\ dereg'[k].todo \subseteq client_tunnels[k]
    /\ dereg'[k].cur # NoTunnel => Owner[dereg'[k].cur] = k
    /\ tunnels' \subseteq tunnels
    /\ \A t \in tunnels \ tunnels' : Owner[t] = k
    /\ conns' \subseteq conns
    /\ \A c \in conns \ conns' : TunnelOf[c] \in Tunnels /\ Owner[TunnelOf[c]] = k
    /\ \A t \in Declared(k) :
          /\ dereg'[k].at = "unindex" /\ t \in tunnels' => t \in dereg'[k].todo
          /\ dereg'[k].at = "unindex" /\ dereg'[k].cur = t => t \notin tunnels'
          /\ dereg'[k].at = "done" => t \notin tunnels'

LEMMA DeregisterEffect ==
    ASSUME IndInv, NEW k \in Clients, deregister_client_step(k)
    PROVE  OwnTeardown(k)
<1> DEFINE r == dereg[k]
<1> USE RegistryAssumption DEF OwnTeardown
<1>0. /\ dereg \in [Clients -> DeregLocals]
      /\ r \in DeregLocals
      /\ r.todo \subseteq client_tunnels[k]
      /\ client_tunnels[k] \subseteq Declared(k)
      /\ r.cur # NoTunnel => r.cur \in Tunnels /\ Owner[r.cur] = k
      /\ tunnels \subseteq Tunnels
      /\ \A t \in Tunnels : \A c \in tunnel_conns[t] : TunnelOf[c] = t
      /\ \A t \in Declared(k) :
            /\ t \in tunnels => t \in client_tunnels[k]
            /\ r.at = "unindex" /\ t \in tunnels => t \in r.todo
            /\ r.at = "unindex" /\ r.cur = t => t \notin tunnels
            /\ r.at = "done" => t \notin tunnels
      /\ Declared(k) \subseteq Tunnels
      /\ \A t \in Declared(k) : Owner[t] = k
  <2>1. /\ dereg \in [Clients -> DeregLocals]
        /\ r \in DeregLocals
        /\ tunnels \subseteq Tunnels
    BY DEF IndInv, TypeOK, RegistryTypeOK
  <2>2. r.cur \in Tunnels \cup {NoTunnel}
    BY <2>1 DEF DeregLocals
  <2>3. /\ r.todo \subseteq client_tunnels[k]
        /\ client_tunnels[k] \subseteq Declared(k)
        /\ r.cur # NoTunnel => Owner[r.cur] = k
    BY DEF IndInv, SessionInv, SessionOK
  <2>4. \A t \in Tunnels : \A c \in tunnel_conns[t] : TunnelOf[c] = t
    BY DEF IndInv, TypeOK, RegistryTypeOK, IndexInv, IndexOK
  <2>5. \A t \in Declared(k) :
            /\ t \in tunnels => t \in client_tunnels[k]
            /\ r.at = "unindex" /\ t \in tunnels => t \in r.todo
            /\ r.at = "unindex" /\ r.cur = t => t \notin tunnels
            /\ r.at = "done" => t \notin tunnels
    BY DEF IndInv, TunnelInv, TunnelOK, Declared
  <2> QED
    BY <2>1, <2>2, <2>3, <2>4, <2>5 DEF Declared
<1>1. ASSUME NEW t \in Tunnels, TotalsTunnel(k, t) PROVE OwnTeardown(k)
  <2>1. dereg'[k] = [r EXCEPT !.cur = t, !.due = tunnel_conns[t], !.seen = {}]
    BY <1>0, <1>1 DEF TotalsTunnel, BeginIteration
  <2>2. dereg'[k].todo = r.todo /\ dereg'[k].cur = t /\ dereg'[k].at = r.at
    BY <1>0, <2>1 DEF DeregLocals
  <2> QED
    BY <1>0, <1>1, <2>2 DEF TotalsTunnel, BetweenTunnels, BeginIteration
<1>2. ASSUME NEW t \in Tunnels, UnindexTunnel(k, t) PROVE OwnTeardown(k)
  <2>1. dereg'[k] = [r EXCEPT !.cur = t, !.due = tunnel_conns[t], !.seen = {}]
    BY <1>0, <1>2 DEF UnindexTunnel, BeginIteration
  <2>2. dereg'[k].todo = r.todo /\ dereg'[k].cur = t /\ dereg'[k].at = r.at
    BY <1>0, <2>1 DEF DeregLocals
  <2> QED
    BY <1>0, <1>2, <2>2 DEF UnindexTunnel, BetweenTunnels, BeginIteration
<1>3. ASSUME NEW c \in Conns, TotalsConn(k, c) PROVE OwnTeardown(k)
  <2>1. dereg'[k] = [r EXCEPT !.seen = r.seen \cup {c}, !.bytes = r.bytes + counters[c]]
    BY <1>0, <1>3 DEF TotalsConn
  <2>2. dereg'[k].todo = r.todo /\ dereg'[k].cur = r.cur /\ dereg'[k].at = r.at
    BY <1>0, <2>1 DEF DeregLocals
  <2> QED
    BY <1>0, <1>3, <2>2 DEF TotalsConn
<1>4. ASSUME NEW c \in Conns, UnindexTunnelConn(k, c) PROVE OwnTeardown(k)
  <2>1. dereg'[k] = [r EXCEPT !.seen = r.seen \cup {c}]
    BY <1>0, <1>4 DEF UnindexTunnelConn
  <2>2. dereg'[k].todo = r.todo /\ dereg'[k].cur = r.cur /\ dereg'[k].at = r.at
    BY <1>0, <2>1 DEF DeregLocals
  <2>3. TunnelOf[c] \in Tunnels /\ Owner[TunnelOf[c]] = k
    BY <1>0, <1>4 DEF UnindexTunnelConn, Unvisited, Iterating
  <2> QED
    BY <1>0, <1>4, <2>2, <2>3 DEF UnindexTunnelConn
<1>5. CASE TotalsLoad(k)
  <2>1. dereg'[k] = [r EXCEPT !.bytes = r.bytes + cumulative[r.cur],
                              !.total = r.total + total_conns[r.cur],
                              !.todo = r.todo \ {r.cur}, !.cur = NoTunnel]
    BY <1>0, <1>5 DEF TotalsLoad
  <2>2. dereg'[k].todo = r.todo \ {r.cur} /\ dereg'[k].cur = NoTunnel /\ dereg'[k].at = r.at
    BY <1>0, <2>1 DEF DeregLocals
  <2> QED
    BY <1>0, <1>5, <2>2 DEF TotalsLoad, Iterating
<1>6. CASE TotalsDone(k)
  <2>1. dereg'[k] = [r EXCEPT !.at = "unindex", !.todo = client_tunnels[k]]
    BY <1>0, <1>6 DEF TotalsDone
  <2>2. dereg'[k].todo = client_tunnels[k] /\ dereg'[k].cur = r.cur /\ dereg'[k].at = "unindex"
    BY <1>0, <2>1 DEF DeregLocals
  <2> QED
    BY <1>0, <1>6, <2>2 DEF TotalsDone, BetweenTunnels
<1>7. CASE UnindexTunnelDone(k)
  <2>1. dereg'[k] = [r EXCEPT !.todo = r.todo \ {r.cur}, !.cur = NoTunnel]
    BY <1>0, <1>7 DEF UnindexTunnelDone
  <2>2. dereg'[k].todo = r.todo \ {r.cur} /\ dereg'[k].cur = NoTunnel /\ dereg'[k].at = r.at
    BY <1>0, <2>1 DEF DeregLocals
  <2> QED
    BY <1>0, <1>7, <2>2 DEF UnindexTunnelDone, Iterating
<1>8. CASE PushHistory(k)
  <2>1. dereg'[k] = [Idle EXCEPT !.at = "done"]
    BY <1>0, <1>8 DEF PushHistory
  <2>2. dereg'[k].todo = {} /\ dereg'[k].cur = NoTunnel /\ dereg'[k].at = "done"
    BY <2>1 DEF Idle
  <2> QED
    BY <1>0, <1>8, <2>2 DEF PushHistory, BetweenTunnels
<1> QED
  BY <1>1, <1>2, <1>3, <1>4, <1>5, <1>6, <1>7, <1>8 DEF deregister_client_step

\* The tasks of conns and listeners leave clients, tunnels and sessions alone.
LEMMA TaskEffect ==
    ASSUME [Next]_vars, ~ \E k \in Clients : SessionStep(k)
    PROVE  UNCHANGED <<clients, tunnels, client_tunnels, history, departed, dereg,
                       permits, phase, link>>
<1> USE DEF registry
<1>1. ASSUME NEW t \in Tunnels, Bind(t) \/ AbortListener(t)
      PROVE  UNCHANGED <<registry, permits, phase, link>>
  BY <1>1 DEF Bind, AbortListener
<1>2. ASSUME NEW c \in Streams, AcceptStream(c) \/ ReceiveOpenConn(c) \/ AbortConn(c)
      PROVE  UNCHANGED <<registry, permits, phase, link>>
  BY <1>2 DEF AcceptStream, ReceiveOpenConn, AbortConn
<1>3. ASSUME NEW c \in Accepted, AcceptLocal(c) \/ SocksHandshake(c) \/ OpenBi(c)
      PROVE  UNCHANGED <<registry, permits, phase, link>>
  BY <1>3 DEF AcceptLocal, SocksHandshake, OpenBi
<1>4. ASSUME NEW c \in Conns, ConnStep(c)
      PROVE  UNCHANGED <<clients, tunnels, client_tunnels, history, departed, dereg,
                         permits, phase, link>>
  BY <1>4 DEF ConnStep, Agree, register_conn, Relay, TaskReturns, close_conn, ListConn,
     IndexConn, CountConn, Count, FoldConn, UnlistConn, UnindexConn
<1> QED
  BY <1>1, <1>2, <1>3, <1>4 DEF Next, Quiescent, vars

\* RemoveClient resets the locals of deregister_client for its own client.
LEMMA RemoveClientEffect ==
    ASSUME TypeOK, NEW k \in Clients, RemoveClient(k)
    PROVE  /\ clients' = clients \ {k}
           /\ \A j \in Clients \ {k} : dereg'[j] = dereg[j]
           /\ dereg'[k].at = "totals"
           /\ dereg'[k].todo = client_tunnels[k]
           /\ dereg'[k].cur = NoTunnel
           /\ UNCHANGED <<tunnels, conns, client_tunnels, tunnel_conns, guard>>
<1>1. dereg'[k] = [Idle EXCEPT !.at = "totals", !.todo = client_tunnels[k]]
  BY DEF RemoveClient, TypeOK, RegistryTypeOK
<1> QED
  BY <1>1 DEF RemoveClient, Idle, TypeOK, RegistryTypeOK

\* A step of a session leaves the conns alone, and the other sessions.  It leaves
\* Serving only with no task left in its JoinSet, and never goes back to a phase
\* before it.
LEMMA SessionEffect ==
    ASSUME IndInv, NEW k \in Clients, SessionStep(k)
    PROVE  /\ UNCHANGED <<guard, tunnel_conns, stage, counters, cumulative, total_conns>>
           /\ \A j \in Clients \ {k} :
                /\ phase'[j] = phase[j]
                /\ client_tunnels'[j] = client_tunnels[j]
                /\ dereg'[j] = dereg[j]
                /\ j \in clients' <=> j \in clients
                /\ j \in permits' <=> j \in permits
           /\ phase[k] \in Serving => phase'[k] \in Serving \/ JoinSetConns(k) = {}
           /\ phase[k] \notin {"none", "accepted", "hello", "replying"}
                 => phase'[k] \notin {"none", "accepted", "hello", "replying"}
<1> USE DEF Goto, Serving
<1>0. /\ phase \in [Clients -> Phases]
      /\ client_tunnels \in [Clients -> SUBSET Tunnels]
      /\ TypeOK
  BY DEF IndInv, TypeOK, RegistryTypeOK
<1>1. CASE Accept(k)
  BY <1>0, <1>1 DEF Accept, registry
<1>2. CASE Lose(k) \/ HandshakeFails(k) \/ ConnectionEnds(k)
  BY <1>0, <1>2 DEF Lose, HandshakeFails, ConnectionEnds, registry
<1>3. CASE Release(k)
  BY <1>0, <1>3 DEF Release, registry
<1>4. CASE Established(k)
  BY <1>0, <1>4 DEF Established, registry
<1>5. CASE Connected(k)
  BY <1>0, <1>5 DEF Connected, register_client
<1>6. CASE HelloAccepted(k)
  BY <1>0, <1>6 DEF HelloAccepted, register_tunnels
<1>7. CASE HelloRejected(k) \/ ReplyFails(k) \/ ShutdownReturns(k)
  <2>1. /\ RemoveClient(k)
        /\ phase' = [phase EXCEPT ![k] = "deregistering"]
        /\ phase[k] \notin Serving \/ JoinSetConns(k) = {}
        /\ UNCHANGED <<permits, stage>>
    BY <1>7 DEF HelloRejected, ReplyFails, ShutdownReturns
  <2>2. UNCHANGED <<counters, cumulative, total_conns>>
    BY <2>1 DEF RemoveClient
  <2> QED
    BY <1>0, <2>1, <2>2, RemoveClientEffect
<1>8. CASE Deregister(k)
  <2>1. OwnTeardown(k) /\ UNCHANGED <<permits, phase, stage>>
    BY <1>8, DeregisterEffect DEF Deregister
  <2>2. UNCHANGED <<counters, cumulative, total_conns>>
    BY <1>8 DEF Deregister, deregister_client_step, TotalsTunnel, UnindexTunnel,
       TotalsConn, UnindexTunnelConn, TotalsLoad, TotalsDone, UnindexTunnelDone, PushHistory
  <2> QED
    BY <2>1, <2>2 DEF OwnTeardown
<1> QED
  BY <1>1, <1>2, <1>3, <1>4, <1>5, <1>6, <1>7, <1>8 DEF SessionStep

LEMMA SessionInductive == IndInv /\ [Next]_vars => SessionInv'
<1> SUFFICES ASSUME IndInv, [Next]_vars, NEW j \in Clients PROVE SessionOK(j)'
  BY DEF SessionInv
<1>0. TypeOK /\ SessionOK(j) /\ Declared(j)' = Declared(j)
  BY DEF IndInv, SessionInv, Declared
<1> USE DEF Registered, Serving, SessionOK
<1>1. CASE ~ \E k \in Clients : SessionStep(k)
  BY <1>0, <1>1, TaskEffect
<1>2. ASSUME NEW k \in Clients \ {j}, SessionStep(k) PROVE SessionOK(j)'
  <2>1. /\ phase'[j] = phase[j]
        /\ client_tunnels'[j] = client_tunnels[j]
        /\ dereg'[j] = dereg[j]
        /\ j \in clients' <=> j \in clients
        /\ j \in permits' <=> j \in permits
    BY <1>2, SessionEffect
  <2> QED
    BY <1>0, <2>1
<1>3. ASSUME SessionStep(j) PROVE SessionOK(j)'
  <2>0. /\ phase \in [Clients -> Phases]
        /\ client_tunnels \in [Clients -> SUBSET Tunnels]
        /\ \A p \in Phases : Goto(j, p) => phase'[j] = p
    BY <1>0 DEF TypeOK, RegistryTypeOK, Goto
  <2>1. CASE Accept(j)
    <3>1. /\ phase[j] = "none"
          /\ \/ phase'[j] = "accepted" /\ j \in permits'
             \/ phase'[j] = "refused" /\ UNCHANGED permits
          /\ UNCHANGED <<clients, client_tunnels, dereg>>
      BY <2>0, <2>1 DEF Accept, registry, Phases
    <3> QED
      BY <1>0, <3>1
  <2>2. CASE Lose(j)
    <3>1. UNCHANGED <<clients, client_tunnels, dereg, permits, phase>>
      BY <2>2 DEF Lose, registry
    <3> QED
      BY <1>0, <3>1
  <2>3. CASE HandshakeFails(j) \/ ConnectionEnds(j) \/ Established(j)
    <3>1. /\ \/ phase[j] = "accepted" /\ phase'[j] = "leaving"
             \/ phase[j] = "serving" /\ phase'[j] = "aborting"
             \/ phase[j] = "replying" /\ phase'[j] = "serving"
          /\ UNCHANGED <<clients, client_tunnels, dereg, permits>>
      BY <2>0, <2>3 DEF HandshakeFails, ConnectionEnds, Established, registry, Phases
    <3> QED
      BY <1>0, <3>1
  <2>4. CASE Connected(j)
    <3>1. /\ phase[j] = "accepted" /\ phase'[j] = "hello"
          /\ j \in clients'
          /\ UNCHANGED <<client_tunnels, dereg, permits>>
      BY <2>0, <2>4 DEF Connected, register_client, Phases
    <3> QED
      BY <1>0, <3>1
  <2>5. CASE HelloAccepted(j)
    <3>1. /\ phase[j] = "hello" /\ phase'[j] = "replying"
          /\ client_tunnels'[j] = Declared(j)
          /\ UNCHANGED <<clients, dereg, permits>>
      BY <2>0, <2>5 DEF HelloAccepted, register_tunnels, Phases
    <3> QED
      BY <1>0, <3>1
  <2>6. CASE HelloRejected(j) \/ ReplyFails(j) \/ ShutdownReturns(j)
    <3>1. /\ RemoveClient(j) /\ phase'[j] = "deregistering"
          /\ phase[j] \in Registered
          /\ UNCHANGED permits
      BY <2>0, <2>6 DEF HelloRejected, ReplyFails, ShutdownReturns, Phases
    <3>2. /\ j \notin clients'
          /\ dereg'[j].at = "totals" /\ dereg'[j].cur = NoTunnel
          /\ dereg'[j].todo = client_tunnels[j]
          /\ UNCHANGED client_tunnels
      BY <1>0, <3>1, RemoveClientEffect
    <3> QED
      BY <1>0, <3>1, <3>2
  <2>7. CASE Deregister(j)
    <3>1. OwnTeardown(j) /\ phase[j] = "deregistering" /\ UNCHANGED <<permits, phase>>
      BY <2>7, DeregisterEffect DEF Deregister
    <3>2. /\ dereg'[j].todo \subseteq client_tunnels[j]
          /\ dereg'[j].cur # NoTunnel => Owner[dereg'[j].cur] = j
          /\ UNCHANGED <<clients, client_tunnels>>
      BY <3>1 DEF OwnTeardown
    <3> QED
      BY <1>0, <3>1, <3>2
  <2>8. CASE Release(j)
    <3>1. /\ phase[j] \in {"leaving", "deregistering"} /\ phase'[j] = "ended"
          /\ UNCHANGED <<clients, client_tunnels, dereg>>
          /\ dereg[j].at # "no" => phase[j] = "deregistering"
      BY <1>0, <2>0, <2>8 DEF Release, registry, Phases
    <3> QED
      BY <1>0, <3>1
  <2> QED
    BY <1>3, <2>1, <2>2, <2>3, <2>4, <2>5, <2>6, <2>7, <2>8 DEF SessionStep
<1> QED
  BY <1>1, <1>2, <1>3

LEMMA TunnelInductive == IndInv /\ [Next]_vars => TunnelInv'
<1> SUFFICES ASSUME IndInv, [Next]_vars, NEW u \in Tunnels PROVE TunnelOK(u)'
  BY DEF TunnelInv
<1> DEFINE j == Owner[u]
<1>0. TypeOK /\ SessionOK(j) /\ TunnelOK(u) /\ j \in Clients /\ u \in Declared(j)
  BY RegistryAssumption DEF IndInv, SessionInv, TunnelInv, Declared
<1> USE DEF TunnelOK, Serving
<1>1. CASE ~ \E k \in Clients : SessionStep(k)
  <2>1. UNCHANGED <<tunnels, client_tunnels, dereg, phase>>
    BY <1>1, TaskEffect
  <2>2. listener'[u] \in {"binding", "listening"} => listener[u] \in {"binding", "listening"}
    <3>1. ASSUME NEW t \in Tunnels, Bind(t) \/ AbortListener(t)
          PROVE  listener[t] \in {"binding", "listening"}
                 /\ (u # t => listener'[u] = listener[u])
      BY <1>0, <3>1 DEF Bind, AbortListener, TypeOK
    <3>2. CASE UNCHANGED listener
      BY <3>2
    <3>3. CASE ~ UNCHANGED listener
      <4>1. PICK t \in Tunnels : Bind(t) \/ AbortListener(t)
        BY <1>1, <3>3 DEF Next, AcceptStream, ReceiveOpenConn, AbortConn, AcceptLocal,
           SocksHandshake, OpenBi, ConnStep, Agree, register_conn, Relay, TaskReturns,
           close_conn, Quiescent, vars
      <4> QED
        BY <3>1, <4>1
    <3> QED
      BY <3>2, <3>3
  <2> QED
    BY <1>0, <2>1, <2>2
<1>2. ASSUME NEW k \in Clients, SessionStep(k) PROVE TunnelOK(u)'
  <2>0. /\ phase \in [Clients -> Phases]
        /\ client_tunnels \in [Clients -> SUBSET Tunnels]
        /\ \A p \in Phases : Goto(k, p) => phase'[k] = p
    BY <1>0 DEF TypeOK, RegistryTypeOK, Goto
  <2>1. CASE j # k
    <3>0. j \in Clients \ {k}
      BY <1>0, <2>1
    <3>1. /\ phase'[j] = phase[j] /\ dereg'[j] = dereg[j]
          /\ client_tunnels'[j] = client_tunnels[j]
      BY <1>2, <3>0, SessionEffect
    <3>2. u \in tunnels' <=> u \in tunnels
      <4>1. CASE HelloAccepted(k)
        BY <2>1, <4>1 DEF HelloAccepted, register_tunnels, Declared
      <4>2. CASE Deregister(k)
        BY <2>1, <4>2, DeregisterEffect DEF Deregister, OwnTeardown
      <4> QED
        BY <1>2, <4>1, <4>2 DEF SessionStep, Accept, Lose, Connected, register_client,
           HandshakeFails, HelloRejected, Established, ReplyFails, ConnectionEnds,
           ShutdownReturns, RemoveClient, Release, registry
    <3>3. listener'[u] = listener[u]
      <4>1. CASE Established(k)
        <5>1. u \notin client_tunnels[k]
          BY <2>1 DEF IndInv, SessionInv, SessionOK, Declared
        <5> QED
          BY <4>1, <5>1 DEF Established
      <4> QED
        BY <1>2, <4>1 DEF SessionStep, Accept, Lose, Connected, HandshakeFails,
           HelloAccepted, HelloRejected, ReplyFails, ConnectionEnds, ShutdownReturns,
           Deregister, Release
    <3> QED
      BY <1>0, <3>1, <3>2, <3>3
  <2>2. ASSUME j = k, Accept(k) \/ Lose(k) \/ Connected(k) \/ HandshakeFails(k)
                      \/ ConnectionEnds(k) \/ Release(k)
        PROVE  TunnelOK(u)'
    <3>1. /\ UNCHANGED <<tunnels, client_tunnels, dereg, listener>>
          /\ phase'[k] \in {"replying"} \cup Serving => phase[k] \in Serving \/ UNCHANGED phase
          /\ phase[k] \in Serving => phase'[k] \in Serving
      BY <2>0, <2>2 DEF Accept, Lose, Connected, register_client, HandshakeFails,
         ConnectionEnds, Release, registry, Phases
    <3> QED
      BY <1>0, <2>2, <3>1
  <2>3. ASSUME j = k, Established(k) PROVE TunnelOK(u)'
    <3>1. /\ phase[k] = "replying" /\ phase'[k] = "serving"
          /\ UNCHANGED <<tunnels, client_tunnels, dereg>>
      BY <2>0, <2>3 DEF Established, registry, Phases
    <3> QED
      BY <1>0, <2>3, <3>1
  <2>4. ASSUME j = k, HelloAccepted(k) PROVE TunnelOK(u)'
    <3>1. /\ phase[k] = "hello" /\ phase'[k] = "replying"
          /\ u \in tunnels' /\ u \in client_tunnels'[k]
          /\ UNCHANGED <<dereg, listener>>
      BY <1>0, <2>0, <2>4 DEF HelloAccepted, register_tunnels, Phases
    <3>2. dereg[k].at = "no"
      BY <1>0, <2>4, <3>1 DEF SessionOK
    <3> QED
      BY <1>0, <2>4, <3>1, <3>2
  <2>5. ASSUME j = k, HelloRejected(k) \/ ReplyFails(k) \/ ShutdownReturns(k)
        PROVE  TunnelOK(u)'
    <3>1. /\ RemoveClient(k) /\ phase'[k] = "deregistering"
          /\ UNCHANGED listener
      BY <2>0, <2>5 DEF HelloRejected, ReplyFails, ShutdownReturns, Phases
    <3>2. listener[u] \notin {"binding", "listening"}
      BY <1>0, <2>5 DEF HelloRejected, ReplyFails, ShutdownReturns, JoinSetListeners
    <3>3. dereg'[k].at = "totals" /\ UNCHANGED <<tunnels, client_tunnels>>
      BY <1>0, <3>1, RemoveClientEffect
    <3> QED
      BY <1>0, <2>5, <3>1, <3>2, <3>3
  <2>6. ASSUME j = k, Deregister(k) PROVE TunnelOK(u)'
    <3>1. OwnTeardown(k) /\ phase[k] = "deregistering" /\ UNCHANGED <<phase, listener>>
      BY <2>6, DeregisterEffect DEF Deregister
    <3>2. /\ dereg'[k].at = "unindex" /\ u \in tunnels' => u \in dereg'[k].todo
          /\ dereg'[k].at = "unindex" /\ dereg'[k].cur = u => u \notin tunnels'
          /\ dereg'[k].at = "done" => u \notin tunnels'
          /\ u \in tunnels' => u \in tunnels
          /\ UNCHANGED client_tunnels
      BY <1>0, <2>6, <3>1 DEF OwnTeardown
    <3> QED
      BY <1>0, <2>6, <3>1, <3>2
  <2> QED
    BY <1>2, <2>1, <2>2, <2>3, <2>4, <2>5, <2>6 DEF SessionStep
<1> QED
  BY <1>1, <1>2

\* A step of the task of c, or of its guard, says nothing of the other conns.
LEMMA ConnFrame ==
    ASSUME IndInv, NEW c \in Conns, UNCHANGED phase, ConnOK(c)',
           \A d \in Conns \ {c} : stage'[d] = stage[d] /\ guard'[d] = guard[d]
    PROVE  ConnInv'
<1>1. ASSUME NEW d \in Conns \ {c} PROVE ConnOK(d)'
  <2>1. ConnOK(d) /\ stage'[d] = stage[d] /\ guard'[d] = guard[d]
        /\ RegisterAt(d)' = RegisterAt(d)
    BY DEF IndInv, ConnInv, RegisterAt
  <2> QED
    BY <2>1 DEF ConnOK, Accepted
<1> QED
  BY <1>1 DEF ConnInv

LEMMA ConnInductive == IndInv /\ [Next]_vars => ConnInv'
<1> SUFFICES ASSUME IndInv, [Next]_vars PROVE ConnInv'
  OBVIOUS
<1>0. /\ ConnInv /\ TunnelInv
      /\ stage \in [Conns -> Stages] /\ guard \in [Conns -> GuardStates]
      /\ Streams \subseteq Conns /\ Accepted = Conns \ Streams
  BY SessionAssumption DEF IndInv, TypeOK, RegistryTypeOK, Accepted
<1>1. ASSUME NEW k \in Clients, SessionStep(k) PROVE ConnInv'
  <2> SUFFICES ASSUME NEW c \in Conns PROVE ConnOK(c)'
    BY DEF ConnInv
  <2>1. ConnOK(c) /\ UNCHANGED <<stage, guard>> /\ RegisterAt(c)' = RegisterAt(c)
    BY <1>0, <1>1, SessionEffect DEF ConnInv, RegisterAt
  <2>2. c \in Streams /\ stage[c] \notin {"none", "done"} => phase'[Via[c]] \in Serving
    <3> SUFFICES ASSUME c \in Streams, stage[c] \notin {"none", "done"}
                 PROVE  phase'[Via[c]] \in Serving
      OBVIOUS
    <3>1. Via[c] \in Clients /\ phase[Via[c]] \in Serving
      BY <2>1, SessionAssumption DEF ConnOK
    <3>2. Via[c] = k => JoinSetConns(k) # {}
      BY DEF JoinSetConns
    <3> QED
      BY <1>1, <3>1, <3>2, SessionEffect
  <2>3. c \in Accepted /\ stage[c] # "none" =>
          phase'[Owner[TunnelOf[c]]] \notin {"none", "accepted", "hello", "replying"}
    <3> SUFFICES ASSUME c \in Accepted, stage[c] # "none"
                 PROVE  phase'[Owner[TunnelOf[c]]]
                            \notin {"none", "accepted", "hello", "replying"}
      OBVIOUS
    <3>1. /\ Owner[TunnelOf[c]] \in Clients
          /\ phase[Owner[TunnelOf[c]]] \notin {"none", "accepted", "hello", "replying"}
      BY <2>1, SessionAssumption, RegistryAssumption DEF ConnOK
    <3> QED
      BY <1>1, <3>1, SessionEffect
  <2> QED
    BY <2>1, <2>2, <2>3 DEF ConnOK, Accepted
<1>2. CASE UNCHANGED <<stage, guard, phase>>
  BY <1>0, <1>2 DEF ConnInv, ConnOK, RegisterAt, Accepted
<1>3. ASSUME NEW c \in Conns, NEW s \in Stages, stage' = [stage EXCEPT ![c] = s],
             UNCHANGED <<guard, phase>>, ConnOK(c)'
      PROVE  ConnInv'
  BY <1>0, <1>3, ConnFrame
<1>4. ASSUME NEW c \in Conns, NEW g \in GuardStates, guard' = [guard EXCEPT ![c] = g],
             UNCHANGED <<stage, phase>>, ConnOK(c)'
      PROVE  ConnInv'
  BY <1>0, <1>4, ConnFrame
<1>5. ASSUME NEW c \in Conns PROVE RegisterAt(c)' = RegisterAt(c) /\ ConnOK(c)
  BY <1>0 DEF RegisterAt, ConnInv
<1>6. ASSUME NEW c \in Streams, AcceptStream(c) PROVE ConnInv'
  <2>1. /\ stage[c] = "none" /\ stage'[c] = "spawned" /\ phase[Via[c]] = "serving"
        /\ UNCHANGED <<guard, phase>>
    BY <1>0, <1>6 DEF AcceptStream, registry
  <2>2. ConnOK(c)'
    BY <1>0, <1>5, <2>1 DEF ConnOK, Serving
  <2> QED
    BY <1>0, <1>3, <1>6, <2>1, <2>2 DEF AcceptStream, Stages
<1>7. ASSUME NEW c \in Streams, ReceiveOpenConn(c) PROVE ConnInv'
  <2>1. /\ stage[c] = "spawned" /\ stage'[c] \in {"opened", "done"}
        /\ stage'[c] = "opened" => TunnelOf[c] \in Tunnels
        /\ stage' = [stage EXCEPT ![c] = stage'[c]]
        /\ UNCHANGED <<guard, phase>>
    BY <1>0, <1>7 DEF ReceiveOpenConn, registry, IndInv, TypeOK, RegistryTypeOK
  <2>2. ConnOK(c)'
    BY <1>0, <1>5, <2>1 DEF ConnOK
  <2> QED
    BY <1>0, <1>3, <2>1, <2>2 DEF Stages
<1>8. ASSUME NEW c \in Conns, AbortConn(c) \/ TaskReturns(c) PROVE ConnInv'
  <2>1. /\ AtAwait(c)
        /\ stage' = [stage EXCEPT ![c] = IF guard[c] = "held" THEN "closing" ELSE "done"]
        /\ UNCHANGED <<guard, phase>>
    BY <1>8 DEF AbortConn, TaskReturns, Finish, registry
  <2>2. /\ guard[c] \in {"none", "held"}
        /\ stage[c] \in {"handshake", "spawned", "opened", "agreed"}
    BY <1>5, <2>1 DEF AtAwait, ConnOK
  <2>3. stage'[c] = IF guard[c] = "held" THEN "closing" ELSE "done"
    BY <1>0, <2>1
  <2>4. ConnOK(c)'
    BY <1>0, <1>5, <2>1, <2>2, <2>3 DEF ConnOK
  <2> QED
    BY <1>3, <2>1, <2>4 DEF Stages
<1>9. ASSUME NEW c \in Accepted, AcceptLocal(c) PROVE ConnInv'
  <2>1. TunnelOf[c] \in Tunnels /\ TunnelOK(TunnelOf[c])
    BY <1>0, SessionAssumption DEF TunnelInv
  <2>2. phase[Owner[TunnelOf[c]]] \in Serving
    BY <1>9, <2>1 DEF AcceptLocal, TunnelOK
  <2>3. /\ stage[c] = "none" /\ stage'[c] \in {"handshake", "spawned"}
        /\ stage' = [stage EXCEPT ![c] = stage'[c]]
        /\ UNCHANGED <<guard, phase>>
    BY <1>0, <1>9 DEF AcceptLocal, registry
  <2>4. ConnOK(c)'
    BY <1>0, <1>5, <2>2, <2>3 DEF ConnOK, Serving
  <2> QED
    BY <1>0, <1>3, <2>3, <2>4 DEF Stages
<1>10. ASSUME NEW c \in Conns, (c \in Accepted /\ SocksHandshake(c))
                               \/ (c \in Accepted /\ OpenBi(c)) \/ Agree(c)
       PROVE  ConnInv'
  <2>1. /\ \/ c \in Accepted /\ stage[c] = "handshake" /\ stage'[c] = "spawned"
           \/ c \in Accepted /\ stage[c] = "spawned" /\ stage'[c] = "opened" /\ AtAwait(c)
           \/ stage[c] = "opened" /\ stage'[c] = "agreed" /\ AtAwait(c)
        /\ stage' = [stage EXCEPT ![c] = stage'[c]]
        /\ UNCHANGED <<guard, phase>>
    BY <1>0, <1>10 DEF SocksHandshake, OpenBi, Agree, registry
  <2>2. guard[c] \in {"none", "held"}
    BY <1>5, <2>1 DEF AtAwait, ConnOK
  <2>3. ConnOK(c)'
    BY <1>0, <1>5, <2>1, <2>2 DEF ConnOK
  <2>4. stage'[c] \in Stages
    BY <2>1 DEF Stages
  <2> QED
    BY <1>3, <2>1, <2>3, <2>4
<1>11. ASSUME NEW c \in Conns, register_conn(c) PROVE ConnInv'
  <2>1. /\ stage[c] = RegisterAt(c)
        /\ guard[c] \in {"none", "listed", "indexed"}
        /\ guard'[c] \in {"listed", "indexed", "held"}
        /\ guard' = [guard EXCEPT ![c] = guard'[c]]
        /\ UNCHANGED <<stage, phase>>
    BY <1>0, <1>11 DEF register_conn, ListConn, IndexConn, CountConn, Advance
  <2>2. /\ stage[c] \in {"spawned", "opened", "agreed"}
        /\ c \in Streams => stage[c] = "agreed"
        /\ c \in Accepted => TunnelOf[c] \in Tunnels
    BY <2>1, SessionAssumption DEF RegisterAt
  <2>3. ConnOK(c)'
    BY <1>0, <1>5, <2>1, <2>2 DEF ConnOK
  <2> QED
    BY <1>4, <2>1, <2>3 DEF GuardStates
<1>12. ASSUME NEW c \in Conns, close_conn(c) PROVE ConnInv'
  <2>1. /\ stage[c] = "closing"
        /\ \/ guard'[c] \in {"folded", "unlisted"} /\ stage'[c] = "closing"
           \/ guard'[c] = "dropped" /\ stage'[c] = "done"
        /\ guard[c] \in {"held", "folded", "unlisted"}
        /\ \A d \in Conns \ {c} : stage'[d] = stage[d] /\ guard'[d] = guard[d]
        /\ UNCHANGED phase
    BY <1>0, <1>12 DEF close_conn, FoldConn, UnlistConn, UnindexConn, Advance
  <2>2. ConnOK(c)'
    BY <1>0, <1>5, <2>1 DEF ConnOK
  <2> QED
    BY <2>1, <2>2, ConnFrame
<1>13. CASE Quiescent \/ UNCHANGED vars \/ (\E t \in Tunnels : Bind(t) \/ AbortListener(t))
            \/ (\E c \in Conns : Relay(c))
  BY <1>2, <1>13 DEF Quiescent, vars, registry, Bind, AbortListener, Relay, Count
<1> QED
  BY <1>0, <1>1, <1>6, <1>7, <1>8, <1>9, <1>10, <1>11, <1>12, <1>13 DEF Next, ConnStep

\* The conn indexes depend on the conns, their guards and the registered clients:
\* they keep agreeing on a conn whose entries and client stay as they were.
LEMMA IndexFrame ==
    ASSUME IndInv, NEW d \in Conns, guard'[d] = guard[d],
           d \in conns' <=> d \in conns,
           ClientOf(d) \in clients' => ClientOf(d) \in clients,
           \A t \in Tunnels : d \in tunnel_conns'[t] <=> d \in tunnel_conns[t]
    PROVE  IndexOK(d)'
<1>1. IndexOK(d) /\ (guard[d] # "none" => TunnelOf[d] \in Tunnels)
  BY DEF IndInv, IndexInv, ConnInv, ConnOK
<1>2. ClientOf(d)' = ClientOf(d)
  BY DEF ClientOf
<1> QED
  BY <1>1, <1>2 DEF IndexOK

LEMMA IndexInductive == IndInv /\ [Next]_vars => IndexInv'
<1> SUFFICES ASSUME IndInv, [Next]_vars, NEW d \in Conns PROVE IndexOK(d)'
  BY DEF IndexInv
<1>0. /\ IndexOK(d) /\ ConnOK(d) /\ ClientOf(d)' = ClientOf(d)
      /\ guard \in [Conns -> GuardStates]
      /\ tunnel_conns \in [Tunnels -> SUBSET Conns]
      /\ TunnelOf[d] \in Tunnels \cup {NoTunnel} /\ NoTunnel \notin Tunnels
  BY RegistryAssumption DEF IndInv, TypeOK, RegistryTypeOK, IndexInv, ConnInv, ClientOf
<1>1. ASSUME NEW k \in Clients, SessionStep(k) PROVE IndexOK(d)'
  <2>1. UNCHANGED <<guard, tunnel_conns>>
    BY <1>1, SessionEffect
  <2>2. CASE UNCHANGED conns /\ clients' \subseteq clients
    BY <2>1, <2>2, IndexFrame
  <2>3. CASE Connected(k)
    <3>1. ClientOf(d) = k => guard[d] \notin {"indexed", "held", "folded", "unlisted"}
      BY <1>0, <2>3, SessionAssumption DEF Connected, ConnOK, ClientOf, Accepted, Serving,
         IndInv, TypeOK, Stages
    <3>2. clients' = clients \cup {k} /\ UNCHANGED conns
      BY <2>3 DEF Connected, register_client
    <3> QED
      BY <1>0, <2>1, <3>1, <3>2 DEF IndexOK
  <2>4. CASE Deregister(k)
    <3>0. phase[k] = "deregistering" /\ k \notin clients
      BY <2>4 DEF Deregister, IndInv, SessionInv, SessionOK, Registered, Serving
    <3>1. /\ UNCHANGED clients /\ conns' \subseteq conns
          /\ d \in conns \ conns' => TunnelOf[d] \in Tunnels /\ Owner[TunnelOf[d]] = k
      BY <2>4, DeregisterEffect DEF Deregister, OwnTeardown
    <3>2. d \in conns \ conns' => ClientOf(d) = k
      BY <3>1, ClientOfTunnel
    <3>3. UNCHANGED tunnel_conns /\ UNCHANGED guard
      BY <2>1
    <3> QED
      BY <1>0, <3>0, <3>1, <3>2, <3>3 DEF IndexOK
  <2>5. CASE HelloRejected(k) \/ ReplyFails(k) \/ ShutdownReturns(k)
    BY <2>2, <2>5 DEF HelloRejected, ReplyFails, ShutdownReturns, RemoveClient
  <2>6. CASE \/ HelloAccepted(k) \/ Accept(k) \/ Lose(k) \/ HandshakeFails(k)
             \/ ConnectionEnds(k) \/ Release(k) \/ Established(k)
    BY <2>2, <2>6 DEF HelloAccepted, register_tunnels, Accept, Lose, HandshakeFails,
       ConnectionEnds, Release, Established, registry
  <2> QED
    BY <1>1, <2>3, <2>4, <2>5, <2>6 DEF SessionStep
<1>2. CASE UNCHANGED <<clients, conns, tunnel_conns, guard>>
  BY <1>2, IndexFrame
<1>3. ASSUME NEW c \in Conns, c # d, UNCHANGED clients,
             \E g \in GuardStates : guard' = [guard EXCEPT ![c] = g],
             conns' \in {conns, conns \cup {c}, conns \ {c}},
             UNCHANGED tunnel_conns
      PROVE  IndexOK(d)'
  <2>1. guard'[d] = guard[d] /\ (d \in conns' <=> d \in conns)
    BY <1>0, <1>3
  <2> QED
    BY <1>3, <2>1, IndexFrame
<1>4. ASSUME NEW c \in Conns, stage[c] = RegisterAt(c), ListConn(c) PROVE IndexOK(d)'
  <2>1. TunnelOf[c] \in Tunnels
    BY <1>4, SessionAssumption DEF RegisterAt, Accepted, IndInv, ConnInv, ConnOK
  <2>2. /\ guard' = [guard EXCEPT ![c] = "listed"] /\ guard[c] = "none"
        /\ tunnel_conns' = [tunnel_conns EXCEPT ![TunnelOf[c]] = tunnel_conns[TunnelOf[c]] \cup {c}]
        /\ UNCHANGED <<clients, conns>>
    BY <1>4 DEF ListConn, Advance
  <2>3. CASE c # d
    <3>1. guard'[d] = guard[d]
      BY <1>0, <2>2, <2>3
    <3>2. \A t \in Tunnels : d \in tunnel_conns'[t] <=> d \in tunnel_conns[t]
      BY <1>0, <2>1, <2>2, <2>3
    <3> QED
      BY <2>2, <3>1, <3>2, IndexFrame
  <2>4. CASE c = d
    <3>1. guard'[d] = "listed" /\ d \in tunnel_conns'[TunnelOf[d]]
      BY <1>0, <2>1, <2>2, <2>4
    <3>2. \A t \in Tunnels : d \in tunnel_conns'[t] => t = TunnelOf[d]
      BY <1>0, <2>1, <2>2, <2>4 DEF IndexOK
    <3> QED
      BY <1>0, <2>2, <2>4, <3>1, <3>2 DEF IndexOK
  <2> QED
    BY <2>3, <2>4
<1>5. ASSUME NEW c \in Conns, UnlistConn(c) PROVE IndexOK(d)'
  <2>1. TunnelOf[c] \in Tunnels
    BY <1>5 DEF UnlistConn, Advance, IndInv, ConnInv, ConnOK
  <2>2. /\ guard' = [guard EXCEPT ![c] = "unlisted"] /\ guard[c] = "folded"
        /\ tunnel_conns' = [tunnel_conns EXCEPT ![TunnelOf[c]] = tunnel_conns[TunnelOf[c]] \ {c}]
        /\ UNCHANGED <<clients, conns>>
    BY <1>5 DEF UnlistConn, Advance
  <2>3. CASE c # d
    <3>1. guard'[d] = guard[d]
      BY <1>0, <2>2, <2>3
    <3>2. \A t \in Tunnels : d \in tunnel_conns'[t] <=> d \in tunnel_conns[t]
      BY <1>0, <2>1, <2>2, <2>3
    <3> QED
      BY <2>2, <3>1, <3>2, IndexFrame
  <2>4. CASE c = d
    <3>1. guard'[d] = "unlisted"
      BY <1>0, <2>2, <2>4
    <3>2. \A t \in Tunnels : d \notin tunnel_conns'[t]
      BY <1>0, <2>1, <2>2, <2>4 DEF IndexOK
    <3> QED
      BY <1>0, <2>2, <2>4, <3>1, <3>2 DEF IndexOK
  <2> QED
    BY <2>3, <2>4
<1>6. ASSUME NEW c \in Conns, IndexConn(c) \/ CountConn(c) \/ FoldConn(c) \/ UnindexConn(c)
      PROVE  IndexOK(d)'
  <2>1. /\ UNCHANGED <<clients, tunnel_conns>>
        /\ \/ /\ guard[c] = "listed" /\ guard' = [guard EXCEPT ![c] = "indexed"]
              /\ conns' = conns \cup {c}
           \/ /\ guard[c] = "indexed" /\ guard' = [guard EXCEPT ![c] = "held"]
              /\ conns' = conns
           \/ /\ guard[c] = "held" /\ guard' = [guard EXCEPT ![c] = "folded"]
              /\ conns' = conns
           \/ /\ guard[c] = "unlisted" /\ guard' = [guard EXCEPT ![c] = "dropped"]
              /\ conns' = conns \ {c}
    BY <1>6 DEF IndexConn, CountConn, FoldConn, UnindexConn, Advance
  <2>2. CASE c # d
    <3>1. \E g \in GuardStates : guard' = [guard EXCEPT ![c] = g]
      BY <2>1 DEF GuardStates
    <3> QED
      BY <1>3, <2>1, <2>2, <3>1
  <2>3. CASE c = d
    <3>1. \/ guard[d] = "listed" /\ guard'[d] = "indexed" /\ d \in conns'
          \/ guard[d] = "indexed" /\ guard'[d] = "held" /\ conns' = conns
          \/ guard[d] = "held" /\ guard'[d] = "folded" /\ conns' = conns
          \/ guard[d] = "unlisted" /\ guard'[d] = "dropped" /\ d \notin conns'
      BY <1>0, <2>1, <2>3
    <3> QED
      BY <1>0, <2>1, <3>1 DEF IndexOK
  <2> QED
    BY <2>2, <2>3
<1>7. ASSUME NEW c \in Conns, ConnStep(c) PROVE IndexOK(d)'
  BY <1>2, <1>4, <1>5, <1>6, <1>7 DEF ConnStep, Agree, register_conn, Relay, Count,
     TaskReturns, close_conn, registry
<1>8. CASE ~ (\E k \in Clients : SessionStep(k)) /\ ~ (\E c \in Conns : ConnStep(c))
  <2>1. UNCHANGED registry
    BY <1>8 DEF Next, Bind, AbortListener, AcceptStream, ReceiveOpenConn, AbortConn,
       AcceptLocal, SocksHandshake, OpenBi, Quiescent, vars
  <2> QED
    BY <1>2, <2>1 DEF registry
<1> QED
  BY <1>1, <1>7, <1>8

\* The inductive invariant holds in every reachable state.
THEOREM Invariance == Spec => []IndInv
<1>1. Init => IndInv
  <2> SUFFICES ASSUME Init PROVE IndInv
    OBVIOUS
  <2> USE RegistryAssumption, SessionAssumption DEF Init, RegistryInit, Idle
  <2>1. TypeOK
    BY TypeInit
  <2>2. SessionInv /\ TunnelInv
    BY DEF SessionInv, SessionOK, TunnelInv, TunnelOK, Registered, Serving
  <2>3. ConnInv /\ IndexInv
    BY DEF ConnInv, ConnOK, IndexInv, IndexOK
  <2> QED
    BY <2>1, <2>2, <2>3 DEF IndInv
<1>2. IndInv /\ [Next]_vars => IndInv'
  BY TypeInductive, SessionInductive, TunnelInductive, ConnInductive, IndexInductive
     DEF IndInv
<1> QED
  BY <1>1, <1>2, PTL DEF Spec
=============================================================================
