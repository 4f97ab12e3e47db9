----------------------------- MODULE ServerState -----------------------------
(***************************************************************************)
(* The observability registry of a Rusnel server (server/state.rs): the    *)
(* three layers client, tunnel and conn, each kept both in a flat global   *)
(* index and below its parent, the byte and conn counters, and the ring    *)
(* buffer of disconnected clients.                                         *)
(*                                                                         *)
(* The registry is shared by every task of a multi-threaded runtime and is *)
(* built from concurrent maps and relaxed atomics, without a lock around   *)
(* an operation.  An operation that touches several of them is therefore   *)
(* several actions here, one per map or atomic, in the order of the code.  *)
(* Its position is kept in guard[c] (register_conn and the drop of its     *)
(* ConnGuard) and in dereg[k] (deregister_client).                         *)
(*                                                                         *)
(* Identifiers are minted once and never reused, so a client, a tunnel or  *)
(* a conn is identified with its id.  The two directions of a byte counter *)
(* are always updated and read together and are one number here.           *)
(***************************************************************************)
EXTENDS Integers, Sequences, FiniteSets

CONSTANTS
    Clients,           \* client ids: one QUIC connection each
    Tunnels,           \* tunnel ids
    Conns,             \* conn ids
    Owner,             \* [Tunnels -> Clients]: the client that declares it
    TunnelOf,          \* [Conns -> Tunnels \cup {NoTunnel}]
    NoTunnel,
    HISTORY_CAPACITY   \* state.rs:46, 256 in the code

ASSUME RegistryAssumption ==
    /\ Owner \in [Tunnels -> Clients]
    /\ NoTunnel \notin Tunnels
    /\ TunnelOf \in [Conns -> Tunnels \cup {NoTunnel}]
    /\ HISTORY_CAPACITY \in Nat \ {0}

VARIABLES
    clients,         \* inner.clients
    tunnels,         \* inner.tunnels, the flat index
    conns,           \* inner.conns, the flat index
    client_tunnels,  \* ClientEntry::tunnels
    tunnel_conns,    \* TunnelEntry::conns
    counters,        \* ConnEntry::counters: bytes that flowed through a conn
    cumulative,      \* TunnelEntry::cumulative_in / cumulative_out
    total_conns,     \* TunnelEntry::total_conns
    history,         \* the ring of HistoryEntry, oldest first
    departed,        \* auxiliary: the clients in the order they entered the ring
    guard,           \* how far register_conn / ConnGuard::drop has got
    dereg            \* how far deregister_client has got, and its locals

registry == <<clients, tunnels, conns, client_tunnels, tunnel_conns, counters,
              cumulative, total_conns, history, departed, guard, dereg>>

-----------------------------------------------------------------------------
(* Types and initial state.                                                *)

\* "listed": in tunnel.conns; "indexed": in inner.conns too; "held": counted,
\* the ConnGuard is returned; "folded": bytes added to cumulative;
\* "unlisted": out of tunnel.conns; "dropped": out of inner.conns.
GuardStates == {"none", "listed", "indexed", "held", "folded", "unlisted",
                "dropped"}

HistoryEntry == [client_id : Clients, bytes : Nat, total_conns : Nat]

\* The locals of deregister_client.  at: the loop it is in; todo: the tunnels
\* that loop has left; cur: the tunnel whose conns it iterates; due: the conns
\* that were there when the iteration began; seen: those it has visited;
\* bytes, total: the roll-up.
DeregLocals ==
    [at    : {"no", "totals", "unindex", "done"},
     todo  : SUBSET Tunnels,
     cur   : Tunnels \cup {NoTunnel},
     due   : SUBSET Conns,
     seen  : SUBSET Conns,
     bytes : Nat,
     total : Nat]

Idle == [at |-> "no", todo |-> {}, cur |-> NoTunnel, due |-> {}, seen |-> {},
         bytes |-> 0, total |-> 0]

RegistryTypeOK ==
    /\ clients \in SUBSET Clients
    /\ tunnels \in SUBSET Tunnels
    /\ conns \in SUBSET Conns
    /\ client_tunnels \in [Clients -> SUBSET Tunnels]
    /\ tunnel_conns \in [Tunnels -> SUBSET Conns]
    /\ counters \in [Conns -> Nat]
    /\ cumulative \in [Tunnels -> Nat]
    /\ total_conns \in [Tunnels -> Nat]
    /\ history \in Seq(HistoryEntry)
    /\ departed \in Seq(Clients)
    /\ guard \in [Conns -> GuardStates]
    /\ dereg \in [Clients -> DeregLocals]

RegistryInit ==
    /\ clients = {}
    /\ tunnels = {}
    /\ conns = {}
    /\ client_tunnels = [k \in Clients |-> {}]
    /\ tunnel_conns = [t \in Tunnels |-> {}]
    /\ counters = [c \in Conns |-> 0]
    /\ cumulative = [t \in Tunnels |-> 0]
    /\ total_conns = [t \in Tunnels |-> 0]
    /\ history = << >>
    /\ departed = << >>
    /\ guard = [c \in Conns |-> "none"]
    /\ dereg = [k \in Clients |-> Idle]

-----------------------------------------------------------------------------
(* Clients and tunnels.                                                    *)

register_client(k) ==
    /\ clients' = clients \cup {k}
    /\ UNCHANGED <<tunnels, conns, client_tunnels, tunnel_conns, counters,
                   cumulative, total_conns, history, departed, guard, dereg>>

\* One entry per declared remote, in both views.  The batch is one action:
\* until the hello is answered nobody but a reader of the admin API can name
\* these tunnels.
register_tunnels(k, ts) ==
    /\ client_tunnels' = [client_tunnels EXCEPT ![k] = ts]
    /\ tunnels' = tunnels \cup ts
    /\ UNCHANGED <<clients, conns, tunnel_conns, counters, cumulative,
                   total_conns, history, departed, guard, dereg>>

-----------------------------------------------------------------------------
(* Conns.  register_conn is ListConn, IndexConn, CountConn; close_conn, run *)
(* by the drop of the guard, is FoldConn, UnlistConn, UnindexConn.          *)

Advance(c, from, to) ==
    /\ guard[c] = from
    /\ guard' = [guard EXCEPT ![c] = to]

ListConn(c) ==
    /\ Advance(c, "none", "listed")
    /\ tunnel_conns' = [tunnel_conns EXCEPT ![TunnelOf[c]] = @ \cup {c}]
    /\ UNCHANGED <<clients, tunnels, conns, client_tunnels, counters, cumulative,
                   total_conns, history, departed, dereg>>

\* Fault: register_conn fills only the view below the tunnel.
IndexConnForgotten(c) ==
    /\ Advance(c, "listed", "indexed")
    /\ UNCHANGED <<clients, tunnels, conns, client_tunnels, tunnel_conns, counters,
                   cumulative, total_conns, history, departed, dereg>>

IndexConn(c) ==
    /\ Advance(c, "listed", "indexed")
    /\ conns' = conns \cup {c}
    /\ UNCHANGED <<clients, tunnels, client_tunnels, tunnel_conns, counters,
                   cumulative, total_conns, history, departed, dereg>>

CountConn(c) ==
    /\ Advance(c, "indexed", "held")
    /\ total_conns' = [total_conns EXCEPT ![TunnelOf[c]] = @ + 1]
    /\ UNCHANGED <<clients, tunnels, conns, client_tunnels, tunnel_conns,
                   counters, cumulative, history, departed, dereg>>

\* The data plane bumps the counters of a conn whose guard is held.
Count(c) ==
    /\ guard[c] = "held"
    /\ counters' = [counters EXCEPT ![c] = @ + 1]
    /\ UNCHANGED <<clients, tunnels, conns, client_tunnels, tunnel_conns,
                   cumulative, total_conns, history, departed, guard, dereg>>

FoldConn(c) ==
    /\ Advance(c, "held", "folded")
    /\ cumulative' = [cumulative EXCEPT ![TunnelOf[c]] = @ + counters[c]]
    /\ UNCHANGED <<clients, tunnels, conns, client_tunnels, tunnel_conns,
                   counters, total_conns, history, departed, dereg>>

UnlistConn(c) ==
    /\ Advance(c, "folded", "unlisted")
    /\ tunnel_conns' = [tunnel_conns EXCEPT ![TunnelOf[c]] = @ \ {c}]
    /\ UNCHANGED <<clients, tunnels, conns, client_tunnels, counters, cumulative,
                   total_conns, history, departed, dereg>>

\* Fault: close_conn cleans up only the view below the tunnel.
UnindexConnForgotten(c) ==
    /\ Advance(c, "unlisted", "dropped")
    /\ UNCHANGED <<clients, tunnels, conns, client_tunnels, tunnel_conns, counters,
                   cumulative, total_conns, history, departed, dereg>>

UnindexConn(c) ==
    /\ Advance(c, "unlisted", "dropped")
    /\ conns' = conns \ {c}
    /\ UNCHANGED <<clients, tunnels, client_tunnels, tunnel_conns, counters,
                   cumulative, total_conns, history, departed, dereg>>

-----------------------------------------------------------------------------
(* deregister_client.  Two loops over the client's tunnels, each iterating *)
(* over the conns of one tunnel while other tasks insert into and remove   *)
(* from that map: a conn present throughout is visited, one that comes or  *)
(* goes meanwhile may or may not be.                                       *)

Unvisited(k) == tunnel_conns[dereg[k].cur] \ dereg[k].seen

Iterating(k, loop) == dereg[k].at = loop /\ dereg[k].cur # NoTunnel

BetweenTunnels(k, loop) == dereg[k].at = loop /\ dereg[k].cur = NoTunnel

IterationOver(k) == dereg[k].due \cap Unvisited(k) = {}

BeginIteration(k, t) ==
    dereg' = [dereg EXCEPT ![k] = [@ EXCEPT
                  !.cur = t, !.due = tunnel_conns[t], !.seen = {}]]

RemoveClient(k) ==
    /\ k \in clients
    /\ clients' = clients \ {k}
    /\ dereg' = [dereg EXCEPT ![k] = [Idle EXCEPT !.at = "totals",
                                                  !.todo = client_tunnels[k]]]
    /\ UNCHANGED <<tunnels, conns, client_tunnels, tunnel_conns, counters,
                   cumulative, total_conns, history, departed, guard>>

TotalsTunnel(k, t) ==
    /\ BetweenTunnels(k, "totals")
    /\ t \in dereg[k].todo
    /\ BeginIteration(k, t)
    /\ UNCHANGED <<clients, tunnels, conns, client_tunnels, tunnel_conns,
                   counters, cumulative, total_conns, history, departed, guard>>

TotalsConn(k, c) ==
    /\ Iterating(k, "totals")
    /\ c \in Unvisited(k)
    /\ dereg' = [dereg EXCEPT ![k] = [@ EXCEPT
                  !.seen = dereg[k].seen \cup {c}, !.bytes = dereg[k].bytes + counters[c]]]
    /\ UNCHANGED <<clients, tunnels, conns, client_tunnels, tunnel_conns,
                   counters, cumulative, total_conns, history, departed, guard>>

\* Fault: the roll-up leaves out the conns that closed before the disconnect.
TotalsLoadActiveOnly(k) ==
    /\ Iterating(k, "totals")
    /\ IterationOver(k)
    /\ LET t == dereg[k].cur IN
        dereg' = [dereg EXCEPT ![k] = [@ EXCEPT
                      !.total = dereg[k].total + total_conns[t],
                      !.todo = dereg[k].todo \ {t},
                      !.cur = NoTunnel]]
    /\ UNCHANGED <<clients, tunnels, conns, client_tunnels, tunnel_conns,
                   counters, cumulative, total_conns, history, departed, guard>>

\* After the iteration TunnelEntry::totals loads the cumulative counters.
TotalsLoad(k) ==
    /\ Iterating(k, "totals")
    /\ IterationOver(k)
    /\ LET t == dereg[k].cur IN
        dereg' = [dereg EXCEPT ![k] = [@ EXCEPT
                      !.bytes = dereg[k].bytes + cumulative[t],
                      !.total = dereg[k].total + total_conns[t],
                      !.todo = dereg[k].todo \ {t},
                      !.cur = NoTunnel]]
    /\ UNCHANGED <<clients, tunnels, conns, client_tunnels, tunnel_conns,
                   counters, cumulative, total_conns, history, departed, guard>>

TotalsDone(k) ==
    /\ BetweenTunnels(k, "totals")
    /\ dereg[k].todo = {}
    /\ dereg' = [dereg EXCEPT ![k] = [@ EXCEPT
                  !.at = "unindex", !.todo = client_tunnels[k]]]
    /\ UNCHANGED <<clients, tunnels, conns, client_tunnels, tunnel_conns,
                   counters, cumulative, total_conns, history, departed, guard>>

\* Fault: the tunnel stays in the flat index.
UnindexTunnelForgotten(k, t) ==
    /\ BetweenTunnels(k, "unindex")
    /\ t \in dereg[k].todo
    /\ BeginIteration(k, t)
    /\ UNCHANGED <<clients, tunnels, conns, client_tunnels, tunnel_conns, counters,
                   cumulative, total_conns, history, departed, guard>>

UnindexTunnel(k, t) ==
    /\ BetweenTunnels(k, "unindex")
    /\ t \in dereg[k].todo
    /\ tunnels' = tunnels \ {t}
    /\ BeginIteration(k, t)
    /\ UNCHANGED <<clients, conns, client_tunnels, tunnel_conns, counters,
                   cumulative, total_conns, history, departed, guard>>

UnindexTunnelConn(k, c) ==
    /\ Iterating(k, "unindex")
    /\ c \in Unvisited(k)
    /\ conns' = conns \ {c}
    /\ dereg' = [dereg EXCEPT ![k] = [@ EXCEPT
                  !.seen = dereg[k].seen \cup {c}]]
    /\ UNCHANGED <<clients, tunnels, client_tunnels, tunnel_conns, counters,
                   cumulative, total_conns, history, departed, guard>>

UnindexTunnelDone(k) ==
    /\ Iterating(k, "unindex")
    /\ IterationOver(k)
    /\ dereg' = [dereg EXCEPT ![k] = [@ EXCEPT
                  !.todo = dereg[k].todo \ {dereg[k].cur}, !.cur = NoTunnel]]
    /\ UNCHANGED <<clients, tunnels, conns, client_tunnels, tunnel_conns,
                   counters, cumulative, total_conns, history, departed, guard>>

\* Fault: a full ring drops its newest entry (pop_back).
PushHistoryOverNewest(k) ==
    /\ BetweenTunnels(k, "unindex")
    /\ dereg[k].todo = {}
    /\ LET h == [client_id |-> k, bytes |-> dereg[k].bytes,
                 total_conns |-> dereg[k].total]
           kept == IF Len(history) = HISTORY_CAPACITY
                   THEN SubSeq(history, 1, Len(history) - 1) ELSE history
       IN history' = Append(kept, h)
    /\ departed' = Append(departed, k)
    /\ dereg' = [dereg EXCEPT ![k] = [Idle EXCEPT !.at = "done"]]
    /\ UNCHANGED <<clients, tunnels, conns, client_tunnels, tunnel_conns,
                   counters, cumulative, total_conns, guard>>

PushHistory(k) ==
    /\ BetweenTunnels(k, "unindex")
    /\ dereg[k].todo = {}
    /\ LET h == [client_id |-> k, bytes |-> dereg[k].bytes,
                 total_conns |-> dereg[k].total]
           kept == IF Len(history) = HISTORY_CAPACITY THEN Tail(history)
                                                      ELSE history
       IN history' = Append(kept, h)
    /\ departed' = Append(departed, k)
    /\ dereg' = [dereg EXCEPT ![k] = [Idle EXCEPT !.at = "done"]]
    /\ UNCHANGED <<clients, tunnels, conns, client_tunnels, tunnel_conns,
                   counters, cumulative, total_conns, guard>>

deregister_client_step(k) ==
    \/ \E t \in Tunnels : TotalsTunnel(k, t) \/ UnindexTunnel(k, t)
    \/ \E c \in Conns : TotalsConn(k, c) \/ UnindexTunnelConn(k, c)
    \/ TotalsLoad(k)
    \/ TotalsDone(k)
    \/ UnindexTunnelDone(k)
    \/ PushHistory(k)
=============================================================================
