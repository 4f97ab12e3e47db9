------------------------- MODULE ServerSessionProofs -------------------------
(***************************************************************************)
(* The safety of the server's sessions for any number of clients, tunnels  *)
(* and conns, any policy and any cap.                                      *)
(***************************************************************************)
EXTENDS ServerSessionInvariant, FiniteSetTheorems

\* The semaphore hands out at most MaxConnections permits.
PermitInv ==
    /\ IsFiniteSet(permits)
    /\ Cardinality(permits) <= MaxConnections

LEMMA PermitInductive == TypeOK /\ PermitInv /\ [Next]_vars => PermitInv'
<1> SUFFICES ASSUME TypeOK, PermitInv, [Next]_vars PROVE PermitInv'
  OBVIOUS
<1> USE SessionAssumption DEF PermitInv
<1>1. CASE UNCHANGED permits
  BY <1>1
<1>2. ASSUME NEW k \in Clients, Accept(k), permits' = permits \cup {k},
             Cardinality(permits) < MaxConnections
      PROVE  PermitInv'
  <2>0. /\ IsFiniteSet(permits')
        /\ \/ Cardinality(permits') = Cardinality(permits)
           \/ Cardinality(permits') = Cardinality(permits) + 1
    BY <1>2, FS_AddElement
  <2>1. Cardinality(permits) \in Nat
    BY FS_CardinalityType
  <2>2. Cardinality(permits') \in Nat
    BY <2>0, <2>1
  <2> QED
    BY <1>2, <2>0, <2>1, <2>2
<1>3. ASSUME NEW k \in Clients, permits' = permits \ {k} PROVE PermitInv'
  <2>1. IsFiniteSet(permits') /\ Cardinality(permits') <= Cardinality(permits)
    BY <1>3, FS_Subset
  <2>2. Cardinality(permits) \in Nat /\ Cardinality(permits') \in Nat
    BY <2>1, FS_CardinalityType
  <2> QED
    BY <2>1, <2>2
<1>4. CASE ~ UNCHANGED permits
  <2>1. PICK k \in Clients : SessionStep(k)
    BY <1>4, TaskEffect
  <2>2. Accept(k) \/ Release(k)
    BY <1>4, <2>1 DEF SessionStep, Lose, Connected, HandshakeFails, HelloAccepted,
       HelloRejected, Established, ReplyFails, ConnectionEnds, ShutdownReturns, Deregister
  <2>3. CASE Accept(k)
    BY <1>2, <1>4, <2>3 DEF Accept
  <2>4. CASE Release(k)
    BY <1>3, <2>4 DEF Release
  <2> QED
    BY <2>2, <2>3, <2>4
<1> QED
  BY <1>1, <1>4

\* handle_client_connection returns its permit after deregister_client, so the
\* registered clients never exceed max_connections.
THEOREM CapHoldsAlways == Spec => []CapHolds
<1>1. IndInv /\ PermitInv => CapHolds
  <2> SUFFICES ASSUME IndInv, PermitInv PROVE CapHolds
    OBVIOUS
  <2>1. clients \subseteq permits
    BY DEF IndInv, SessionInv, SessionOK, Registered, TypeOK, RegistryTypeOK
  <2>2. /\ Cardinality(clients) <= Cardinality(permits)
        /\ Cardinality(clients) \in Nat
        /\ Cardinality(permits) \in Nat
    BY <2>1, FS_Subset, FS_CardinalityType DEF PermitInv
  <2> QED
    BY <2>2, SessionAssumption DEF CapHolds, PermitInv
<1>2. Init => PermitInv
  BY FS_EmptySet, SessionAssumption DEF Init, PermitInv
<1>3. IndInv => TypeOK
  BY DEF IndInv
<1> QED
  BY <1>1, <1>2, <1>3, Invariance, PermitInductive, PTL DEF Spec

\* When deregister_client runs, tunnels.shutdown() has left no task of the JoinSet:
\* no forward conn and no reverse listener outlives its session.
THEOREM JoinSetScopedAlways == Spec => []JoinSetScoped
<1>1. IndInv => JoinSetScoped
  BY RegistryAssumption, SessionAssumption
     DEF IndInv, ConnInv, ConnOK, TunnelInv, TunnelOK, Serving, JoinSetScoped, JoinSetConns,
         JoinSetListeners
<1> QED
  BY <1>1, Invariance, PTL

\* An OpenConn frame finds the tunnel its client was told of.
THEOREM OpenConnFindsTunnelAlways == Spec => []OpenConnFindsTunnel
<1>1. IndInv => OpenConnFindsTunnel
  BY RegistryAssumption, SessionAssumption
     DEF IndInv, ConnInv, ConnOK, TunnelInv, TunnelOK, Serving, OpenConnFindsTunnel
<1> QED
  BY <1>1, Invariance, PTL

\* No entry of a conn index is without the guard that will remove it.
THEOREM EntriesGuardedAlways == Spec => []EntriesGuarded
<1>1. IndInv => EntriesGuarded
  <2> SUFFICES ASSUME IndInv PROVE EntriesGuarded
    OBVIOUS
  <2>1. /\ conns \subseteq Conns
        /\ \A t \in Tunnels : tunnel_conns[t] \subseteq Conns
        /\ stage \in [Conns -> Stages]
    BY DEF IndInv, TypeOK, RegistryTypeOK
  <2>2. \A c \in Conns : ConnOK(c) /\ IndexOK(c)
    BY DEF IndInv, ConnInv, IndexInv
  <2>3. \A c \in Conns : guard[c] \in {"listed", "indexed", "folded", "unlisted"}
                         => stage[c] \notin {"none", "done"}
    BY <2>2 DEF ConnOK
  <2> QED
    BY <2>1, <2>2, <2>3 DEF IndexOK, EntriesGuarded
<1> QED
  BY <1>1, Invariance, PTL

\* The flat and the nested view of a registered client's conns agree.
THEOREM ViewsAgreeAlways == Spec => []ViewsAgree
<1>1. IndInv => ViewsAgree
  <2> SUFFICES ASSUME IndInv, NEW c \in Conns, guard[c] = "held", ClientOf(c) \in clients
               PROVE  /\ c \in conns
                      /\ c \in tunnel_conns[TunnelOf[c]]
                      /\ TunnelOf[c] \in tunnels \cap client_tunnels[ClientOf(c)]
    BY DEF ViewsAgree
  <2>1. TunnelOf[c] \in Tunnels /\ ClientOf(c) = Owner[TunnelOf[c]] /\ ClientOf(c) \in Clients
    BY ClientOfTunnel DEF IndInv, ConnInv, ConnOK
  <2>2. stage[c] \notin {"none", "done"}
    BY DEF IndInv, ConnInv, ConnOK
  <2>3. phase[ClientOf(c)] \in Serving
    BY <2>1, <2>2, SessionAssumption
       DEF IndInv, ConnInv, ConnOK, SessionInv, SessionOK, Registered, Serving, ClientOf, Accepted
  <2> QED
    BY <2>1, <2>3 DEF IndInv, IndexInv, IndexOK, SessionInv, SessionOK, TunnelInv, TunnelOK, Serving
<1> QED
  BY <1>1, Invariance, PTL

\* deregister_client leaves neither a tunnel nor a forward conn of its client in
\* the flat indexes.
THEOREM DeregisteredLeavesNothingAlways == Spec => []DeregisteredLeavesNothing
<1>1. IndInv => DeregisteredLeavesNothing
  <2> SUFFICES ASSUME IndInv, NEW k \in Clients, dereg[k].at = "done"
               PROVE  /\ \A t \in tunnels : Owner[t] # k
                      /\ \A c \in conns \cap Streams : Via[c] # k
    BY DEF DeregisteredLeavesNothing
  <2>1. \A t \in tunnels : Owner[t] # k
    BY DEF IndInv, TypeOK, RegistryTypeOK, TunnelInv, TunnelOK
  <2>2. phase[k] \notin Serving
    BY DEF IndInv, SessionInv, SessionOK, Serving
  <2>3. \A c \in conns : stage[c] \notin {"none", "done"}
    BY DEF IndInv, TypeOK, RegistryTypeOK, ConnInv, ConnOK, IndexInv, IndexOK
  <2> QED
    BY <2>1, <2>2, <2>3 DEF IndInv, TypeOK, RegistryTypeOK, ConnInv, ConnOK
<1> QED
  BY <1>1, Invariance, PTL

-----------------------------------------------------------------------------
(* Sums over finite sets of conns.                                         *)

\* The bytes of one conn, and of a set of conns.
Part(f, c) == {c} \X (1 .. f[c])

Parts(f, S) == UNION {Part(f, c) : c \in S}

LEMMA PartCounts ==
    ASSUME NEW f, NEW c, f[c] \in Nat
    PROVE  IsFiniteSet(Part(f, c)) /\ Cardinality(Part(f, c)) = f[c]
<1> DEFINE n == f[c]
<1>1. n \in Nat
  OBVIOUS
<1> HIDE DEF n
<1>2. IsFiniteSet(1 .. n) /\ Cardinality(1 .. n) = n
  BY <1>1, FS_Interval
<1>3. IsFiniteSet({c}) /\ Cardinality({c}) = 1
  BY FS_Singleton
<1> DEFINE A == {c}
           B == 1 .. n
<1>4. IsFiniteSet(A \X B) /\ Cardinality(A \X B) = 1 * n
  <2>1. IsFiniteSet(A) /\ Cardinality(A) = 1 /\ IsFiniteSet(B) /\ Cardinality(B) = n
    BY <1>2, <1>3
  <2> HIDE DEF A, B
  <2>2. IsFiniteSet(A \X B) /\ Cardinality(A \X B) = Cardinality(A) * Cardinality(B)
    BY <2>1, FS_Product
  <2> QED
    BY <2>1, <2>2
<1> QED
  BY <1>1, <1>4 DEF Part, n

LEMMA PartsFinite ==
    ASSUME NEW f, NEW S, IsFiniteSet(S), \A c \in S : f[c] \in Nat
    PROVE  IsFiniteSet(Parts(f, S))
<1> DEFINE T == {Part(f, c) : c \in S}
           g == [c \in S |-> Part(f, c)]
<1>1. g \in Surjection(S, T)
  BY DEF Surjection
<1>2. IsFiniteSet(T)
  BY <1>1, FS_Surjection DEF ExistsSurjection
<1>3. \A P \in T : IsFiniteSet(P)
  BY PartCounts
<1> QED
  BY <1>2, <1>3, FS_UNION DEF Parts

LEMMA SumIsParts ==
    ASSUME NEW f, NEW S
    PROVE  Sum(f, S) = Cardinality(Parts(f, S))
BY DEF Sum, Parts, Part

LEMMA SumType ==
    ASSUME NEW f, NEW S, IsFiniteSet(S), \A c \in S : f[c] \in Nat
    PROVE  Sum(f, S) \in Nat
BY PartsFinite, SumIsParts, FS_CardinalityType

\* Nothing flows through no conns.
LEMMA SumEmpty == ASSUME NEW f PROVE Sum(f, {}) = 0
<1>1. Parts(f, {}) = {}
  BY DEF Parts
<1> QED
  BY <1>1, SumIsParts, FS_EmptySet

\* Sums over sets without a common conn add up.
LEMMA SumUnion ==
    ASSUME NEW f, NEW S, NEW T, IsFiniteSet(S), IsFiniteSet(T), S \cap T = {},
           \A c \in S \cup T : f[c] \in Nat
    PROVE  Sum(f, S \cup T) = Sum(f, S) + Sum(f, T)
<1>1. IsFiniteSet(Parts(f, S)) /\ IsFiniteSet(Parts(f, T))
  BY PartsFinite
<1>2. Parts(f, S \cup T) = Parts(f, S) \cup Parts(f, T)
  BY DEF Parts
<1>3. Parts(f, S) \cap Parts(f, T) = {}
  BY DEF Parts, Part
<1>4. Cardinality(Parts(f, S) \cup Parts(f, T))
        = Cardinality(Parts(f, S)) + Cardinality(Parts(f, T)) - 0
  BY <1>1, <1>3, FS_Union, FS_EmptySet
<1>5. Cardinality(Parts(f, S)) \in Nat /\ Cardinality(Parts(f, T)) \in Nat
  BY <1>1, FS_CardinalityType
<1>6. Cardinality(Parts(f, S) \cup Parts(f, T))
        = Cardinality(Parts(f, S)) + Cardinality(Parts(f, T))
  BY <1>4, <1>5
<1>7. Cardinality(Parts(f, S \cup T)) = Cardinality(Parts(f, S)) + Cardinality(Parts(f, T))
  BY <1>2, <1>6, Zenon
<1> QED
  BY <1>7, SumIsParts, Zenon

\* One conn more adds its bytes.
LEMMA SumAdds ==
    ASSUME NEW f, NEW S, NEW c, IsFiniteSet(S), c \notin S,
           \A d \in S \cup {c} : f[d] \in Nat
    PROVE  Sum(f, S \cup {c}) = Sum(f, S) + f[c]
<1>1. IsFiniteSet({c})
  BY FS_Singleton
<1>2. Parts(f, {c}) = Part(f, c)
  BY DEF Parts
<1>3. Sum(f, {c}) = f[c]
  BY <1>2, SumIsParts, PartCounts
<1> QED
  BY <1>1, <1>3, SumUnion

\* The sum depends on the counters of its conns only.
LEMMA SumSame ==
    ASSUME NEW f, NEW g, NEW S, \A c \in S : f[c] = g[c]
    PROVE  Sum(f, S) = Sum(g, S)
<1>1. Parts(f, S) = Parts(g, S)
  BY DEF Parts, Part
<1> QED
  BY <1>1, SumIsParts

-----------------------------------------------------------------------------
(* The accounts of the registry.                                           *)

Folded(t) ==
    {c \in Conns : TunnelOf[c] = t /\ guard[c] \in {"folded", "unlisted", "dropped"}}

Counted(t) ==
    {c \in Conns : TunnelOf[c] = t /\ guard[c] \in {"held", "folded", "unlisted", "dropped"}}

\* The conns registered so far are finitely many.  A tunnel's cumulative counters hold
\* the bytes of the conns folded into them, each once, and total_conns the number of
\* the conns counted.
LedgerInv ==
    /\ IsFiniteSet({c \in Conns : guard[c] # "none"})
    /\ \A t \in Tunnels : /\ cumulative[t] = Sum(counters, Folded(t))
                          /\ total_conns[t] = Cardinality(Counted(t))

\* A stream registers its conn below a tunnel its client was told of.
StreamsDeclared ==
    \A c \in Streams : guard[c] # "none" => TunnelOf[c] \in client_tunnels[Via[c]]

ForwardOnly(k) == \A t \in Declared(k) : Direction[t] = "Forward"

ConnsBelow(T) == {c \in Conns : TunnelOf[c] \in T /\ guard[c] # "none"}

\* The tunnels that the roll-up of deregister_client has taken in.
RolledUp(k) ==
    IF dereg[k].at = "totals" THEN client_tunnels[k] \ dereg[k].todo ELSE client_tunnels[k]

\* The roll-up of a client with forward tunnels only is the sum over the tunnels it has
\* taken in: none of their conns is open any more.
RollUpOK(k) ==
    /\ dereg[k].cur # NoTunnel => dereg[k].cur \in dereg[k].todo
    /\ ForwardOnly(k) /\ dereg[k].at \in {"totals", "unindex"} =>
          /\ dereg[k].bytes = Sum(counters, ConnsBelow(RolledUp(k)))
          /\ dereg[k].total = Cardinality(ConnsBelow(RolledUp(k)))

RollUpInv == \A k \in Clients : RollUpOK(k)

Gone == {k \in Clients : dereg[k].at = "done"}

AccountInv == LedgerInv /\ StreamsDeclared /\ RollUpInv /\ HistoryExact

\* The conns whose guard is in a set of states other than "none" are finitely many.
LEMMA OpenedFinite ==
    ASSUME LedgerInv, NEW S, S \subseteq {c \in Conns : guard[c] # "none"}
    PROVE  IsFiniteSet(S)
BY FS_Subset DEF LedgerInv

LEMMA LedgerInductive == IndInv /\ LedgerInv /\ [Next]_vars => LedgerInv'
<1> SUFFICES ASSUME IndInv, LedgerInv, [Next]_vars PROVE LedgerInv'
  OBVIOUS
<1> DEFINE opened == {c \in Conns : guard[c] # "none"}
<1>0. /\ guard \in [Conns -> GuardStates] /\ counters \in [Conns -> Nat]
      /\ cumulative \in [Tunnels -> Nat] /\ total_conns \in [Tunnels -> Nat]
      /\ IsFiniteSet(opened)
      /\ \A t \in Tunnels : /\ cumulative[t] = Sum(counters, Folded(t))
                            /\ total_conns[t] = Cardinality(Counted(t))
  BY DEF IndInv, TypeOK, RegistryTypeOK, LedgerInv
<1>1. CASE UNCHANGED <<guard, counters, cumulative, total_conns>>
  BY <1>0, <1>1 DEF LedgerInv, Folded, Counted
<1>2. ASSUME IsFiniteSet(opened'),
             \A t \in Tunnels : /\ cumulative'[t] = Sum(counters', Folded(t)')
                                /\ total_conns'[t] = Cardinality(Counted(t)')
      PROVE  LedgerInv'
  BY <1>2 DEF LedgerInv
<1>3. ASSUME NEW c \in Conns, ListConn(c) \/ IndexConn(c) \/ UnlistConn(c) \/ UnindexConn(c)
      PROVE  LedgerInv'
  <2>1. /\ \A d \in Conns \ {c} : guard'[d] = guard[d]
        /\ \/ guard[c] = "none" /\ guard'[c] = "listed"
           \/ guard[c] = "listed" /\ guard'[c] = "indexed"
           \/ guard[c] = "folded" /\ guard'[c] = "unlisted"
           \/ guard[c] = "unlisted" /\ guard'[c] = "dropped"
        /\ UNCHANGED <<counters, cumulative, total_conns>>
    BY <1>0, <1>3 DEF ListConn, IndexConn, UnlistConn, UnindexConn, Advance
  <2>2. opened' = opened \cup {c}
    BY <2>1
  <2>3. \A t : Folded(t)' = Folded(t) /\ Counted(t)' = Counted(t)
    BY <2>1 DEF Folded, Counted
  <2>4. IsFiniteSet(opened \cup {c})
    BY <1>0, FS_AddElement
  <2>5. IsFiniteSet(opened')
    BY <2>2, <2>4, Zenon
  <2> QED
    BY <1>0, <1>2, <2>1, <2>3, <2>5
<1>4. ASSUME NEW c \in Conns, CountConn(c) PROVE LedgerInv'
  <2> DEFINE u == TunnelOf[c]
  <2>1. /\ \A d \in Conns \ {c} : guard'[d] = guard[d]
        /\ guard[c] = "indexed" /\ guard'[c] = "held"
        /\ total_conns' = [total_conns EXCEPT ![u] = total_conns[u] + 1]
        /\ UNCHANGED <<counters, cumulative>>
    BY <1>0, <1>4 DEF CountConn, Advance
  <2>2. opened' = opened
    BY <2>1
  <2>3. \A t : Folded(t)' = Folded(t)
    BY <2>1 DEF Folded
  <2>4. \A t : t # u => Counted(t)' = Counted(t)
    BY <2>1 DEF Counted
  <2>5. Counted(u)' = Counted(u) \cup {c} /\ c \notin Counted(u)
    BY <2>1 DEF Counted
  <2>6. IsFiniteSet(Counted(u))
    BY OpenedFinite DEF Counted
  <2>7. Cardinality(Counted(u)') = Cardinality(Counted(u)) + 1
    BY <2>5, <2>6, FS_AddElement
  <2>8. IsFiniteSet(opened')
    BY <1>0, <2>2
  <2> QED
    BY <1>0, <1>2, <2>1, <2>3, <2>4, <2>7, <2>8
<1>5. ASSUME NEW c \in Conns, FoldConn(c) PROVE LedgerInv'
  <2> DEFINE u == TunnelOf[c]
  <2>1. /\ \A d \in Conns \ {c} : guard'[d] = guard[d]
        /\ guard[c] = "held" /\ guard'[c] = "folded"
        /\ cumulative' = [cumulative EXCEPT ![u] = cumulative[u] + counters[c]]
        /\ UNCHANGED <<counters, total_conns>>
    BY <1>0, <1>5 DEF FoldConn, Advance
  <2>2. opened' = opened
    BY <2>1
  <2>3. \A t : Counted(t)' = Counted(t)
    BY <2>1 DEF Counted
  <2>4. \A t : t # u => Folded(t)' = Folded(t)
    BY <2>1 DEF Folded
  <2>5. Folded(u)' = Folded(u) \cup {c} /\ c \notin Folded(u)
    BY <2>1 DEF Folded
  <2>6. IsFiniteSet(Folded(u)) /\ Folded(u) \subseteq Conns
    BY OpenedFinite DEF Folded
  <2>7. \A d \in Folded(u) \cup {c} : counters[d] \in Nat
    BY <1>0, <2>6
  <2>8. Sum(counters, Folded(u)') = Sum(counters, Folded(u)) + counters[c]
    BY <2>5, <2>6, <2>7, SumAdds
  <2>9. IsFiniteSet(opened')
    BY <1>0, <2>2
  <2> QED
    BY <1>0, <1>2, <2>1, <2>3, <2>4, <2>8, <2>9
<1>6. ASSUME NEW c \in Conns, Count(c) PROVE LedgerInv'
  <2>1. /\ guard[c] = "held"
        /\ \A d \in Conns \ {c} : counters'[d] = counters[d]
        /\ UNCHANGED <<guard, cumulative, total_conns>>
    BY <1>0, <1>6 DEF Count
  <2>2. opened' = opened
    BY <2>1
  <2>3. \A t : Folded(t)' = Folded(t) /\ Counted(t)' = Counted(t)
    BY <2>1 DEF Folded, Counted
  <2>4. ASSUME NEW t \in Tunnels PROVE Sum(counters', Folded(t)) = Sum(counters, Folded(t))
    <3>1. \A d \in Folded(t) : counters'[d] = counters[d]
      BY <2>1 DEF Folded
    <3> QED
      BY <3>1, SumSame
  <2>5. IsFiniteSet(opened')
    BY <1>0, <2>2
  <2> QED
    BY <1>0, <1>2, <2>1, <2>3, <2>4, <2>5
<1>7. ASSUME NEW k \in Clients, SessionStep(k) PROVE LedgerInv'
  BY <1>1, <1>7, SessionEffect
<1>8. ASSUME NEW c \in Conns, ConnStep(c) PROVE LedgerInv'
  BY <1>1, <1>3, <1>4, <1>5, <1>6, <1>8 DEF ConnStep, Agree, register_conn, Relay,
     TaskReturns, close_conn, registry
<1>9. CASE ~ (\E k \in Clients : SessionStep(k)) /\ ~ (\E c \in Conns : ConnStep(c))
  <2>1. UNCHANGED registry
    BY <1>9 DEF Next, Bind, AbortListener, AcceptStream, ReceiveOpenConn, AbortConn,
       AcceptLocal, SocksHandshake, OpenBi, Quiescent, vars
  <2> QED
    BY <1>1, <2>1 DEF registry
<1> QED
  BY <1>7, <1>8, <1>9

\* A conn whose task has not begun or is over is neither registered nor counted.
LEMMA Frozen ==
    ASSUME IndInv, [Next]_vars, NEW c \in Conns, stage[c] \in {"none", "done"}
    PROVE  guard'[c] = guard[c] /\ counters'[c] = counters[c]
<1>0. guard \in [Conns -> GuardStates] /\ counters \in [Conns -> Nat]
  BY DEF IndInv, TypeOK, RegistryTypeOK
<1>1. CASE UNCHANGED <<guard, counters>>
  BY <1>1
<1>2. ASSUME NEW k \in Clients, SessionStep(k) PROVE UNCHANGED <<guard, counters>>
  BY <1>2, SessionEffect
<1>3. ASSUME NEW d \in Conns, ConnStep(d)
      PROVE  guard'[c] = guard[c] /\ counters'[c] = counters[c]
  <2>1. CASE register_conn(d)
    <3>1. RegisterAt(d) \in {"agreed", "opened", "spawned"}
      BY DEF RegisterAt
    <3>2. d # c
      BY <2>1, <3>1 DEF register_conn
    <3> QED
      BY <1>0, <2>1, <3>2 DEF register_conn, ListConn, IndexConn, CountConn, Advance
  <2>2. CASE Relay(d)
    BY <1>0, <2>2 DEF Relay, Count
  <2>3. CASE close_conn(d)
    BY <1>0, <2>3 DEF close_conn, FoldConn, UnlistConn, UnindexConn, Advance
  <2>4. CASE Agree(d) \/ TaskReturns(d)
    BY <2>4 DEF Agree, TaskReturns, registry
  <2> QED
    BY <1>3, <2>1, <2>2, <2>3, <2>4 DEF ConnStep
<1>4. CASE ~ (\E k \in Clients : SessionStep(k)) /\ ~ (\E d \in Conns : ConnStep(d))
  <2>1. UNCHANGED registry
    BY <1>4 DEF Next, Bind, AbortListener, AcceptStream, ReceiveOpenConn, AbortConn,
       AcceptLocal, SocksHandshake, OpenBi, Quiescent, vars
  <2> QED
    BY <2>1 DEF registry
<1> QED
  BY <1>1, <1>2, <1>3, <1>4

\* After its session a client with forward tunnels only has no task left: the guards of
\* its conns are dropped.
LEMMA Settled ==
    ASSUME IndInv, NEW k \in Clients, ForwardOnly(k),
           phase[k] \in {"deregistering", "ended"}, NEW c \in Conns, ClientOf(c) = k
    PROVE  /\ c \in Streams /\ Via[c] = k
           /\ stage[c] \in {"none", "done"}
           /\ guard[c] \in {"none", "dropped"}
<1>1. c \in Streams /\ Via[c] = k
  BY SessionAssumption DEF ForwardOnly, ClientOf, Accepted, Declared
<1>2. ConnOK(c) /\ stage[c] \in Stages
  BY DEF IndInv, ConnInv, TypeOK
<1> QED
  BY <1>1, <1>2 DEF ConnOK, Serving

\* A client learns of its tunnels once, and keeps them.
LEMMA TunnelsKept ==
    ASSUME IndInv, [Next]_vars, NEW j \in Clients
    PROVE  client_tunnels'[j] = client_tunnels[j]
           \/ (HelloAccepted(j) /\ client_tunnels'[j] = Declared(j))
<1>0. client_tunnels \in [Clients -> SUBSET Tunnels]
  BY DEF IndInv, TypeOK, RegistryTypeOK
<1>1. CASE ~ \E k \in Clients : SessionStep(k)
  BY <1>1, TaskEffect
<1>2. ASSUME NEW k \in Clients \ {j}, SessionStep(k) PROVE client_tunnels'[j] = client_tunnels[j]
  BY <1>2, SessionEffect
<1>3. ASSUME SessionStep(j)
      PROVE  client_tunnels'[j] = client_tunnels[j]
             \/ (HelloAccepted(j) /\ client_tunnels'[j] = Declared(j))
  <2>1. CASE HelloAccepted(j)
    BY <1>0, <2>1 DEF HelloAccepted, register_tunnels
  <2>2. CASE Deregister(j)
    BY <2>2, DeregisterEffect DEF Deregister, OwnTeardown
  <2> QED
    BY <1>3, <2>1, <2>2 DEF SessionStep, Accept, Lose, Connected, register_client,
       HandshakeFails, HelloRejected, Established, ReplyFails, ConnectionEnds,
       ShutdownReturns, RemoveClient, Release, registry
<1> QED
  BY <1>1, <1>2, <1>3

LEMMA StreamsDeclaredInductive ==
    IndInv /\ StreamsDeclared /\ [Next]_vars => StreamsDeclared'
<1> SUFFICES ASSUME IndInv, StreamsDeclared, [Next]_vars, NEW c \in Streams, guard'[c] # "none"
             PROVE  TunnelOf[c] \in client_tunnels'[Via[c]]
  BY DEF StreamsDeclared
<1>0. /\ c \in Conns /\ Via[c] \in Clients
      /\ guard \in [Conns -> GuardStates]
      /\ TunnelOf[c] \in Tunnels => TunnelOf[c] \in Declared(Via[c])
  BY SessionAssumption, RegistryAssumption DEF IndInv, TypeOK, RegistryTypeOK, Declared
<1>1. client_tunnels'[Via[c]] \in {client_tunnels[Via[c]], Declared(Via[c])}
  BY <1>0, TunnelsKept
<1>2. CASE guard[c] # "none"
  <2>1. TunnelOf[c] \in client_tunnels[Via[c]] /\ TunnelOf[c] \in Tunnels
    BY <1>0, <1>2 DEF StreamsDeclared, IndInv, ConnInv, ConnOK
  <2> QED
    BY <1>0, <1>1, <2>1
<1>3. CASE guard[c] = "none"
  <2>1. stage[c] = "agreed" \/ TunnelOf[c] \in client_tunnels[Via[c]]
    <3>1. ASSUME NEW k \in Clients, SessionStep(k) PROVE FALSE
      BY <1>3, <3>1, SessionEffect
    <3>2. ASSUME NEW d \in Conns, ConnStep(d) PROVE stage[c] = "agreed"
      <4>1. CASE register_conn(d)
        <5>1. d = c
          BY <1>0, <1>3, <4>1 DEF register_conn, ListConn, IndexConn, CountConn, Advance
        <5> QED
          BY <4>1, <5>1 DEF register_conn, RegisterAt
      <4>2. CASE close_conn(d)
        BY <1>0, <1>3, <4>2 DEF close_conn, FoldConn, UnlistConn, UnindexConn, Advance
      <4>3. CASE Relay(d) \/ Agree(d) \/ TaskReturns(d)
        BY <1>3, <4>3 DEF Relay, Count, Agree, TaskReturns, registry
      <4> QED
        BY <3>2, <4>1, <4>2, <4>3 DEF ConnStep
    <3>3. CASE ~ (\E k \in Clients : SessionStep(k)) /\ ~ (\E d \in Conns : ConnStep(d))
      <4>1. UNCHANGED registry
        BY <3>3 DEF Next, Bind, AbortListener, AcceptStream, ReceiveOpenConn, AbortConn,
           AcceptLocal, SocksHandshake, OpenBi, Quiescent, vars
      <4> QED
        BY <1>3, <4>1 DEF registry
    <3> QED
      BY <3>1, <3>2, <3>3
  <2>2. stage[c] = "agreed" => phase[Via[c]] \in Serving /\ TunnelOf[c] \in Tunnels
    BY <1>0 DEF IndInv, ConnInv, ConnOK
  <2>3. phase[Via[c]] \in Serving => client_tunnels[Via[c]] = Declared(Via[c])
    BY <1>0 DEF IndInv, SessionInv, SessionOK
  <2>4. client_tunnels[Via[c]] \subseteq Tunnels
    BY <1>0 DEF IndInv, TypeOK, RegistryTypeOK
  <2>5. TunnelOf[c] \in client_tunnels[Via[c]] /\ TunnelOf[c] \in Tunnels
    BY <1>0, <2>1, <2>2, <2>3, <2>4
  <2> QED
    BY <1>0, <1>1, <2>5
<1> QED
  BY <1>2, <1>3

\* The conns below the tunnels of such a client, and their bytes, stay what they are.
LEMMA BelowKept ==
    ASSUME IndInv, [Next]_vars, NEW j \in Clients, ForwardOnly(j),
           phase[j] \in {"deregistering", "ended"}, NEW T, T \subseteq Declared(j)
    PROVE  /\ {c \in Conns : TunnelOf[c] \in T /\ guard'[c] # "none"} = ConnsBelow(T)
           /\ Sum(counters', ConnsBelow(T)) = Sum(counters, ConnsBelow(T))
<1>1. \A c \in Conns : TunnelOf[c] \in T => guard'[c] = guard[c] /\ counters'[c] = counters[c]
  <2> SUFFICES ASSUME NEW c \in Conns, TunnelOf[c] \in T
               PROVE  guard'[c] = guard[c] /\ counters'[c] = counters[c]
    OBVIOUS
  <2>1. ClientOf(c) = j
    BY ClientOfTunnel DEF Declared
  <2>2. stage[c] \in {"none", "done"}
    BY <2>1, Settled
  <2> QED
    BY <2>2, Frozen
<1>2. {c \in Conns : TunnelOf[c] \in T /\ guard'[c] # "none"} = ConnsBelow(T)
  BY <1>1 DEF ConnsBelow
<1>3. \A c \in ConnsBelow(T) : counters'[c] = counters[c]
  BY <1>1 DEF ConnsBelow
<1> QED
  <2> DEFINE S == ConnsBelow(T)
  <2> HIDE DEF S
  <2>1. \A c \in S : counters'[c] = counters[c]
    BY <1>3 DEF S
  <2>2. Sum(counters', S) = Sum(counters, S)
    BY <2>1, SumSame
  <2> QED
    BY <1>2, <2>2 DEF S

\* Once its client is being torn down, what a forward tunnel has folded and counted are
\* all the conns below it, and none is listed.
LEMMA AllFolded ==
    ASSUME IndInv, NEW j \in Clients, ForwardOnly(j),
           phase[j] \in {"deregistering", "ended"}, NEW t \in Declared(j)
    PROVE  /\ Folded(t) = ConnsBelow({t}) /\ Counted(t) = ConnsBelow({t})
           /\ tunnel_conns[t] = {}
<1>1. \A c \in Conns : TunnelOf[c] = t => guard[c] \in {"none", "dropped"}
  BY Settled, ClientOfTunnel DEF Declared
<1>2. t \in Tunnels /\ tunnel_conns[t] \subseteq Conns
  BY DEF Declared, IndInv, TypeOK, RegistryTypeOK
<1>3. tunnel_conns[t] = {}
  BY <1>1, <1>2 DEF IndInv, IndexInv, IndexOK
<1> QED
  BY <1>1, <1>3 DEF Folded, Counted, ConnsBelow

\* One tunnel more in the roll-up.
LEMMA BelowAdds ==
    ASSUME IndInv, LedgerInv, NEW T, NEW t, t \notin T
    PROVE  /\ Sum(counters, ConnsBelow(T \cup {t}))
                 = Sum(counters, ConnsBelow(T)) + Sum(counters, ConnsBelow({t}))
           /\ Cardinality(ConnsBelow(T \cup {t}))
                 = Cardinality(ConnsBelow(T)) + Cardinality(ConnsBelow({t}))
<1> DEFINE A == ConnsBelow(T)
           B == ConnsBelow({t})
<1>1. ConnsBelow(T \cup {t}) = A \cup B /\ A \cap B = {}
  BY DEF ConnsBelow
<1>2. IsFiniteSet(A) /\ IsFiniteSet(B)
  BY OpenedFinite DEF ConnsBelow
<1>3. \A c \in A \cup B : counters[c] \in Nat
  BY DEF ConnsBelow, IndInv, TypeOK, RegistryTypeOK
<1> HIDE DEF A, B
<1>4. Sum(counters, A \cup B) = Sum(counters, A) + Sum(counters, B)
  BY <1>1, <1>2, <1>3, SumUnion
<1>5. Cardinality(A \cup B) = Cardinality(A) + Cardinality(B)
  <2>1. Cardinality(A \cup B) = Cardinality(A) + Cardinality(B) - Cardinality(A \cap B)
    BY <1>2, FS_Union
  <2>2. Cardinality(A \cap B) = 0 /\ Cardinality(A) \in Nat /\ Cardinality(B) \in Nat
    BY <1>1, <1>2, FS_EmptySet, FS_CardinalityType
  <2> QED
    BY <2>1, <2>2
<1> QED
  BY <1>1, <1>4, <1>5 DEF A, B

\* A step that leaves the locals of j's teardown and its tunnels alone keeps its roll-up.
LEMMA RollUpFrame ==
    ASSUME IndInv, [Next]_vars, NEW j \in Clients, RollUpOK(j),
           client_tunnels'[j] = client_tunnels[j],
           dereg'[j].at \in {"totals", "unindex"} => dereg[j].at \in {"totals", "unindex"},
           dereg'[j].cur # NoTunnel => dereg'[j].cur \in dereg'[j].todo,
           ForwardOnly(j) /\ dereg'[j].at \in {"totals", "unindex"} =>
              /\ RolledUp(j)' = RolledUp(j)
              /\ dereg'[j].bytes = dereg[j].bytes /\ dereg'[j].total = dereg[j].total
    PROVE  RollUpOK(j)'
<1> SUFFICES ASSUME ForwardOnly(j), dereg'[j].at \in {"totals", "unindex"}
             PROVE  /\ dereg'[j].bytes = Sum(counters', ConnsBelow(RolledUp(j))')
                    /\ dereg'[j].total = Cardinality(ConnsBelow(RolledUp(j))')
  BY DEF RollUpOK, ForwardOnly, Declared
<1> DEFINE T == RolledUp(j)
<1>1. phase[j] \in {"deregistering", "ended"} /\ T \subseteq Declared(j)
  BY DEF IndInv, SessionInv, SessionOK, RolledUp
<1>2. /\ dereg[j].bytes = Sum(counters, ConnsBelow(T))
      /\ dereg[j].total = Cardinality(ConnsBelow(T))
  BY DEF RollUpOK
<1>3. RolledUp(j)' = T
  OBVIOUS
<1>4. ConnsBelow(T)' = {c \in Conns : TunnelOf[c] \in T /\ guard'[c] # "none"}
  BY <1>3 DEF ConnsBelow
<1> HIDE DEF T
<1>5. /\ {c \in Conns : TunnelOf[c] \in T /\ guard'[c] # "none"} = ConnsBelow(T)
      /\ Sum(counters', ConnsBelow(T)) = Sum(counters, ConnsBelow(T))
  BY <1>1, BelowKept
<1>6. ConnsBelow(RolledUp(j))' = ConnsBelow(T)
  BY <1>4, <1>5 DEF T
<1> QED
  BY <1>2, <1>5, <1>6

\* The steps of deregister_client keep the roll-up.
LEMMA RollUpTeardown ==
    ASSUME IndInv, LedgerInv, [Next]_vars, NEW j \in Clients, RollUpOK(j), Deregister(j)
    PROVE  RollUpOK(j)'
<1> DEFINE r == dereg[j]
<1>0. /\ dereg \in [Clients -> DeregLocals] /\ r \in DeregLocals
      /\ r.cur # NoTunnel => r.cur \in r.todo
      /\ r.todo \subseteq client_tunnels[j]
      /\ client_tunnels[j] \subseteq Declared(j)
      /\ NoTunnel \notin Tunnels
      /\ phase[j] = "deregistering"
      /\ Declared(j) \subseteq Tunnels
  BY RegistryAssumption DEF IndInv, TypeOK, RegistryTypeOK, RollUpOK, SessionInv, SessionOK,
     Deregister, Declared
<1>1. UNCHANGED <<client_tunnels, counters, guard, cumulative, total_conns>>
  BY DEF Deregister, deregister_client_step, TotalsTunnel, UnindexTunnel, TotalsConn,
     UnindexTunnelConn, TotalsLoad, TotalsDone, UnindexTunnelDone, PushHistory
<1>2. ASSUME NEW t \in Tunnels, TotalsTunnel(j, t) \/ UnindexTunnel(j, t) PROVE RollUpOK(j)'
  <2>1. t \in r.todo /\ dereg'[j] = [r EXCEPT !.cur = t, !.due = tunnel_conns[t], !.seen = {}]
    BY <1>0, <1>2 DEF TotalsTunnel, UnindexTunnel, BeginIteration
  <2>2. /\ dereg'[j].at = r.at /\ dereg'[j].todo = r.todo /\ dereg'[j].cur = t
        /\ dereg'[j].bytes = r.bytes /\ dereg'[j].total = r.total
    BY <1>0, <2>1 DEF DeregLocals
  <2>3. RolledUp(j)' = RolledUp(j)
    BY <1>1, <2>2 DEF RolledUp
  <2> QED
    BY <1>1, <2>1, <2>2, <2>3, RollUpFrame
<1>3. ASSUME NEW c \in Conns, TotalsConn(j, c) PROVE RollUpOK(j)'
  <2>1. dereg'[j] = [r EXCEPT !.seen = r.seen \cup {c}, !.bytes = r.bytes + counters[c]]
    BY <1>0, <1>3 DEF TotalsConn
  <2>2. dereg'[j].at = r.at /\ dereg'[j].todo = r.todo /\ dereg'[j].cur = r.cur
    BY <1>0, <2>1 DEF DeregLocals
  <2>3. r.cur \in Declared(j) /\ tunnel_conns[r.cur] # {} /\ r.at = "totals"
    BY <1>0, <1>3 DEF TotalsConn, Iterating, Unvisited
  <2>4. ~ ForwardOnly(j)
    BY <1>0, <2>3, AllFolded
  <2> QED
    BY <1>0, <1>1, <2>2, <2>3, <2>4, RollUpFrame
<1>4. ASSUME NEW c \in Conns, UnindexTunnelConn(j, c) PROVE RollUpOK(j)'
  <2>1. dereg'[j] = [r EXCEPT !.seen = r.seen \cup {c}]
    BY <1>0, <1>4 DEF UnindexTunnelConn
  <2>2. /\ dereg'[j].at = r.at /\ dereg'[j].todo = r.todo /\ dereg'[j].cur = r.cur
        /\ dereg'[j].bytes = r.bytes /\ dereg'[j].total = r.total
    BY <1>0, <2>1 DEF DeregLocals
  <2>3. RolledUp(j)' = RolledUp(j)
    BY <1>1, <2>2 DEF RolledUp
  <2> QED
    BY <1>0, <1>1, <2>2, <2>3, RollUpFrame
<1>5. CASE TotalsLoad(j)
  <2> DEFINE t == r.cur
             T == RolledUp(j)
  <2>1. dereg'[j] = [r EXCEPT !.bytes = r.bytes + cumulative[t],
                              !.total = r.total + total_conns[t],
                              !.todo = r.todo \ {t}, !.cur = NoTunnel]
    BY <1>0, <1>5 DEF TotalsLoad
  <2>2. /\ dereg'[j].at = r.at /\ dereg'[j].todo = r.todo \ {t} /\ dereg'[j].cur = NoTunnel
        /\ dereg'[j].bytes = r.bytes + cumulative[t]
        /\ dereg'[j].total = r.total + total_conns[t]
    BY <1>0, <2>1 DEF DeregLocals
  <2>3. r.at = "totals" /\ t \in r.todo /\ t \in Declared(j) /\ t \in Tunnels
    BY <1>0, <1>5 DEF TotalsLoad, Iterating
  <2>4. t \notin T /\ RolledUp(j)' = T \cup {t}
    BY <1>0, <1>1, <2>2, <2>3 DEF RolledUp
  <2>5. ConnsBelow(RolledUp(j))' = ConnsBelow(T \cup {t})
    BY <1>1, <2>4 DEF ConnsBelow
  <2>6. ASSUME ForwardOnly(j)
        PROVE  /\ dereg'[j].bytes = Sum(counters', ConnsBelow(RolledUp(j))')
               /\ dereg'[j].total = Cardinality(ConnsBelow(RolledUp(j))')
    <3>1. /\ r.bytes = Sum(counters, ConnsBelow(T))
          /\ r.total = Cardinality(ConnsBelow(T))
      BY <2>3, <2>6 DEF RollUpOK
    <3>2. Folded(t) = ConnsBelow({t}) /\ Counted(t) = ConnsBelow({t})
      BY <1>0, <2>3, <2>6, AllFolded
    <3>3. /\ cumulative[t] = Sum(counters, ConnsBelow({t}))
          /\ total_conns[t] = Cardinality(ConnsBelow({t}))
      BY <2>3, <3>2 DEF LedgerInv
    <3> HIDE DEF r, t, T
    <3>4. /\ Sum(counters, ConnsBelow(T \cup {t}))
                 = Sum(counters, ConnsBelow(T)) + Sum(counters, ConnsBelow({t}))
          /\ Cardinality(ConnsBelow(T \cup {t}))
                 = Cardinality(ConnsBelow(T)) + Cardinality(ConnsBelow({t}))
      BY <2>4, BelowAdds
    <3> QED
      BY <1>1, <2>2, <2>5, <3>1, <3>3, <3>4
  <2> QED
    BY <2>2, <2>6 DEF RollUpOK, ForwardOnly, Declared
<1>6. CASE TotalsDone(j)
  <2>1. /\ r.at = "totals" /\ r.todo = {} /\ r.cur = NoTunnel
        /\ dereg'[j] = [r EXCEPT !.at = "unindex", !.todo = client_tunnels[j]]
    BY <1>0, <1>6 DEF TotalsDone, BetweenTunnels
  <2>2. /\ dereg'[j].at = "unindex" /\ dereg'[j].cur = NoTunnel
        /\ dereg'[j].bytes = r.bytes /\ dereg'[j].total = r.total
    BY <1>0, <2>1 DEF DeregLocals
  <2>3. RolledUp(j)' = RolledUp(j)
    BY <1>1, <2>1, <2>2 DEF RolledUp
  <2> QED
    BY <1>1, <2>1, <2>2, <2>3, RollUpFrame
<1>7. CASE UnindexTunnelDone(j)
  <2>1. r.at = "unindex" /\ dereg'[j] = [r EXCEPT !.todo = r.todo \ {r.cur}, !.cur = NoTunnel]
    BY <1>0, <1>7 DEF UnindexTunnelDone, Iterating
  <2>2. /\ dereg'[j].at = "unindex" /\ dereg'[j].cur = NoTunnel
        /\ dereg'[j].bytes = r.bytes /\ dereg'[j].total = r.total
    BY <1>0, <2>1 DEF DeregLocals
  <2>3. RolledUp(j)' = RolledUp(j)
    BY <1>1, <2>1, <2>2 DEF RolledUp
  <2> QED
    BY <1>1, <2>1, <2>2, <2>3, RollUpFrame
<1>8. CASE PushHistory(j)
  <2>1. dereg'[j].at = "done" /\ dereg'[j].cur = NoTunnel
    BY <1>0, <1>8 DEF PushHistory, Idle
  <2> QED
    BY <2>1 DEF RollUpOK
<1> QED
  BY <1>2, <1>3, <1>4, <1>5, <1>6, <1>7, <1>8 DEF Deregister, deregister_client_step

LEMMA RollUpInductive == IndInv /\ LedgerInv /\ RollUpInv /\ [Next]_vars => RollUpInv'
<1> SUFFICES ASSUME IndInv, LedgerInv, RollUpInv, [Next]_vars, NEW j \in Clients
             PROVE  RollUpOK(j)'
  BY DEF RollUpInv
<1>0. /\ dereg \in [Clients -> DeregLocals]
      /\ RollUpOK(j)
      /\ dereg[j].cur # NoTunnel => dereg[j].cur \in dereg[j].todo
      /\ dereg[j].at # "no" => phase[j] \in {"deregistering", "ended"}
  BY DEF IndInv, TypeOK, RegistryTypeOK, RollUpInv, RollUpOK, SessionInv, SessionOK
<1>1. CASE client_tunnels'[j] = client_tunnels[j] /\ dereg'[j] = dereg[j]
  <2>1. RolledUp(j)' = RolledUp(j)
    BY <1>1 DEF RolledUp
  <2> QED
    BY <1>0, <1>1, <2>1, RollUpFrame
<1>2. CASE HelloAccepted(j)
  <2>1. dereg'[j] = dereg[j] /\ dereg[j].at \notin {"totals", "unindex"}
    BY <1>0, <1>2 DEF HelloAccepted, register_tunnels
  <2> QED
    BY <1>0, <2>1 DEF RollUpOK
<1>3. CASE RemoveClient(j)
  <2>1. /\ dereg'[j] = [Idle EXCEPT !.at = "totals", !.todo = client_tunnels[j]]
        /\ client_tunnels' = client_tunnels
    BY <1>0, <1>3 DEF RemoveClient
  <2>2. /\ dereg'[j].at = "totals" /\ dereg'[j].todo = client_tunnels[j]
        /\ dereg'[j].cur = NoTunnel /\ dereg'[j].bytes = 0 /\ dereg'[j].total = 0
    BY <2>1 DEF Idle
  <2>3. RolledUp(j)' = {}
    BY <2>1, <2>2 DEF RolledUp
  <2>4. ConnsBelow(RolledUp(j))' = {}
    BY <2>3 DEF ConnsBelow
  <2>5. Sum(counters', {}) = 0 /\ Cardinality({}) = 0
    BY SumEmpty, FS_EmptySet
  <2> QED
    BY <2>2, <2>4, <2>5 DEF RollUpOK
<1>4. CASE Deregister(j)
  BY <1>0, <1>4, RollUpTeardown
<1>5. CASE ~ \E k \in Clients : SessionStep(k)
  BY <1>1, <1>5, TaskEffect
<1>6. ASSUME NEW k \in Clients \ {j}, SessionStep(k) PROVE RollUpOK(j)'
  BY <1>1, <1>6, SessionEffect
<1>7. CASE SessionStep(j)
  <2>1. CASE HelloRejected(j) \/ ReplyFails(j) \/ ShutdownReturns(j)
    BY <1>3, <2>1 DEF HelloRejected, ReplyFails, ShutdownReturns
  <2>2. CASE ConnectionEnds(j) \/ Release(j) \/ Established(j) \/ Accept(j) \/ Lose(j)
    BY <1>1, <2>2 DEF ConnectionEnds, Release, Established, Accept, Lose, registry
  <2>3. CASE Connected(j) \/ HandshakeFails(j)
    <3>1. UNCHANGED <<client_tunnels, dereg>>
      BY <2>3 DEF Connected, HandshakeFails, register_client, registry
    <3> QED
      BY <1>1, <3>1
  <2> QED
    BY <1>2, <1>4, <1>7, <2>1, <2>2, <2>3 DEF SessionStep
<1> QED
  BY <1>5, <1>6, <1>7

\* The conns a torn-down client ever opened are those below its tunnels.
LEMMA OpenedBelow ==
    ASSUME IndInv, StreamsDeclared, NEW k \in Clients, ForwardOnly(k),
           phase[k] \in {"deregistering", "ended"}
    PROVE  {c \in ConnsOf(k) : guard[c] # "none"} = ConnsBelow(client_tunnels[k])
<1>1. ASSUME NEW c \in Conns, ClientOf(c) = k, guard[c] # "none"
      PROVE  TunnelOf[c] \in client_tunnels[k]
  <2>1. c \in Streams /\ Via[c] = k
    BY <1>1, Settled
  <2> QED
    BY <1>1, <2>1 DEF StreamsDeclared
<1>2. client_tunnels[k] \subseteq Declared(k)
  BY DEF IndInv, SessionInv, SessionOK
<1>3. ASSUME NEW c \in Conns, TunnelOf[c] \in client_tunnels[k] PROVE ClientOf(c) = k
  BY <1>2, <1>3, ClientOfTunnel DEF Declared
<1> QED
  BY <1>1, <1>3 DEF ConnsOf, ConnsBelow

\* What should be recorded of such a client no longer changes.
LEMMA EntryKept ==
    ASSUME IndInv, [Next]_vars, NEW k \in Clients, ForwardOnly(k),
           phase[k] \in {"deregistering", "ended"}
    PROVE  ExactEntry(k)' = ExactEntry(k)
<1> DEFINE S == {c \in ConnsOf(k) : guard[c] # "none"}
<1>1. \A c \in ConnsOf(k) : guard'[c] = guard[c] /\ counters'[c] = counters[c]
  BY Settled, Frozen DEF ConnsOf
<1>2. {c \in ConnsOf(k) : guard'[c] # "none"} = S
  BY <1>1
<1>3. \A c \in S : counters'[c] = counters[c]
  BY <1>1
<1>4. S' = {c \in ConnsOf(k) : guard'[c] # "none"}
  BY DEF ConnsOf, ClientOf
<1>5. ExactEntry(k) = [client_id |-> k, bytes |-> Sum(counters, S), total_conns |-> Cardinality(S)]
  BY DEF ExactEntry
<1>6. ExactEntry(k)' = [client_id |-> k, bytes |-> Sum(counters', S'), total_conns |-> Cardinality(S')]
  BY DEF ExactEntry
<1>7. S' = S
  BY <1>2, <1>4
<1> HIDE DEF S
<1>8. Sum(counters', S) = Sum(counters, S)
  BY <1>3, SumSame
<1> QED
  BY <1>5, <1>6, <1>7, <1>8

\* Only the last step of deregister_client writes the history.
LEMMA HistoryKept ==
    ASSUME IndInv, [Next]_vars, ~ \E k \in Clients : Deregister(k) /\ PushHistory(k)
    PROVE  UNCHANGED <<history, departed, Gone>>
<1>0. dereg \in [Clients -> DeregLocals]
  BY DEF IndInv, TypeOK, RegistryTypeOK
<1>1. CASE ~ \E k \in Clients : SessionStep(k)
  BY <1>1, TaskEffect DEF Gone
<1>2. ASSUME NEW k \in Clients, SessionStep(k),
             UNCHANGED <<history, departed>>, dereg'[k].at = "done" <=> dereg[k].at = "done"
      PROVE  UNCHANGED <<history, departed, Gone>>
  <2>1. \A j \in Clients \ {k} : dereg'[j] = dereg[j]
    BY <1>2, SessionEffect
  <2>2. \A j \in Clients : dereg'[j].at = "done" <=> dereg[j].at = "done"
    BY <1>2, <2>1
  <2> QED
    BY <1>2, <2>2 DEF Gone
<1>3. ASSUME NEW k \in Clients, SessionStep(k)
      PROVE  UNCHANGED <<history, departed>> /\ (dereg'[k].at = "done" <=> dereg[k].at = "done")
  <2> DEFINE r == dereg[k]
  <2>0. r \in DeregLocals
    BY <1>0
  <2>1. CASE HelloRejected(k) \/ ReplyFails(k) \/ ShutdownReturns(k)
    <3>1. RemoveClient(k) /\ phase[k] \in {"hello", "replying", "aborting"}
      BY <2>1 DEF HelloRejected, ReplyFails, ShutdownReturns
    <3>2. r.at = "no"
      BY <3>1 DEF IndInv, SessionInv, SessionOK
    <3>3. dereg'[k].at = "totals" /\ UNCHANGED <<history, departed>>
      BY <1>0, <3>1 DEF RemoveClient, Idle
    <3> QED
      BY <3>2, <3>3
  <2>2. CASE HelloAccepted(k)
    BY <2>2 DEF HelloAccepted, register_tunnels
  <2>3. CASE ConnectionEnds(k) \/ Release(k) \/ Established(k) \/ Accept(k) \/ Lose(k)
    BY <2>3 DEF ConnectionEnds, Release, Established, Accept, Lose, registry
  <2>4. CASE Connected(k) \/ HandshakeFails(k)
    BY <2>4 DEF Connected, HandshakeFails, register_client, registry
  <2>5. CASE Deregister(k)
    <3>1. ASSUME NEW t \in Tunnels, TotalsTunnel(k, t) \/ UnindexTunnel(k, t)
          PROVE  UNCHANGED <<history, departed>> /\ dereg'[k].at = r.at
      <4>1. dereg'[k] = [r EXCEPT !.cur = t, !.due = tunnel_conns[t], !.seen = {}]
        BY <1>0, <3>1 DEF TotalsTunnel, UnindexTunnel, BeginIteration
      <4>2. dereg'[k].at = r.at
        BY <2>0, <4>1 DEF DeregLocals
      <4> QED
        BY <3>1, <4>2 DEF TotalsTunnel, UnindexTunnel
    <3>2. ASSUME NEW c \in Conns, TotalsConn(k, c) \/ UnindexTunnelConn(k, c)
          PROVE  UNCHANGED <<history, departed>> /\ dereg'[k].at = r.at
      <4>1. \/ dereg'[k] = [r EXCEPT !.seen = r.seen \cup {c}, !.bytes = r.bytes + counters[c]]
            \/ dereg'[k] = [r EXCEPT !.seen = r.seen \cup {c}]
        BY <1>0, <3>2 DEF TotalsConn, UnindexTunnelConn
      <4>2. dereg'[k].at = r.at
        BY <2>0, <4>1 DEF DeregLocals
      <4> QED
        BY <3>2, <4>2 DEF TotalsConn, UnindexTunnelConn
    <3>3. CASE TotalsLoad(k) \/ UnindexTunnelDone(k)
      <4>1. CASE TotalsLoad(k)
        <5>1. dereg'[k] = [r EXCEPT !.bytes = r.bytes + cumulative[r.cur],
                                    !.total = r.total + total_conns[r.cur],
                                    !.todo = r.todo \ {r.cur}, !.cur = NoTunnel]
          BY <1>0, <4>1 DEF TotalsLoad
        <5>2. dereg'[k].at = r.at
          BY <2>0, <5>1 DEF DeregLocals
        <5> QED
          BY <4>1, <5>2 DEF TotalsLoad
      <4>2. CASE UnindexTunnelDone(k)
        <5>1. dereg'[k] = [r EXCEPT !.todo = r.todo \ {r.cur}, !.cur = NoTunnel]
          BY <1>0, <4>2 DEF UnindexTunnelDone
        <5>2. dereg'[k].at = r.at
          BY <2>0, <5>1 DEF DeregLocals
        <5> QED
          BY <4>2, <5>2 DEF UnindexTunnelDone
      <4> QED
        BY <3>3, <4>1, <4>2
    <3>4. CASE TotalsDone(k)
      BY <1>0, <2>0, <3>4 DEF TotalsDone, BetweenTunnels, DeregLocals
    <3> QED
      BY <2>5, <3>1, <3>2, <3>3, <3>4 DEF Deregister, deregister_client_step
  <2> QED
    BY <1>3, <2>1, <2>2, <2>3, <2>4, <2>5 DEF SessionStep
<1> QED
  BY <1>1, <1>2, <1>3

\* No client is twice in d.
OnceEach(d) == \A i, j \in DOMAIN d : d[i] = d[j] => i = j

Members(d) == {d[i] : i \in DOMAIN d}

\* The entries of s are those of the last clients of d, as many as cap allows.
Aligned(s, d) == \A i \in DOMAIN s : s[i].client_id = d[Len(d) - Len(s) + i]

EndOf(s, d, cap) == Len(s) = Least(cap, Len(d)) /\ Aligned(s, d)

\* The parts of HistoryExact.
LEMMA HistoryParts ==
    ASSUME IndInv
    PROVE  HistoryExact <=>
           /\ EndOf(history, departed, HISTORY_CAPACITY)
           /\ OnceEach(departed)
           /\ Members(departed) = Gone
           /\ \A i \in DOMAIN history :
                 ForwardOnly(history[i].client_id) => history[i] = ExactEntry(history[i].client_id)
<1>1. \A i \in DOMAIN departed : departed[i] \in Clients
  BY DEF IndInv, TypeOK, RegistryTypeOK
<1>2. Members(departed) = Gone
        <=> \A k \in Clients : dereg[k].at = "done" <=> \E i \in DOMAIN departed : departed[i] = k
  BY <1>1 DEF Members, Gone
<1> QED
  BY <1>2 DEF HistoryExact, EndOf, Aligned, OnceEach, ForwardOnly

\* A client that is gone is past its session.
LEMMA GonePast ==
    ASSUME IndInv, NEW k \in Gone
    PROVE  k \in Clients /\ phase[k] \in {"deregistering", "ended"}
BY DEF Gone, IndInv, SessionInv, SessionOK

\* The entry pushed for a client with forward tunnels only is exact.
LEMMA PushedExact ==
    ASSUME IndInv, StreamsDeclared, RollUpInv, NEW k \in Clients, Deregister(k), PushHistory(k),
           ForwardOnly(k)
    PROVE  ExactEntry(k)
              = [client_id |-> k, bytes |-> dereg[k].bytes, total_conns |-> dereg[k].total]
<1> DEFINE S == ConnsBelow(client_tunnels[k])
<1>1. phase[k] = "deregistering" /\ dereg[k].at = "unindex"
  BY DEF Deregister, PushHistory, BetweenTunnels
<1>2. {c \in ConnsOf(k) : guard[c] # "none"} = S
  BY <1>1, OpenedBelow
<1>3. dereg[k].bytes = Sum(counters, S) /\ dereg[k].total = Cardinality(S)
  BY <1>1 DEF RollUpInv, RollUpOK, RolledUp
<1> QED
  BY <1>2, <1>3 DEF ExactEntry

Ring(s, e, cap) == Append(IF Len(s) = cap THEN Tail(s) ELSE s, e)

\* p is s with e pushed at its end, after shift of its oldest entries were dropped.
Pushed(s, p, e, shift) ==
    /\ Len(p) = Len(s) + 1 - shift
    /\ p[Len(p)] = e
    /\ DOMAIN p = 1 .. Len(p) /\ DOMAIN s = 1 .. Len(s)
    /\ \A i \in 1 .. Len(p) - 1 : i + shift \in 1 .. Len(s) /\ p[i] = s[i + shift]

\* Pushing beyond the capacity of the ring drops the oldest entry.
LEMMA RingPush ==
    ASSUME NEW E, NEW s \in Seq(E), NEW e \in E, NEW cap \in Nat \ {0}, NEW n \in Nat,
           Len(s) = Least(cap, n)
    PROVE  /\ Len(Ring(s, e, cap)) = Least(cap, n + 1)
           /\ \E shift \in {0, 1} : Pushed(s, Ring(s, e, cap), e, shift)
<1> DEFINE p == Ring(s, e, cap)
<1>0. p = Append(IF Len(s) = cap THEN Tail(s) ELSE s, e)
  BY DEF Ring
<1> HIDE DEF p
<1>1. CASE Len(s) = cap
  <2>1. /\ Tail(s) \in Seq(E) /\ Len(Tail(s)) = cap - 1
        /\ \A i \in 1 .. cap - 1 : Tail(s)[i] = s[i + 1]
    BY <1>1
  <2>2. Len(p) = cap /\ p[cap] = e /\ \A i \in 1 .. cap - 1 : p[i] = s[i + 1]
    BY <1>0, <1>1, <2>1
  <2>3. Least(cap, n + 1) = cap
    BY <1>1 DEF Least
  <2> QED
    <3>1. Pushed(s, p, e, 1)
      BY <1>1, <2>2 DEF Pushed
    <3> QED
      BY <2>2, <2>3, <3>1 DEF p
<1>2. CASE Len(s) # cap
  <2>1. Len(s) = n /\ n < cap /\ Least(cap, n + 1) = n + 1
    BY <1>2 DEF Least
  <2>2. Len(p) = n + 1 /\ p[n + 1] = e /\ \A i \in 1 .. n : p[i] = s[i]
    BY <1>0, <1>2, <2>1
  <2> QED
    <3>1. Pushed(s, p, e, 0)
      BY <1>2, <2>1, <2>2 DEF Pushed
    <3> QED
      BY <2>1, <2>2, <3>1 DEF p
<1> QED
  BY <1>1, <1>2

\* q is d with k at its end.
Extended(d, q, k) ==
    /\ Len(d) \in Nat /\ Len(q) = Len(d) + 1 /\ q[Len(q)] = k
    /\ DOMAIN d = 1 .. Len(d) /\ DOMAIN q = 1 .. Len(q)
    /\ \A i \in 1 .. Len(d) : q[i] = d[i]

\* The entries of the ring after a push: the new one, and entries that were there before.
PushedEntry(s, p, e, i) == p[i] = e \/ \E m \in DOMAIN s : p[i] = s[m]

\* Once the client of the new entry is added, the ring again holds the last clients.
LEMMA PushedEnd ==
    ASSUME NEW s, NEW p, NEW e, NEW d, NEW q, NEW shift \in {0, 1}, Len(s) \in Nat,
           Pushed(s, p, e, shift), Extended(d, q, e.client_id), Len(s) <= Len(d), Aligned(s, d)
    PROVE  Aligned(p, q) /\ \A i \in DOMAIN p : PushedEntry(s, p, e, i)
<1> DEFINE n == Len(d)
           l == Len(s)
           m == Len(p)
           Id(x) == x.client_id
<1>1. /\ m = l + 1 - shift /\ p[m] = e /\ DOMAIN p = 1 .. m /\ DOMAIN s = 1 .. l
      /\ \A i \in 1 .. m - 1 : i + shift \in 1 .. l /\ p[i] = s[i + shift]
  BY Zenon DEF Pushed
<1>2. n \in Nat /\ Len(q) = n + 1 /\ q[Len(q)] = Id(e) /\ \A i \in 1 .. n : q[i] = d[i]
  BY Zenon DEF Extended
<1>3. \A i \in DOMAIN s : Id(s[i]) = d[n - l + i]
  BY Zenon DEF Aligned
<1>4. l \in Nat /\ l <= n
  OBVIOUS
<1>5. SUFFICES ASSUME NEW i \in DOMAIN p
               PROVE  Id(p[i]) = q[Len(q) - m + i] /\ PushedEntry(s, p, e, i)
  BY Zenon DEF Aligned
<1> HIDE DEF n, l, m, Id
<1>6. i \in 1 .. m
  BY <1>1, <1>5
<1>7. CASE i = m
  <2>1. Len(q) - m + i = Len(q)
    BY <1>1, <1>2, <1>4, <1>7
  <2> QED
    BY <1>1, <1>2, <1>7, <2>1, Zenon DEF PushedEntry
<1>8. CASE i # m
  <2>1. i \in 1 .. m - 1
    BY <1>1, <1>4, <1>6, <1>8
  <2>2. i + shift \in DOMAIN s /\ p[i] = s[i + shift]
    BY <1>1, <2>1, Zenon
  <2>3. i + shift \in 1 .. l
    BY <1>1, <2>2
  <2>4. Len(q) - m + i = n - l + (i + shift) /\ n - l + (i + shift) \in 1 .. n
    <3>1. m = l + 1 - shift /\ Len(q) = n + 1 /\ n \in Nat
      BY <1>1, <1>2, Zenon
    <3>2. /\ (n + 1) - m + i = n - l + (i + shift)
          /\ n - l + (i + shift) \in 1 .. n
      <4>1. n \in Nat /\ l \in Nat /\ l <= n /\ shift \in {0, 1}
        BY <1>4, <3>1
      <4> QED
        BY <2>1, <2>3, <3>1, <4>1
    <3> QED
      BY <3>1, <3>2, Zenon
  <2>5. Id(p[i]) = d[n - l + (i + shift)]
    BY <1>3, <2>2, Zenon
  <2>6. q[Len(q) - m + i] = d[n - l + (i + shift)]
    BY <1>2, <2>4, Zenon
  <2> QED
    BY <2>2, <2>5, <2>6, Zenon DEF PushedEntry
<1> QED
  BY <1>7, <1>8

LEMMA ExtendedOnce ==
    ASSUME NEW d, NEW q, NEW k, Extended(d, q, k), OnceEach(d), k \notin Members(d)
    PROVE  OnceEach(q) /\ Members(q) = Members(d) \cup {k}
<1> DEFINE n == Len(d)
<1>1. /\ n \in Nat /\ DOMAIN d = 1 .. n /\ DOMAIN q = 1 .. n + 1 /\ q[n + 1] = k
      /\ \A i \in 1 .. n : q[i] = d[i]
  BY DEF Extended
<1> HIDE DEF n
<1>2. \A i : i \in 1 .. n + 1 <=> i = n + 1 \/ i \in 1 .. n
  BY <1>1
<1>3. \A i \in 1 .. n : d[i] # k
  BY <1>1 DEF Members
<1>4. OnceEach(q)
  BY <1>1, <1>2, <1>3 DEF OnceEach
<1>5. Members(q) = Members(d) \cup {k}
  BY <1>1, <1>2 DEF Members
<1> QED
  BY <1>4, <1>5

LEMMA HistoryWhole ==
    ASSUME IndInv', EndOf(history', departed', HISTORY_CAPACITY), OnceEach(departed'),
           Members(departed') = Gone',
           \A i \in DOMAIN history' : \A x \in Gone' :
              history'[i].client_id = x /\ ForwardOnly(x) => history'[i] = ExactEntry(x)',
           \A i \in DOMAIN history' : history'[i].client_id \in Gone'
    PROVE  HistoryExact'
<1>1. \A i \in DOMAIN departed' : departed'[i] \in Clients
  BY DEF IndInv, TypeOK, RegistryTypeOK
<1>2. \A k \in Clients : dereg'[k].at = "done" <=> \E i \in DOMAIN departed' : departed'[i] = k
  BY <1>1 DEF Members, Gone
<1> DEFINE Opened(k) == {c \in ConnsOf(k) : guard'[c] # "none"}
           Entry(k) == [client_id |-> k, bytes |-> Sum(counters', Opened(k)),
                        total_conns |-> Cardinality(Opened(k))]
<1>3. \A i \in DOMAIN history' :
         ForwardOnly(history'[i].client_id) => history'[i] = Entry(history'[i].client_id)
  <2>1. \A x : ExactEntry(x)' = Entry(x)
    BY DEF ExactEntry, ConnsOf, ClientOf
  <2> HIDE DEF Entry
  <2> QED
    BY <2>1
<1>4. /\ Len(history') = Least(HISTORY_CAPACITY, Len(departed'))
      /\ \A i \in DOMAIN history' :
            history'[i].client_id = departed'[Len(departed') - Len(history') + i]
  BY DEF EndOf, Aligned
<1>5. \A i, j \in DOMAIN departed' : departed'[i] = departed'[j] => i = j
  BY DEF OnceEach
<1> QED
  BY <1>2, <1>3, <1>4, <1>5 DEF HistoryExact, ForwardOnly, ExactEntry, ConnsOf, ClientOf, Declared

LEMMA HistoryInductive ==
    IndInv /\ IndInv' /\ StreamsDeclared /\ RollUpInv /\ HistoryExact /\ [Next]_vars => HistoryExact'
<1> SUFFICES ASSUME IndInv, IndInv', StreamsDeclared, RollUpInv, HistoryExact, [Next]_vars
             PROVE  HistoryExact'
  OBVIOUS
<1>0. /\ EndOf(history, departed, HISTORY_CAPACITY) /\ OnceEach(departed)
      /\ Members(departed) = Gone
      /\ \A i \in DOMAIN history :
            ForwardOnly(history[i].client_id) => history[i] = ExactEntry(history[i].client_id)
  BY HistoryParts
<1>1. \A k \in Gone : ForwardOnly(k) => ExactEntry(k)' = ExactEntry(k)
  BY GonePast, EntryKept
<1>2. \A i \in DOMAIN history : history[i].client_id \in Gone
  <2>1. /\ history \in Seq(HistoryEntry) /\ departed \in Seq(Clients)
        /\ HISTORY_CAPACITY \in Nat \ {0}
    BY RegistryAssumption DEF IndInv, TypeOK, RegistryTypeOK
  <2>2. /\ Len(history) \in Nat /\ Len(departed) \in Nat /\ Len(history) <= Len(departed)
        /\ DOMAIN history = 1 .. Len(history) /\ DOMAIN departed = 1 .. Len(departed)
    <3>1. /\ Len(history) \in Nat /\ Len(departed) \in Nat
          /\ DOMAIN history = 1 .. Len(history) /\ DOMAIN departed = 1 .. Len(departed)
      BY <2>1
    <3>2. Len(history) = Least(HISTORY_CAPACITY, Len(departed))
      BY <1>0 DEF EndOf
    <3> QED
      BY <2>1, <3>1, <3>2 DEF Least
  <2>3. \A i \in DOMAIN history : Len(departed) - Len(history) + i \in DOMAIN departed
    BY <2>2
  <2> QED
    BY <1>0, <2>3 DEF EndOf, Aligned, Members
<1>3. CASE ~ \E k \in Clients : Deregister(k) /\ PushHistory(k)
  <2>1. UNCHANGED <<history, departed, Gone>>
    BY <1>3, HistoryKept
  <2>2. \A i \in DOMAIN history : \A x \in Gone :
           history[i].client_id = x /\ ForwardOnly(x) => history[i] = ExactEntry(x)'
    BY <1>0, <1>1
  <2> QED
    BY <1>0, <1>2, <2>1, <2>2, HistoryWhole
<1>4. ASSUME NEW k \in Clients, Deregister(k), PushHistory(k) PROVE HistoryExact'
  <2> DEFINE e == [client_id |-> k, bytes |-> dereg[k].bytes, total_conns |-> dereg[k].total]
  <2>1. Gone' = Gone \cup {k} /\ k \notin Gone
    BY <1>4 DEF Gone, PushHistory, BetweenTunnels, Idle, IndInv, TypeOK, RegistryTypeOK
  <2>2. ForwardOnly(k) => e = ExactEntry(k)'
    <3>1. phase[k] = "deregistering"
      BY <1>4 DEF Deregister
    <3> QED
      BY <1>4, <3>1, PushedExact, EntryKept
  <2>3. /\ history \in Seq(HistoryEntry) /\ e \in HistoryEntry
        /\ departed \in Seq(Clients) /\ HISTORY_CAPACITY \in Nat \ {0}
        /\ history' = Append(IF Len(history) = HISTORY_CAPACITY THEN Tail(history) ELSE history, e)
        /\ departed' = Append(departed, k)
    BY <1>4, RegistryAssumption DEF IndInv, TypeOK, RegistryTypeOK, HistoryEntry, DeregLocals, PushHistory
  <2>4. e.client_id = k
    OBVIOUS
  <2> HIDE DEF e
  <2> DEFINE E == HistoryEntry
             s == history
             p == history'
             d == departed
             q == departed'
             cap == HISTORY_CAPACITY
  <2>5. Extended(d, q, e.client_id)
    BY <2>3, <2>4 DEF Extended
  <2>6. /\ s \in Seq(E) /\ e \in E /\ cap \in Nat \ {0} /\ Len(d) \in Nat
        /\ EndOf(s, d, cap)
    BY <1>0, <2>3
  <2>7. p = Ring(s, e, cap)
    BY <2>3 DEF Ring
  <2>8. OnceEach(q) /\ Members(q) = Members(d) \cup {k}
    <3>1. Extended(d, q, k) /\ OnceEach(d) /\ k \notin Members(d)
      BY <1>0, <2>1, <2>4, <2>5
    <3> HIDE DEF d, q
    <3> QED
      BY <3>1, ExtendedOnce
  <2>9. EndOf(p, q, cap) /\ \A i \in DOMAIN p : PushedEntry(s, p, e, i)
    <3> HIDE DEF E, s, p, d, q, cap
    <3>1. Len(s) = Least(cap, Len(d))
      BY <2>6 DEF EndOf
    <3>2. /\ Len(Ring(s, e, cap)) = Least(cap, Len(d) + 1)
          /\ \E shift \in {0, 1} : Pushed(s, Ring(s, e, cap), e, shift)
      BY <2>6, <3>1, RingPush
    <3>3. Len(p) = Least(cap, Len(d) + 1) /\ \E shift \in {0, 1} : Pushed(s, p, e, shift)
      BY <2>7, <3>2, Zenon
    <3>4. Len(p) = Least(cap, Len(q))
      BY <2>5, <3>3 DEF Extended
    <3>5. PICK shift \in {0, 1} : Pushed(s, p, e, shift)
      BY <3>3
    <3>6. Len(s) \in Nat /\ Len(s) <= Len(d)
      BY <2>6, <3>1 DEF Least
    <3>7. Aligned(s, d)
      BY <2>6 DEF EndOf
    <3>8. Aligned(p, q) /\ \A i \in DOMAIN p : PushedEntry(s, p, e, i)
      BY <2>5, <3>5, <3>6, <3>7, PushedEnd, Zenon
    <3> QED
      BY <3>4, <3>8 DEF EndOf
  <2>10. ASSUME NEW i \in DOMAIN history'
         PROVE  /\ history'[i].client_id \in Gone'
                /\ \A x \in Gone' : history'[i].client_id = x /\ ForwardOnly(x)
                                        => history'[i] = ExactEntry(x)'
    <3>1. CASE history'[i] = e
      BY <2>1, <2>2, <2>4, <3>1
    <3>2. ASSUME NEW m \in DOMAIN history, history'[i] = history[m]
          PROVE  /\ history'[i].client_id \in Gone'
                 /\ \A x \in Gone' : history'[i].client_id = x /\ ForwardOnly(x)
                                         => history'[i] = ExactEntry(x)'
      <4> DEFINE r == history[m]
      <4>1. r.client_id \in Gone /\ (ForwardOnly(r.client_id) => r = ExactEntry(r.client_id))
        BY <1>0, <1>2
      <4>2. \A x \in Gone' : r.client_id = x /\ ForwardOnly(x) => r = ExactEntry(x)'
        BY <1>1, <4>1
      <4> QED
        BY <2>1, <3>2, <4>1, <4>2
    <3> QED
      BY <2>9, <3>1, <3>2 DEF PushedEntry
  <2>11. Members(departed') = Gone'
    BY <1>0, <2>1, <2>8
  <2> QED
    BY <2>8, <2>9, <2>10, <2>11, HistoryWhole
<1> QED
  BY <1>3, <1>4

\* The accounts hold at the start and are kept by every step.
LEMMA AccountInductive ==
    /\ Init => AccountInv
    /\ IndInv /\ IndInv' /\ AccountInv /\ [Next]_vars => AccountInv'
<1>1. ASSUME Init PROVE AccountInv
  <2>1. /\ {c \in Conns : guard[c] # "none"} = {}
        /\ \A t \in Tunnels : Folded(t) = {} /\ Counted(t) = {}
        /\ \A t \in Tunnels : cumulative[t] = 0 /\ total_conns[t] = 0
        /\ Gone = {}
        /\ \A k \in Clients : dereg[k].at = "no" /\ dereg[k].cur = NoTunnel
    BY <1>1 DEF Init, RegistryInit, Folded, Counted, Gone, Idle
  <2>2. LedgerInv
    BY <2>1, SumEmpty, FS_EmptySet DEF LedgerInv
  <2>3. StreamsDeclared
    BY <2>1, SessionAssumption DEF StreamsDeclared
  <2>4. RollUpInv
    BY <2>1 DEF RollUpInv, RollUpOK
  <2>5. Least(HISTORY_CAPACITY, 0) = 0
    BY RegistryAssumption DEF Least
  <2>6. /\ Len(history) = 0 /\ DOMAIN history = {}
        /\ Len(departed) = 0 /\ DOMAIN departed = {}
    <3>1. history = <<>> /\ departed = <<>>
      BY <1>1 DEF Init, RegistryInit
    <3>2. Len(<<>>) = 0 /\ DOMAIN <<>> = {}
      OBVIOUS
    <3> QED
      BY <3>1, <3>2
  <2>7. HistoryExact
    BY <2>1, <2>5, <2>6 DEF HistoryExact
  <2> QED
    BY <2>2, <2>3, <2>4, <2>7 DEF AccountInv
<1> QED
  BY <1>1, LedgerInductive, StreamsDeclaredInductive, RollUpInductive, HistoryInductive
     DEF AccountInv

\* The bandwidth ledger of the registry: in every reachable state a tunnel's cumulative
\* counters are the bytes of the conns that ConnGuard::drop has folded into them, each
\* conn once, and its total_conns the conns register_conn has counted.
THEOREM LedgerExactAlways == Spec => []LedgerInv
<1>1. Spec => []IndInv
  BY Invariance
<1> QED
  BY <1>1, AccountInductive, PTL DEF Spec, AccountInv

\* deregister_client records what flowed: the history holds the clients deregistered last,
\* as many as it has room for and in that order, and the entry of one that declared only forward tunnels counts every byte
\* and every conn once, whatever was aborted or still closing when its session ended.
THEOREM HistoryExactAlways == Spec => []HistoryExact
<1>1. Spec => []IndInv
  BY Invariance
<1>2. AccountInv => HistoryExact
  BY DEF AccountInv
<1> QED
  BY <1>1, <1>2, AccountInductive, PTL DEF Spec
=============================================================================
