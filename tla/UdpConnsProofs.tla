---------------------------- MODULE UdpConnsProofs ----------------------------
(***************************************************************************)
(* Proofs about UdpConns, for any number of sources, datagrams and conns.  *)
(*                                                                         *)
(* MapForgets is not inductive: a task removes the key it was created for, *)
(* and if its conn were listed under another key as well, that entry would *)
(* stay.  Every conn is listed under its own key only.                     *)
(***************************************************************************)
EXTENDS UdpConns, TLAPS

\* A conn is listed under the key it was created for.
ListedOnce == \A k \in Keys : conns[k] # NoConn => key[conns[k]] = k

IInv == TypeOK /\ ListedOnce /\ MapForgets

\* The initial state: an empty map and no conn.
LEMMA InitEstablishes == Init => IInv
<1>1. AnyKey \in Keys
  BY UdpAssumption DEF AnyKey
<1> QED
  BY <1>1, UdpAssumption
  DEF Init, IInv, TypeOK, ListedOnce, MapForgets, Waiting, Conns, NoConn, Stages, Pumps

\* A conn ends: only its stage, its queue and its age change (Ends).
LEMMA EndsPreserves ==
    ASSUME IInv, NEW c \in Conns, stage[c] \in Live, Ends(c)
    PROVE  IInv'
<1>1. TypeOK'
  BY UdpAssumption DEF IInv, TypeOK, Ends, Stages
<1>2. ListedOnce'
  BY DEF IInv, ListedOnce, Ends
<1>3. MapForgets'
  BY DEF IInv, TypeOK, MapForgets, Ends, Live, Conns, NoConn
<1> QED
  BY <1>1, <1>2, <1>3 DEF IInv

\* A step of the receive loop, which alone enters conns into the map (Listener).
LEMMA ListenerPreserves ==
    ASSUME IInv, Listener \/ ListenerEnds
    PROVE  IInv'
<1> USE DEF IInv
<1>0. AnyKey \in Keys
  BY UdpAssumption DEF AnyKey
<1>1. ASSUME NEW k \in Keys, Receive(k) PROVE IInv'
  BY <1>1, UdpAssumption DEF Receive, TypeOK, ListedOnce, MapForgets, Conns, NoConn
<1>2. CASE Check
  BY <1>2 DEF Check, TypeOK, ListedOnce, MapForgets
<1>3. CASE Evict
  BY <1>3 DEF Evict, TypeOK, ListedOnce, MapForgets
<1>4. CASE Open
  <2>1. PICK c \in Conns :
          /\ stage[c] = "unused"
          /\ conns' = [conns EXCEPT ![loop.key] = c]
          /\ key' = [key EXCEPT ![c] = loop.key]
          /\ stage' = [stage EXCEPT ![c] = "opening"]
          /\ loop' = [loop EXCEPT !.at = "send", !.tx = c]
    BY <1>4 DEF Open
  <2>2. TypeOK'
    BY <1>4, <2>1 DEF Open, TypeOK, Stages
  <2>3. c # NoConn
    BY UdpAssumption DEF Conns, NoConn
  <2>4. \A k \in Keys : conns[k] # c
    BY <2>1, <2>3 DEF MapForgets
  <2>5. ListedOnce' /\ MapForgets'
    BY <2>1, <2>3, <2>4 DEF ListedOnce, MapForgets, TypeOK
  <2> QED
    BY <2>2, <2>5
<1>5. CASE Send
  <2>0. \A c \in Conns : queue[c] # Capacity => queue[c] + 1 \in 0 .. Capacity
    BY UdpAssumption DEF TypeOK
  <2>1. queue' \in [Conns -> 0 .. Capacity]
    <3>1. CASE loop.tx \in Conns
      BY <1>5, <2>0, <3>1 DEF Send, TypeOK
    <3>2. CASE loop.tx \notin Conns
      BY <1>5, <3>2 DEF Send, TypeOK
    <3> QED
      BY <3>1, <3>2
  <2>2. loop' \in [at : {"recv", "check", "evict", "open", "send", "aborted"},
                   key : Keys, tx : Conns \cup {NoConn}]
    BY <1>0, <1>5 DEF Send, Waiting
  <2> QED
    BY <1>5, <2>1, <2>2 DEF Send, TypeOK, ListedOnce, MapForgets
<1>6. CASE ListenerEnds
  BY <1>6 DEF ListenerEnds, TypeOK, ListedOnce, MapForgets
<1> QED
  BY <1>1, <1>2, <1>3, <1>4, <1>5, <1>6 DEF Listener

\* A step of a conn's task, which alone removes its key in the end (Task).
LEMMA TaskPreserves ==
    ASSUME IInv, NEW c \in Conns, Task(c)
    PROVE  IInv'
<1>1. CASE Opened(c)
  BY <1>1 DEF Opened, IInv, TypeOK, ListedOnce, MapForgets, Stages, Pumps
<1>2. CASE stage[c] \in Live /\ Ends(c)
  BY <1>2, EndsPreserves
<1>3. CASE Forward(c)
  BY <1>3, UdpAssumption DEF Forward, IInv, TypeOK, ListedOnce, MapForgets
<1>4. CASE Remove(c)
  <2>1. TypeOK' /\ ListedOnce'
    BY <1>4 DEF Remove, IInv, TypeOK, ListedOnce, Stages
  <2>2. MapForgets'
    BY <1>4 DEF Remove, IInv, TypeOK, ListedOnce, MapForgets
  <2> QED
    BY <2>1, <2>2 DEF IInv
<1> QED
  BY <1>1, <1>2, <1>3, <1>4
  DEF Task, Fails, StreamEnds, ForwardFails, NoSender, TimesOut, Live

\* A step of a conn's far end, which has no access to the map (FarEnd).
LEMMA FarEndPreserves ==
    ASSUME IInv, NEW c \in Conns, FarEnd(c)
    PROVE  IInv'
<1>1. ASSUME NEW pump \in Pumps, PumpEnds(c, pump) PROVE IInv'
  BY <1>1 DEF PumpEnds, IInv, TypeOK, ListedOnce, MapForgets
<1>2. CASE Reply(c)
  BY <1>2 DEF Reply, vars, IInv, TypeOK, ListedOnce, MapForgets
<1> QED
  BY <1>1, <1>2 DEF FarEnd, InEnds, PumpFails, OutEnds, Pumps

\* Time passes for the conns that relay (Tick).
LEMMA TickPreserves == IInv /\ Tick => IInv'
<1> SUFFICES ASSUME IInv, Tick PROVE IInv'
  OBVIOUS
<1>1. \A c \in Conns : age'[c] \in 0 .. IdleTimeout
  BY UdpAssumption DEF Tick, IInv, TypeOK
<1> QED
  BY <1>1 DEF Tick, IInv, TypeOK, ListedOnce, MapForgets

\* A step of the listener, of a conn or of the clock keeps the invariant (Next).
LEMMA StepPreserves == IInv /\ [Next]_vars => IInv'
<1> SUFFICES ASSUME IInv, [Next]_vars PROVE IInv'
  OBVIOUS
<1>1. CASE UNCHANGED vars
  BY <1>1 DEF vars, IInv, TypeOK, ListedOnce, MapForgets
<1> QED
  BY <1>1, ListenerPreserves, TaskPreserves, FarEndPreserves, TickPreserves DEF Next

\* The inductive invariant of the map.
THEOREM Invariant == Spec => []IInv
BY InitEstablishes, StepPreserves, PTL DEF Spec

\* The map, the loop and the conns are well-typed: a queue never exceeds
\* CONN_CHANNEL_CAPACITY and no conn waits beyond CONN_IDLE_TIMEOUT.
THEOREM TypeCorrect == Spec => []TypeOK
BY Invariant, PTL DEF IInv

\* However the loop and the tasks of any number of conns interleave, a finished task
\* leaves no entry behind in the map (tunnel_udp_client, spawn_udp_conn).
THEOREM MapForgetsAlways == Spec => []MapForgets
BY Invariant, PTL DEF IInv
=============================================================================
