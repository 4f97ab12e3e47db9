---------------------------- MODULE TcpRelayProofs ----------------------------
(***************************************************************************)
(* What a relayed application may conclude from an end-of-stream, for any  *)
(* amount of data and any flow-control window.                             *)
(***************************************************************************)
EXTENDS TcpRelay, TLAPS

\* The bytes of e's application that are unread, under way or delivered.
Carried(e) ==
    unread[e] + tcp_recv[e] + stream[e].held + quic_recv[Peer(e)] + delivered[Peer(e)]

\* What is carried was written; a direction that has not failed has lost nothing; a
\* FIN follows the last byte of a closed direction.
Direction(e) ==
    /\ Carried(e) <= written[e]
    /\ stream[e].fin = "fin" =>
          tx[e] = "eof" /\ unread[e] = 0 /\ tcp_recv[e] = 0 /\ app[e] # "open"
    /\ stream[e].fin = "fin" \/ (stream[e].fin = "open" /\ app[e] # "rst") =>
          Carried(e) = written[e]
    /\ tx[e] = "eof" <=> stream[e].fin = "fin"
    /\ tx[e] \in {"new", "copying"} => stream[e].fin = "open"
    /\ rx[Peer(e)] = "eof" =>
          stream[e].fin = "fin" /\ stream[e].held = 0 /\ quic_recv[Peer(e)] = 0

\* A copy is woken by the failure of the other copy of its end.
Woken(e) ==
    /\ "tx" \in woken[e] => rx[e] = "errored" \/ tx[e] = "errored"
    /\ "rx" \in woken[e] => tx[e] = "errored" \/ rx[e] = "errored"
    /\ tx[e] = "aborted" => rx[e] = "errored"
    /\ rx[e] = "aborted" => tx[e] = "errored"

RelayInv == TypeOK /\ \A e \in Ends : Direction(e) /\ Woken(e)

\* The two ends are each other's peer.
LEMMA PeerFacts ==
    \A e \in Ends : /\ Peer(e) \in Ends /\ Peer(e) # e /\ Peer(Peer(e)) = e
                    /\ Ends = {e, Peer(e)}
BY DEF Ends, Peer

\* Initially nothing has been written and no copy runs.
LEMMA RelayInit == Init => RelayInv
<1> SUFFICES ASSUME Init PROVE RelayInv
  OBVIOUS
<1>1. [held |-> 0, fin |-> "open", stopped |-> FALSE] \in Streams
  BY RelayAssumption DEF Streams
<1>2. TypeOK
  BY <1>1, RelayAssumption DEF Init, TypeOK, CopyStates
<1> QED
  BY <1>2, PeerFacts DEF Init, RelayInv, Direction, Carried, Woken

Numbers(e) ==
    /\ unread[e] \in Nat /\ tcp_recv[e] \in Nat /\ stream[e].held \in Nat
    /\ quic_recv[e] \in Nat /\ delivered[e] \in Nat
    /\ written[e] \in Nat /\ written[e] <= MaxWrites

LEMMA NumbersType == TypeOK => \A e \in Ends : Numbers(e)
<1> SUFFICES ASSUME TypeOK, NEW e \in Ends PROVE Numbers(e)
  OBVIOUS
<1>1. stream[e].held \in Nat
  BY RelayAssumption DEF TypeOK, Streams
<1> QED
  BY <1>1, RelayAssumption DEF TypeOK, Numbers

\* A part of a sum is at most the sum, and a byte that moves between two parts leaves it.
LEMMA FirstPart ==
    \A a, b, c, d, f, w \in Nat : a + b + c + d + f <= w => a <= w
OBVIOUS

LEMMA LastPart ==
    \A a, b, c, f, w \in Nat : a + b + c + 1 + f <= w => f + 1 <= w
OBVIOUS

LEMMA MovedToStream ==
    \A a, c, d, f \in Nat : a + 0 + (c + 1) + d + f = a + 1 + c + d + f
OBVIOUS

LEMMA MovedToPeer ==
    \A a, b, c, f \in Nat : a + b + c + 0 + (f + 1) = a + b + c + 1 + f
OBVIOUS

\* The applications and the network keep the invariant.
LEMMA AppKeeps ==
    ASSUME RelayInv, NEW e \in Ends, App(e) \/ LinkDies
    PROVE  RelayInv'
<1> USE PeerFacts DEF RelayInv, apps, buffers
<1>0. \A d \in Ends : Numbers(d)
  BY NumbersType
<1>1. CASE AppWrites(e)
  <2>1. TypeOK'
    <3>1. written[e] + 1 \in 0 .. MaxWrites /\ unread[e] + 1 \in 0 .. MaxWrites
      <4>1. /\ Numbers(e) /\ Numbers(Peer(e)) /\ Carried(e) <= written[e]
            /\ written[e] < MaxWrites
        BY <1>0, <1>1 DEF AppWrites, Direction
      <4>2. unread[e] <= written[e]
        BY <4>1, FirstPart, Zenon DEF Carried, Numbers
      <4> QED
        BY <4>1, <4>2, RelayAssumption DEF Numbers
    <3> QED
      BY <1>1, <3>1 DEF AppWrites, TypeOK
  <2>2. \A d \in Ends : Direction(d)'
    BY <1>0, <1>1 DEF AppWrites, TypeOK, Direction, Carried, Numbers
  <2>3. \A d \in Ends : Woken(d)'
    BY <1>1 DEF AppWrites, Woken
  <2> QED
    BY <2>1, <2>2, <2>3
<1>2. CASE AppReads(e) \/ LinkDies
  <2>1. TypeOK'
    <3>1. socket[e] > 0 => socket[e] - 1 \in 0 .. SocketBuffer
      BY RelayAssumption DEF TypeOK
    <3>2. CASE AppReads(e)
      BY <3>1, <3>2 DEF AppReads, TypeOK
    <3>3. CASE LinkDies
      BY <3>3 DEF LinkDies, TypeOK
    <3> QED
      BY <1>2, <3>2, <3>3
  <2> QED
    BY <1>2, <2>1 DEF AppReads, LinkDies, Direction, Carried, Woken
<1>3. CASE AppHalfCloses(e)
  <2>1. TypeOK'
    BY <1>3 DEF AppHalfCloses, TypeOK
  <2>2. \A d \in Ends : Direction(d)'
    BY <1>3 DEF AppHalfCloses, TypeOK, Direction, Carried
  <2>3. \A d \in Ends : Woken(d)'
    BY <1>3 DEF AppHalfCloses, Woken
  <2> QED
    BY <2>1, <2>2, <2>3
<1>4. CASE AppResets(e)
  <2>1. TypeOK'
    BY <1>4, RelayAssumption DEF AppResets, TypeOK
  <2>2. \A d \in Ends : Direction(d)'
    BY <1>0, <1>4 DEF AppResets, TypeOK, Direction, Carried, Numbers
  <2>3. \A d \in Ends : Woken(d)'
    BY <1>4 DEF AppResets, Woken
  <2> QED
    BY <2>1, <2>2, <2>3
<1> QED
  BY <1>1, <1>2, <1>3, <1>4 DEF App

\* Resetting or dropping a stream yields a stream; dropping keeps its contents.
LEMMA StreamFacts ==
    \A s \in Streams :
        /\ Reset(s) \in Streams /\ Reset(s).held = 0 /\ Reset(s).fin = "reset"
        /\ Dropped(s) \in Streams
        /\ Dropped(s).held = s.held /\ Dropped(s).fin = s.fin
<1> TAKE s \in Streams
<1>1. Reset(s) \in Streams /\ Reset(s).held = 0 /\ Reset(s).fin = "reset"
  BY RelayAssumption DEF Streams, Reset
<1>2. /\ Dropped(s) \in Streams
      /\ Dropped(s).held = s.held /\ Dropped(s).fin = s.fin
  BY DEF Streams, Dropped
<1> QED
  BY <1>1, <1>2

\* The copy from TCP to QUIC keeps the invariant.
LEMMA TxKeeps ==
    ASSUME RelayInv, NEW e \in Ends, Tx(e)
    PROVE  RelayInv'
<1> USE PeerFacts DEF RelayInv
<1>0. \A d \in Ends : Numbers(d)
  BY NumbersType
<1>1. CASE TxStart(e)
  BY <1>1 DEF TxStart, Direction, Carried, Woken, TypeOK, CopyStates, apps, buffers
<1>2. CASE TxReads(e)
  <2>1. TypeOK'
    BY <1>2, <1>0, RelayAssumption DEF TxReads, TypeOK, apps, Numbers
  <2>2. \A d \in Ends : Direction(d)'
    BY <1>2, <1>0 DEF TxReads, TxPolled, TypeOK, Direction, Carried, Numbers, apps
  <2>3. \A d \in Ends : Woken(d)'
    BY <1>2 DEF TxReads, Woken
  <2> QED
    BY <2>1, <2>2, <2>3
<1>3. CASE TxEof(e)
  <2>1. /\ stream' \in [Ends -> Streams]
        /\ stream'[e].held = stream[e].held
        /\ stream'[e].fin = "fin"
        /\ stream'[Peer(e)] = stream[Peer(e)]
    BY <1>3 DEF TxEof, TypeOK, Streams
  <2>2. TypeOK'
    BY <1>3, <2>1 DEF TxEof, TypeOK, CopyStates, apps, buffers
  <2>3. Carried(e)' = Carried(e) /\ Carried(Peer(e))' = Carried(Peer(e))
    BY <1>3, <2>1, <1>0 DEF TxEof, TypeOK, Carried, Numbers, apps, buffers
  <2>4. \A d \in Ends : Direction(d)'
    <3>1. Direction(e)'
      BY <1>3, <2>1, <2>3, <1>0 DEF TxEof, TxPolled, TypeOK, Direction, Numbers, apps, buffers
    <3>2. Direction(Peer(e))'
      BY <1>3, <2>1, <2>3 DEF TxEof, TxPolled, TypeOK, Direction, apps, buffers
    <3> QED
      BY <3>1, <3>2
  <2>5. \A d \in Ends : Woken(d)'
    BY <1>3 DEF TxEof, TxPolled, TypeOK, Woken
  <2> QED
    BY <2>2, <2>3, <2>4, <2>5
<1>4. CASE TxErrors(e)
  <2>1. /\ stream' \in [Ends -> Streams]
        /\ stream'[e].held = 0
        /\ stream'[e].fin = "reset"
        /\ stream'[Peer(e)] = stream[Peer(e)]
    BY <1>4, StreamFacts DEF TxErrors, TypeOK
  <2>2. TypeOK'
    BY <1>4, <2>1 DEF TxErrors, Notified, TypeOK, CopyStates, apps, buffers
  <2>3. Carried(e)' <= Carried(e) /\ Carried(Peer(e))' = Carried(Peer(e))
    BY <1>4, <2>1, <1>0 DEF TxErrors, TypeOK, Carried, Numbers, apps, buffers
  <2>4. \A d \in Ends : Direction(d)'
    <3>1. Carried(e) \in Nat /\ Carried(e)' \in Nat
      BY <1>0, <2>2, NumbersType, <2>1, <1>4 DEF TxErrors, Carried, Numbers, TypeOK, apps, buffers
    <3>2. Direction(e)'
      BY <1>4, <2>1, <2>3, <3>1, <1>0 DEF TxErrors, TxPolled, TypeOK, Direction, Numbers, apps, buffers
    <3>3. Direction(Peer(e))'
      BY <1>4, <2>1, <2>3 DEF TxErrors, TxPolled, TypeOK, Direction, apps, buffers
    <3> QED
      BY <3>2, <3>3
  <2>5. \A d \in Ends : Woken(d)'
    BY <1>4 DEF TxErrors, Notified, TxPolled, TypeOK, Woken
  <2> QED
    BY <2>2, <2>3, <2>4, <2>5
<1>5. CASE TxAborts(e)
  <2>1. /\ stream' \in [Ends -> Streams]
        /\ stream'[e].held = 0
        /\ stream'[e].fin = "reset"
        /\ stream'[Peer(e)] = stream[Peer(e)]
    BY <1>5, StreamFacts DEF TxAborts, TypeOK
  <2>2. TypeOK'
    BY <1>5, <2>1 DEF TxAborts, TypeOK, CopyStates, apps, buffers
  <2>3. Carried(e)' <= Carried(e) /\ Carried(Peer(e))' = Carried(Peer(e))
    BY <1>5, <2>1, <1>0 DEF TxAborts, TypeOK, Carried, Numbers, apps, buffers
  <2>4. \A d \in Ends : Direction(d)'
    <3>1. Carried(e) \in Nat /\ Carried(e)' \in Nat
      BY <1>0, <2>2, NumbersType, <2>1, <1>5 DEF TxAborts, Carried, Numbers, TypeOK, apps, buffers
    <3>2. Direction(e)'
      BY <1>5, <2>1, <2>3, <3>1, <1>0 DEF TxAborts, TxPolled, TypeOK, Direction, Numbers, apps, buffers
    <3>3. Direction(Peer(e))'
      BY <1>5, <2>1, <2>3 DEF TxAborts, TxPolled, TypeOK, Direction, apps, buffers
    <3> QED
      BY <3>2, <3>3
  <2>5. \A d \in Ends : Woken(d)'
    BY <1>5 DEF TxAborts, TxPolled, TypeOK, Woken
  <2> QED
    BY <2>2, <2>3, <2>4, <2>5
<1>6. CASE TxWrites(e)
  <2>1. /\ stream' \in [Ends -> Streams]
        /\ stream'[e].held = stream[e].held + 1
        /\ stream'[e].fin = stream[e].fin
        /\ stream'[Peer(e)] = stream[Peer(e)]
    <3>0. stream[e] \in Streams /\ stream[e].held < Window
      BY <1>6 DEF TxWrites, TypeOK
    <3>2. stream[e].held + 1 \in 0 .. Window
      BY <1>0, <3>0, RelayAssumption DEF Numbers
    <3>1. [stream[e] EXCEPT !.held = stream[e].held + 1] \in Streams
      BY <3>0, <3>2 DEF Streams
    <3> QED
      BY <1>6, <3>1 DEF TxWrites, TypeOK, Streams
  <2>2. TypeOK'
    BY <1>6, <2>1, RelayAssumption DEF TxWrites, TypeOK, CopyStates, apps, buffers
  <2>3. Carried(e)' = Carried(e) /\ Carried(Peer(e))' = Carried(Peer(e))
    <3>1. /\ tcp_recv[e] = 1 /\ tcp_recv'[e] = 0 /\ tcp_recv'[Peer(e)] = tcp_recv[Peer(e)]
          /\ UNCHANGED <<unread, quic_recv, delivered>>
      BY <1>6 DEF TxWrites, TypeOK
    <3>2. Numbers(e) /\ Numbers(Peer(e))
      BY <1>0
    <3>3. /\ Carried(e)' = unread[e] + 0 + (stream[e].held + 1) + quic_recv[Peer(e)]
                           + delivered[Peer(e)]
          /\ Carried(e) = unread[e] + 1 + stream[e].held + quic_recv[Peer(e)]
                           + delivered[Peer(e)]
      BY <2>1, <3>1 DEF Carried
    <3>4. Carried(e)' = Carried(e)
      <4>1. unread[e] + 0 + (stream[e].held + 1) + quic_recv[Peer(e)] + delivered[Peer(e)]
              = unread[e] + 1 + stream[e].held + quic_recv[Peer(e)] + delivered[Peer(e)]
        BY <3>2, MovedToStream DEF Numbers
      <4> QED
        BY <3>3, <4>1, Zenon
    <3>5. Carried(Peer(e))' = Carried(Peer(e))
      BY <2>1, <3>1 DEF Carried
    <3> QED
      BY <3>4, <3>5
  <2>4. \A d \in Ends : Direction(d)'
    <3>1. Direction(e)'
      BY <1>6, <2>1, <2>3, <1>0 DEF TxWrites, TxPolled, TypeOK, Direction, Numbers, apps
    <3>2. Direction(Peer(e))'
      BY <1>6, <2>1, <2>3 DEF TxWrites, TxPolled, TypeOK, Direction, apps
    <3> QED
      BY <3>1, <3>2
  <2>5. \A d \in Ends : Woken(d)'
    BY <1>6 DEF TxWrites, TxPolled, TypeOK, Woken
  <2> QED
    BY <2>2, <2>3, <2>4, <2>5
<1> QED
  BY <1>1, <1>2, <1>3, <1>4, <1>5, <1>6 DEF Tx

\* The copy from QUIC to TCP keeps the invariant.
LEMMA RxKeeps ==
    ASSUME RelayInv, NEW e \in Ends, Rx(e)
    PROVE  RelayInv'
<1> USE PeerFacts DEF RelayInv
<1>0. \A d \in Ends : Numbers(d)
  BY NumbersType
<1>1. CASE RxStart(e)
  BY <1>1 DEF RxStart, Direction, Carried, Woken, TypeOK, CopyStates, apps, buffers
<1>2. CASE RxReads(e)
  <2>1. /\ stream' \in [Ends -> Streams]
        /\ stream'[Peer(e)].held = stream[Peer(e)].held - 1
        /\ stream'[Peer(e)].fin = stream[Peer(e)].fin
        /\ stream'[e] = stream[e]
    <3>1. [stream[Peer(e)] EXCEPT !.held = stream[Peer(e)].held - 1] \in Streams
      <4>1. stream[Peer(e)] \in Streams /\ stream[Peer(e)].held > 0
        BY <1>2 DEF RxReads, TypeOK
      <4>2. stream[Peer(e)].held - 1 \in 0 .. Window
        BY <4>1, RelayAssumption DEF Streams
      <4> QED
        BY <4>1, <4>2 DEF Streams
    <3>2. /\ stream \in [Ends -> Streams] /\ Peer(e) \in Ends \ {e}
          /\ stream' = [stream EXCEPT ![Peer(e)] =
                          [stream[Peer(e)] EXCEPT !.held = stream[Peer(e)].held - 1]]
      BY <1>2 DEF RxReads, TypeOK
    <3> QED
      BY <3>1, <3>2 DEF Streams
  <2>2. TypeOK'
    BY <1>2, <2>1 DEF RxReads, TypeOK, apps
  <2>3. Carried(e)' = Carried(e) /\ Carried(Peer(e))' = Carried(Peer(e))
    BY <1>2, <2>1, <1>0 DEF RxReads, TypeOK, Carried, Numbers, apps
  <2>4. \A d \in Ends : Direction(d)'
    <3>1. Direction(e)'
      BY <1>2, <2>1, <2>3, <1>0 DEF RxReads, RxPolled, TypeOK, Direction, Numbers, apps
    <3>2. Direction(Peer(e))'
      BY <1>2, <2>1, <2>3 DEF RxReads, RxPolled, TypeOK, Direction, apps
    <3> QED
      BY <3>1, <3>2
  <2>5. \A d \in Ends : Woken(d)'
    BY <1>2 DEF RxReads, Woken
  <2> QED
    BY <2>2, <2>3, <2>4, <2>5
<1>6. CASE RxWrites(e)
  <2>1. delivered[e] + 1 \in 0 .. MaxWrites
    <3>1. Carried(Peer(e)) <= written[Peer(e)] /\ quic_recv[e] = 1
      BY <1>6 DEF RxWrites, Direction
    <3>2. Numbers(e) /\ Numbers(Peer(e)) /\ Peer(Peer(e)) = e
      BY <1>0
    <3>3. delivered[e] + 1 <= written[Peer(e)]
      <4>1. unread[Peer(e)] + tcp_recv[Peer(e)] + stream[Peer(e)].held + 1
              + delivered[e] <= written[Peer(e)]
        BY <3>1, <3>2 DEF Carried
      <4> QED
        BY <3>2, <4>1, LastPart, Zenon DEF Numbers
    <3> QED
      BY <3>2, <3>3, RelayAssumption DEF Numbers
  <2>2. TypeOK'
    BY <1>6, <2>1, RelayAssumption DEF RxWrites, TypeOK, apps
  <2>3. Carried(e)' = Carried(e) /\ Carried(Peer(e))' = Carried(Peer(e))
    <3>1. /\ quic_recv[e] = 1 /\ quic_recv'[e] = 0 /\ quic_recv'[Peer(e)] = quic_recv[Peer(e)]
          /\ delivered'[e] = delivered[e] + 1 /\ delivered'[Peer(e)] = delivered[Peer(e)]
          /\ UNCHANGED <<unread, tcp_recv, stream>>
      BY <1>6 DEF RxWrites, TypeOK
    <3>2. Numbers(e) /\ Numbers(Peer(e))
      BY <1>0
    <3>3. /\ Carried(Peer(e))' = unread[Peer(e)] + tcp_recv[Peer(e)] + stream[Peer(e)].held
                                  + 0 + (delivered[e] + 1)
          /\ Carried(Peer(e)) = unread[Peer(e)] + tcp_recv[Peer(e)] + stream[Peer(e)].held
                                  + 1 + delivered[e]
      BY <3>1 DEF Carried
    <3>4. Carried(Peer(e))' = Carried(Peer(e))
      <4>1. unread[Peer(e)] + tcp_recv[Peer(e)] + stream[Peer(e)].held + 0 + (delivered[e] + 1)
              = unread[Peer(e)] + tcp_recv[Peer(e)] + stream[Peer(e)].held + 1 + delivered[e]
        BY <3>2, MovedToPeer DEF Numbers
      <4> QED
        BY <3>3, <4>1, Zenon
    <3>5. Carried(e)' = Carried(e)
      BY <3>1 DEF Carried
    <3> QED
      BY <3>4, <3>5
  <2>4. \A d \in Ends : Direction(d)'
    <3>1. Direction(e)'
      BY <1>6, <2>3, <1>0 DEF RxWrites, RxPolled, TypeOK, Direction, Numbers, apps
    <3>2. Direction(Peer(e))'
      BY <1>6, <2>3 DEF RxWrites, RxPolled, TypeOK, Direction, apps
    <3> QED
      BY <3>1, <3>2
  <2>5. \A d \in Ends : Woken(d)'
    BY <1>6 DEF RxWrites, Woken
  <2> QED
    BY <2>2, <2>3, <2>4, <2>5
<1>3. CASE RxEof(e)
  BY <1>3 DEF RxEof, RxPolled, Direction, Carried, Woken, TypeOK, CopyStates, apps, buffers
<1>4. CASE RxErrors(e)
  <2>1. /\ stream' \in [Ends -> Streams]
        /\ stream'[Peer(e)].held = stream[Peer(e)].held
        /\ stream'[Peer(e)].fin = stream[Peer(e)].fin
        /\ stream'[e] = stream[e]
    BY <1>4, StreamFacts DEF RxErrors, TypeOK
  <2>2. TypeOK'
    BY <1>4, <2>1 DEF RxErrors, Notified, TypeOK, CopyStates, apps, buffers
  <2>3. Carried(e)' = Carried(e) /\ Carried(Peer(e))' = Carried(Peer(e))
    BY <1>4, <2>1, <1>0 DEF RxErrors, TypeOK, Carried, Numbers, apps, buffers
  <2>4. \A d \in Ends : Direction(d)'
    <3>1. Direction(e)'
      BY <1>4, <2>1, <2>3, <1>0 DEF RxErrors, RxPolled, TypeOK, Direction, Numbers, apps, buffers
    <3>2. Direction(Peer(e))'
      BY <1>4, <2>1, <2>3 DEF RxErrors, RxPolled, TypeOK, Direction, apps, buffers
    <3> QED
      BY <3>1, <3>2
  <2>5. \A d \in Ends : Woken(d)'
    BY <1>4 DEF RxErrors, Notified, RxPolled, TypeOK, Woken
  <2> QED
    BY <2>2, <2>3, <2>4, <2>5
<1>5. CASE RxAborts(e)
  <2>1. /\ stream' \in [Ends -> Streams]
        /\ stream'[Peer(e)].held = stream[Peer(e)].held
        /\ stream'[Peer(e)].fin = stream[Peer(e)].fin
        /\ stream'[e] = stream[e]
    BY <1>5, StreamFacts DEF RxAborts, TypeOK
  <2>2. TypeOK'
    BY <1>5, <2>1 DEF RxAborts, TypeOK, CopyStates, apps, buffers
  <2>3. Carried(e)' = Carried(e) /\ Carried(Peer(e))' = Carried(Peer(e))
    BY <1>5, <2>1, <1>0 DEF RxAborts, TypeOK, Carried, Numbers, apps, buffers
  <2>4. \A d \in Ends : Direction(d)'
    <3>1. Direction(e)'
      BY <1>5, <2>1, <2>3, <1>0 DEF RxAborts, RxPolled, TypeOK, Direction, Numbers, apps, buffers
    <3>2. Direction(Peer(e))'
      BY <1>5, <2>1, <2>3 DEF RxAborts, RxPolled, TypeOK, Direction, apps, buffers
    <3> QED
      BY <3>1, <3>2
  <2>5. \A d \in Ends : Woken(d)'
    BY <1>5 DEF RxAborts, RxPolled, TypeOK, Woken
  <2> QED
    BY <2>2, <2>3, <2>4, <2>5
<1> QED
  BY <1>1, <1>2, <1>3, <1>4, <1>5, <1>6 DEF Rx

\* The relay's invariant holds in every reachable state.
THEOREM RelayCorrect == Spec => []RelayInv
<1>1. RelayInv /\ [Next]_vars => RelayInv'
  <2> SUFFICES ASSUME RelayInv, [Next]_vars PROVE RelayInv'
    OBVIOUS
  <2>1. ASSUME NEW e \in Ends, Tx(e) \/ Rx(e) \/ App(e) PROVE RelayInv'
    BY <2>1, AppKeeps, TxKeeps, RxKeeps
  <2>2. CASE LinkDies
    BY <2>2, AppKeeps DEF Ends
  <2>3. CASE UNCHANGED vars
    BY <2>3 DEF vars, RelayInv, TypeOK, Direction, Carried, Woken
  <2> QED
    BY <2>1, <2>2, <2>3 DEF Next
<1> QED
  BY <1>1, RelayInit, PTL DEF Spec

\* A clean end-of-stream reaches an application only after every byte the other
\* application wrote (tunnel_tcp_stream).
THEOREM EofMeansCompleteAlways == Spec => []EofMeansComplete
<1>1. RelayInv => EofMeansComplete
  <2> SUFFICES ASSUME RelayInv, NEW e \in Ends, rx[e] = "eof"
               PROVE  delivered[e] = written[Peer(e)]
    BY DEF EofMeansComplete
  <2>1. Direction(Peer(e))
    BY PeerFacts DEF RelayInv
  <2> QED
    BY <2>1, PeerFacts, NumbersType DEF RelayInv, Direction, Carried, Numbers
<1> QED
  BY <1>1, RelayCorrect, PTL

\* A copy is aborted only beside a copy that failed at the same end.
THEOREM AbortNeedsErrorAlways == Spec => []AbortNeedsError
<1>1. RelayInv => AbortNeedsError
  BY DEF RelayInv, Woken, AbortNeedsError
<1> QED
  BY <1>1, RelayCorrect, PTL

\* No byte is made up, and no counter leaves its range.
THEOREM RelayTypeCorrect == Spec => []TypeOK
<1>1. RelayInv => TypeOK
  BY DEF RelayInv
<1> QED
  BY <1>1, RelayCorrect, PTL

-----------------------------------------------------------------------------
(* Without a reset and with the connection up no failure starts.           *)

Quiet == link /\ \A e \in Ends : app[e] # "rst"

Unharmed ==
    Quiet => \A e \in Ends : /\ tx[e] \notin {"errored", "aborted"}
                             /\ rx[e] \notin {"errored", "aborted"}
                             /\ woken[e] = {}
                             /\ stream[e].fin # "reset" /\ ~ stream[e].stopped

\* A copy fails only over a reset, a stopped stream, a wake-up or a lost connection.
LEMMA UnharmedKept == TypeOK /\ Unharmed /\ [Next]_vars => Unharmed'
<1> SUFFICES ASSUME TypeOK, Unharmed, [Next]_vars, Quiet' PROVE Unharmed'
  BY DEF Unharmed
<1>1. CASE UNCHANGED vars
  BY <1>1 DEF vars, Unharmed, Quiet
<1>2. ASSUME NEW e \in Ends, App(e) PROVE Unharmed'
  <2>1. Quiet
    BY <1>2 DEF App, AppWrites, AppReads, AppHalfCloses, AppResets, Quiet, TypeOK, apps
  <2> QED
    BY <1>2, <2>1 DEF App, AppWrites, AppReads, AppHalfCloses, AppResets, Unharmed
<1>3. CASE LinkDies
  BY <1>3 DEF LinkDies, Quiet
<1>4. ASSUME NEW e \in Ends, Tx(e) \/ Rx(e) PROVE Unharmed'
  <2>1. Quiet
    BY <1>4 DEF Tx, Rx, TxStart, TxReads, TxWrites, TxEof, TxErrors, TxAborts, RxStart,
                RxReads, RxWrites, RxEof, RxErrors, RxAborts, Quiet, apps
  <2>2. /\ Peer(e) \in Ends /\ link /\ app[e] # "rst"
        /\ woken[e] = {} /\ ~ stream[e].stopped /\ stream[Peer(e)].fin # "reset"
    BY <2>1, PeerFacts DEF Unharmed, Quiet
  <2>3. ~ TxErrors(e) /\ ~ TxAborts(e) /\ ~ RxErrors(e) /\ ~ RxAborts(e)
    BY <2>2 DEF TxErrors, TxAborts, RxErrors, RxAborts
  <2>4. CASE TxStart(e) \/ RxStart(e) \/ TxReads(e) \/ RxWrites(e)
    BY <2>1, <2>4 DEF TxStart, RxStart, TxReads, RxWrites, Unharmed, TypeOK
  <2>5. CASE TxWrites(e)
    BY <2>1, <2>5 DEF TxWrites, Unharmed, TypeOK, Streams
  <2>6. CASE TxEof(e)
    BY <2>1, <2>6 DEF TxEof, Unharmed, TypeOK, Streams
  <2>7. CASE RxReads(e)
    BY <2>1, <2>2, <2>7 DEF RxReads, Unharmed, TypeOK, Streams
  <2>8. CASE RxEof(e)
    BY <2>1, <2>8 DEF RxEof, Unharmed, TypeOK
  <2> QED
    BY <1>4, <2>3, <2>4, <2>5, <2>6, <2>7, <2>8 DEF Tx, Rx
<1> QED
  BY <1>1, <1>2, <1>3, <1>4 DEF Next

\* While nobody resets and the connection is up, no copy fails and every byte written
\* is unread, buffered, in flight or delivered, for any amount of data and any window.
THEOREM QuietIsLosslessAlways == Spec => []QuietIsLossless
<1>1. Init => Unharmed
  BY DEF Init, Unharmed
<1>2. RelayInv => TypeOK
  BY DEF RelayInv
<1>3. RelayInv /\ Unharmed => QuietIsLossless
  <2> SUFFICES ASSUME RelayInv, Unharmed, Quiet, NEW e \in Ends
               PROVE  /\ tx[e] \notin {"errored", "aborted"}
                      /\ rx[e] \notin {"errored", "aborted"}
                      /\ written[e] = Carried(e)
    BY DEF QuietIsLossless, Quiet, Carried
  <2>1. stream[e].fin \in {"open", "fin"} /\ app[e] # "rst"
    BY DEF RelayInv, TypeOK, Streams, Unharmed, Quiet
  <2>2. Direction(e)
    BY DEF RelayInv
  <2>3. Carried(e) = written[e]
    BY <2>1, <2>2 DEF Direction
  <2> QED
    BY <2>3 DEF Unharmed
<1> QED
  BY <1>1, <1>2, <1>3, RelayCorrect, UnharmedKept, PTL DEF Spec
=============================================================================
