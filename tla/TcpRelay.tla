------------------------------- MODULE TcpRelay -------------------------------
(***************************************************************************)
(* A tunnelled TCP connection: two ends of one QUIC bi-stream, each        *)
(* running tunnel_tcp_stream (common/tcp.rs) between the stream and the    *)
(* TCP socket of an application.                                           *)
(*                                                                         *)
(* An end joins two copies, tx from TCP to QUIC (client_to_server in the   *)
(* code) and rx from QUIC to TCP (server_to_client), in a single task.  A  *)
(* copy that meets end-of-stream hands it on and leaves the other copy     *)
(* alone; a copy that fails wakes the other one through a Notify, which    *)
(* only reaches copies that already wait: a task polls tx before rx.       *)
(*                                                                         *)
(* copy_buf reads into the buffer of its BufReader when that is empty and  *)
(* writes it out before it reads again: while it waits to write, it sees   *)
(* nothing of the side it reads from.                                      *)
(*                                                                         *)
(* Bytes are counted, not named: both channels keep their order.           *)
(***************************************************************************)
EXTENDS Integers, FiniteSets

CONSTANTS
    MaxWrites,    \* bytes an application writes at most
    Window,       \* bytes a QUIC stream holds at most (flow control)
    SocketBuffer  \* bytes a TCP socket holds for its application

ASSUME RelayAssumption ==
    /\ MaxWrites \in Nat
    /\ Window \in Nat \ {0}
    /\ SocketBuffer \in Nat \ {0}

Ends == {"client", "server"}

Peer(e) == IF e = "client" THEN "server" ELSE "client"

VARIABLES
    link,       \* whether the QUIC connection is up
    app,        \* the application: "open", "fin" (it has shut its sending half
                \* down, or closed) or "rst"
    written,    \* bytes the application has written
    unread,     \* of these, bytes its end has not read from the socket
    tcp_recv,   \* bytes in the buffer of tx
    stream,     \* QUIC, from this end: [held, fin: "open" "fin" "reset", stopped]
    quic_recv,  \* bytes in the buffer of rx
    delivered,  \* bytes this end has written to the socket of its application
    socket,     \* of these, bytes the application has not read
    shut,       \* whether this end has shut its TCP sending half down
    tx,         \* the copy from TCP to QUIC
    rx,         \* the copy from QUIC to TCP
    woken       \* the copies of an end that abort.notify_waiters() has woken

vars == <<link, app, written, unread, tcp_recv, stream, quic_recv, delivered, socket,
          shut, tx, rx, woken>>

apps == <<app, written>>

buffers == <<tcp_recv, quic_recv>>

\* "new": not polled yet, so not waiting for the Notify; the last three are
\* the CopyOutcome of a finished copy.
CopyStates == {"new", "copying", "eof", "errored", "aborted"}

Finished == {"eof", "errored", "aborted"}

Streams == [held : 0 .. Window, fin : {"open", "fin", "reset"}, stopped : BOOLEAN]

TypeOK ==
    /\ link \in BOOLEAN
    /\ app \in [Ends -> {"open", "fin", "rst"}]
    /\ written \in [Ends -> 0 .. MaxWrites]
    /\ unread \in [Ends -> 0 .. MaxWrites]
    /\ tcp_recv \in [Ends -> 0 .. 1]
    /\ stream \in [Ends -> Streams]
    /\ quic_recv \in [Ends -> 0 .. 1]
    /\ delivered \in [Ends -> 0 .. MaxWrites]
    /\ socket \in [Ends -> 0 .. SocketBuffer]
    /\ shut \in [Ends -> BOOLEAN]
    /\ tx \in [Ends -> CopyStates]
    /\ rx \in [Ends -> CopyStates]
    /\ woken \in [Ends -> SUBSET {"tx", "rx"}]

Init ==
    /\ link = TRUE
    /\ app = [e \in Ends |-> "open"]
    /\ written = [e \in Ends |-> 0]
    /\ unread = [e \in Ends |-> 0]
    /\ stream = [e \in Ends |-> [held |-> 0, fin |-> "open", stopped |-> FALSE]]
    /\ tcp_recv = [e \in Ends |-> 0]
    /\ quic_recv = [e \in Ends |-> 0]
    /\ delivered = [e \in Ends |-> 0]
    /\ socket = [e \in Ends |-> 0]
    /\ shut = [e \in Ends |-> FALSE]
    /\ tx = [e \in Ends |-> "new"]
    /\ rx = [e \in Ends |-> "new"]
    /\ woken = [e \in Ends |-> {}]

-----------------------------------------------------------------------------
(* The applications and the network.                                       *)

AppWrites(e) ==
    /\ app[e] = "open"
    /\ written[e] < MaxWrites
    /\ written' = [written EXCEPT ![e] = @ + 1]
    /\ unread' = [unread EXCEPT ![e] = @ + 1]
    /\ UNCHANGED <<link, app, buffers, stream, delivered, socket, shut, tx, rx, woken>>

AppReads(e) ==
    /\ app[e] # "rst"
    /\ socket[e] > 0
    /\ socket' = [socket EXCEPT ![e] = @ - 1]
    /\ UNCHANGED <<link, apps, unread, buffers, stream, delivered, shut, tx, rx, woken>>

AppHalfCloses(e) ==
    /\ app[e] = "open"
    /\ app' = [app EXCEPT ![e] = "fin"]
    /\ UNCHANGED <<link, written, unread, buffers, stream, delivered, socket, shut, tx,
                   rx, woken>>

\* The application resets its connection, also after closing it, when bytes
\* arrive for it; the kernel drops what was unread.
AppResets(e) ==
    /\ app[e] # "rst"
    /\ app' = [app EXCEPT ![e] = "rst"]
    /\ unread' = [unread EXCEPT ![e] = 0]
    /\ socket' = [socket EXCEPT ![e] = 0]
    /\ UNCHANGED <<link, written, buffers, stream, delivered, shut, tx, rx, woken>>

LinkDies ==
    /\ link
    /\ link' = FALSE
    /\ UNCHANGED <<apps, unread, buffers, stream, delivered, socket, shut, tx, rx, woken>>

-----------------------------------------------------------------------------
(* The operations on a QUIC stream (external: quinn).                      *)

\* RESET_STREAM: what the peer has not read is discarded.
Reset(s) == [held |-> 0, fin |-> "reset", stopped |-> s.stopped]

\* The receiving half is dropped: STOP_SENDING unless the stream was read to
\* its end.
Dropped(s) ==
    [s EXCEPT !.stopped = @ \/ s.fin # "fin" \/ s.held > 0]

\* abort.notify_waiters() at end e.
Notified(e) ==
    [woken EXCEPT ![e] = (IF tx[e] = "copying" THEN {"tx"} ELSE {})
                         \cup (IF rx[e] = "copying" THEN {"rx"} ELSE {})]

-----------------------------------------------------------------------------
(* tunnel_tcp_stream: the copy from TCP to QUIC.                           *)

TxStart(e) ==
    /\ tx[e] = "new"
    /\ tx' = [tx EXCEPT ![e] = "copying"]
    /\ UNCHANGED <<link, apps, unread, buffers, stream, delivered, socket, shut, rx, woken>>

TxPolled(e) == tx[e] = "copying" /\ "tx" \notin woken[e]

TxReads(e) ==
    /\ TxPolled(e)
    /\ tcp_recv[e] = 0
    /\ unread[e] > 0
    /\ unread' = [unread EXCEPT ![e] = @ - 1]
    /\ tcp_recv' = [tcp_recv EXCEPT ![e] = 1]
    /\ UNCHANGED <<link, apps, stream, quic_recv, delivered, socket, shut, tx, rx, woken>>

TxWrites(e) ==
    /\ TxPolled(e)
    /\ tcp_recv[e] = 1
    /\ link /\ ~ stream[e].stopped
    /\ stream[e].held < Window
    /\ tcp_recv' = [tcp_recv EXCEPT ![e] = 0]
    /\ stream' = [stream EXCEPT ![e].held = @ + 1]
    /\ UNCHANGED <<link, apps, unread, quic_recv, delivered, socket, shut, tx, rx, woken>>

\* Fault: end-of-stream is handed on before the buffered bytes.
TxEofEarly(e) ==
    /\ TxPolled(e)
    /\ app[e] = "fin"
    /\ tx' = [tx EXCEPT ![e] = "eof"]
    /\ stream' = [stream EXCEPT ![e].fin = "fin"]
    /\ UNCHANGED <<link, apps, unread, buffers, delivered, socket, shut, rx, woken>>

\* Fault: a graceful end wakes the other copy as a failure does (try_join!).
TxEofCancels(e) ==
    /\ TxPolled(e)
    /\ app[e] = "fin"
    /\ unread[e] = 0 /\ tcp_recv[e] = 0
    /\ tx' = [tx EXCEPT ![e] = "eof"]
    /\ stream' = [stream EXCEPT ![e].fin = "fin"]
    /\ woken' = Notified(e)
    /\ UNCHANGED <<link, apps, unread, buffers, delivered, socket, shut, rx>>

\* copy_buf returns Ok: the end of the application's data becomes a FIN.
TxEof(e) ==
    /\ TxPolled(e)
    /\ app[e] = "fin"
    /\ unread[e] = 0 /\ tcp_recv[e] = 0
    /\ tx' = [tx EXCEPT ![e] = "eof"]
    /\ stream' = [stream EXCEPT ![e].fin = "fin"]
    /\ UNCHANGED <<link, apps, unread, buffers, delivered, socket, shut, rx, woken>>

\* copy_buf fails: it reads from a socket that is reset, or writes to a stream that
\* is stopped or has lost its connection.  The stream is reset and the other copy
\* woken.
TxErrors(e) ==
    /\ TxPolled(e)
    /\ \/ tcp_recv[e] = 0 /\ app[e] = "rst"
       \/ tcp_recv[e] = 1 /\ (stream[e].stopped \/ ~ link)
    /\ tx' = [tx EXCEPT ![e] = "errored"]
    /\ stream' = [stream EXCEPT ![e] = Reset(@)]
    /\ woken' = Notified(e)
    /\ UNCHANGED <<link, apps, unread, buffers, delivered, socket, shut, rx>>

\* Fault: the stream is dropped without a reset, which finishes it.
TxAbortsFinishing(e) ==
    /\ tx[e] = "copying"
    /\ "tx" \in woken[e]
    /\ tx' = [tx EXCEPT ![e] = "aborted"]
    /\ stream' = [stream EXCEPT ![e].fin = "fin"]
    /\ UNCHANGED <<link, apps, unread, buffers, delivered, socket, shut, rx, woken>>

TxAborts(e) ==
    /\ tx[e] = "copying"
    /\ "tx" \in woken[e]
    /\ tx' = [tx EXCEPT ![e] = "aborted"]
    /\ stream' = [stream EXCEPT ![e] = Reset(@)]
    /\ UNCHANGED <<link, apps, unread, buffers, delivered, socket, shut, rx, woken>>

-----------------------------------------------------------------------------
(* tunnel_tcp_stream: the copy from QUIC to TCP.                           *)

\* join! polls tx first: rx starts waiting after the first poll of tx.
RxStart(e) ==
    /\ tx[e] # "new"
    /\ rx[e] = "new"
    /\ rx' = [rx EXCEPT ![e] = "copying"]
    /\ UNCHANGED <<link, apps, unread, buffers, stream, delivered, socket, shut, tx, woken>>

RxPolled(e) == rx[e] = "copying" /\ "rx" \notin woken[e]

\* What has arrived can be read even when the connection is lost.
RxReads(e) ==
    /\ RxPolled(e)
    /\ quic_recv[e] = 0
    /\ stream[Peer(e)].held > 0
    /\ stream' = [stream EXCEPT ![Peer(e)].held = @ - 1]
    /\ quic_recv' = [quic_recv EXCEPT ![e] = 1]
    /\ UNCHANGED <<link, apps, unread, tcp_recv, delivered, socket, shut, tx, rx, woken>>

RxWrites(e) ==
    /\ RxPolled(e)
    /\ quic_recv[e] = 1
    /\ app[e] # "rst"
    /\ socket[e] < SocketBuffer
    /\ quic_recv' = [quic_recv EXCEPT ![e] = 0]
    /\ delivered' = [delivered EXCEPT ![e] = @ + 1]
    /\ socket' = [socket EXCEPT ![e] = @ + 1]
    /\ UNCHANGED <<link, apps, unread, tcp_recv, stream, shut, tx, rx, woken>>

RxEof(e) ==
    /\ RxPolled(e)
    /\ quic_recv[e] = 0
    /\ stream[Peer(e)].fin = "fin"
    /\ stream[Peer(e)].held = 0
    /\ rx' = [rx EXCEPT ![e] = "eof"]
    /\ shut' = [shut EXCEPT ![e] = TRUE]
    /\ UNCHANGED <<link, apps, unread, buffers, stream, delivered, socket, tx, woken>>

\* copy_buf fails: it reads from a stream that was reset or has lost its connection,
\* or writes to an application that is gone.
RxErrors(e) ==
    /\ RxPolled(e)
    /\ \/ quic_recv[e] = 0 /\ (~ link \/ stream[Peer(e)].fin = "reset")
       \/ quic_recv[e] = 1 /\ app[e] = "rst"
    /\ rx' = [rx EXCEPT ![e] = "errored"]
    /\ shut' = [shut EXCEPT ![e] = TRUE]
    /\ stream' = [stream EXCEPT ![Peer(e)] = Dropped(@)]
    /\ woken' = Notified(e)
    /\ UNCHANGED <<link, apps, unread, buffers, delivered, socket, tx>>

RxAborts(e) ==
    /\ rx[e] = "copying"
    /\ "rx" \in woken[e]
    /\ rx' = [rx EXCEPT ![e] = "aborted"]
    /\ shut' = [shut EXCEPT ![e] = TRUE]
    /\ stream' = [stream EXCEPT ![Peer(e)] = Dropped(@)]
    /\ UNCHANGED <<link, apps, unread, buffers, delivered, socket, tx, woken>>

-----------------------------------------------------------------------------

Tx(e) ==
    TxStart(e) \/ TxReads(e) \/ TxWrites(e) \/ TxEof(e) \/ TxErrors(e) \/ TxAborts(e)

Rx(e) ==
    RxStart(e) \/ RxReads(e) \/ RxWrites(e) \/ RxEof(e) \/ RxErrors(e) \/ RxAborts(e)

App(e) == AppWrites(e) \/ AppReads(e) \/ AppHalfCloses(e) \/ AppResets(e)

\* tokio::join! has returned at both ends.
Closed == \A e \in Ends : tx[e] \in Finished /\ rx[e] \in Finished

Next ==
    \/ \E e \in Ends : Tx(e) \/ Rx(e) \/ App(e)
    \/ LinkDies
    \/ Closed /\ UNCHANGED vars

Spec == Init /\ [][Next]_vars

\* The runtime polls a task that can proceed; applications and the network owe
\* nothing.
Fairness == \A e \in Ends : WF_vars(Tx(e)) /\ WF_vars(Rx(e))

FairSpec == Spec /\ Fairness

-----------------------------------------------------------------------------
(* Properties.                                                             *)

\* An application that is told of end-of-stream by a clean end of the copy has
\* been given every byte the other one wrote (CopyOutcome::Eof, shutdown).
EofMeansComplete ==
    \A e \in Ends : rx[e] = "eof" => delivered[e] = written[Peer(e)]

\* The end of one direction never cuts the other short: a copy is aborted only
\* beside one that failed at the same end ("tokio::join! (not try_join!) so that
\* a graceful close in one direction ... doesn't cancel buffered bytes still
\* draining in the other direction").
AbortNeedsError ==
    \A e \in Ends : /\ tx[e] = "aborted" => rx[e] = "errored"
                    /\ rx[e] = "aborted" => tx[e] = "errored"

\* Without a reset and with the connection up, nothing fails and nothing is lost:
\* when both ends have closed, both applications have all the bytes.
QuietIsLossless ==
    link /\ (\A e \in Ends : app[e] # "rst") =>
        \A e \in Ends :
            /\ tx[e] \notin {"errored", "aborted"}
            /\ rx[e] \notin {"errored", "aborted"}
            /\ written[e] = unread[e] + tcp_recv[e] + stream[e].held
                              + quic_recv[Peer(e)] + delivered[Peer(e)]

Errored(e) == tx[e] = "errored" \/ rx[e] = "errored"

\* rx waits to write to an application that does not read: only the application, or a
\* failure of tx beside it, can end the wait.
Stuck(e) ==
    /\ RxPolled(e)
    /\ quic_recv[e] = 1 /\ socket[e] = SocketBuffer
    /\ app[e] # "rst"

\* A failure at an end that has not sent its FIN ends the other copy there, even when
\* notify_waiters() comes before that copy waits, and the relay at the peer too,
\* whatever the applications do, as long as none of them leaves bytes unread for ever
\* ("it resets its QUIC send half (so the peer's recv errors immediately)": not while
\* that recv waits to write to its application).
ErrorReachesPeer ==
    \A e \in Ends :
        (Errored(e) /\ tx[e] # "eof" ~> Closed) \/ \E d \in Ends : <>[]Stuck(d)
=============================================================================
