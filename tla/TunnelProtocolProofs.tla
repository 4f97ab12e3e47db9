------------------------- MODULE TunnelProtocolProofs -------------------------
(***************************************************************************)
(* Proofs about TunnelProtocol, for any remotes, conns, sessions, restarts *)
(* and ids taken by other clients.                                         *)
(***************************************************************************)
EXTENDS TunnelProtocol, Integers, TLAPS

Row(n, s, i) == [id |-> n, session |-> s, tunnel |-> i]

Given(s) == reply[s] \notin {NoReply, Failed}

-----------------------------------------------------------------------------
(* The inductive invariant.                                                *)

\* Sessions to come have not begun.
Unstarted ==
    \A s \in Sessions : cur < s => place[s].client = "none" /\ place[s].server = "none"

\* An end that is over has let go of the connection.
Left ==
    \A s \in Sessions, e \in Ends : place[s][e] = "over" => e \notin alive[s]

\* Ids are given out once the batch was allowed and registered.
Granted ==
    \A s \in Sessions : Given(s) \/ place[s].client = "serving" =>
        Allowed /\ place[s].server \in {"serving", "over"}

Told == \A s \in Sessions : place[s].client = "serving" => known[s] \in Ids

\* The rows of the registry belong to sessions the server serves, with ids used once.
Rows ==
    /\ \A r \in registry : place[r.session].server = "serving" /\ r.id < nextId
    /\ \A q, r \in registry :
        q.id = r.id \/ (q.session = r.session /\ q.tunnel = r.tunnel) => q = r

\* Every remote of a session the server serves has a row, with the id on its way to
\* the client or known there.
Registered ==
    \A s \in Sessions, i \in Tunnels : place[s].server = "serving" =>
        /\ \E r \in registry : r.session = s /\ r.tunnel = i
        /\ Given(s) => Row(reply[s][i], s, i) \in registry
        /\ place[s].client = "serving" => Row(known[s][i], s, i) \in registry

\* A listener has been started by the session it serves.
Listening ==
    \A i \in Tunnels : port[i] # 0 =>
        IF Entry(i) = "client"
        THEN place[port[i]].client \in {"serving", "over"} /\ known[port[i]] \in Ids
        ELSE place[port[i]].server = "serving"

SInv == Unstarted /\ Left /\ Granted /\ Told /\ Rows /\ Registered /\ Listening

\* An OpenConn names its tunnel by the id of its session, and its target exactly if
\* the tunnel declares none.
AskedRight(c) ==
    LET s == conns[c].session
        i == conns[c].tunnel
    IN  /\ s \in Sessions /\ i \in Tunnels
        /\ conns[c].wants \in Wants(i)
        /\ conns[c].dynamic = (IF Remotes[i].kind = "socks" THEN conns[c].wants ELSE Nowhere)
        /\ conns[c].dialed = Nowhere
        /\ IF Entry(i) = "client"
           THEN place[s].client \in {"serving", "over"} /\ conns[c].id = known[s][i]
           ELSE /\ place[s].server \in {"serving", "over"}
                /\ place[s].server = "serving" => Row(conns[c].id, s, i) \in registry

CInv ==
    \A c \in Conns :
        /\ conns[c].stage = "new" => conns[c] = NoConn
        /\ conns[c].stage = "asked" => AskedRight(c)
        /\ conns[c].stage # "refused"

IInv == ProtocolTypeOK /\ SInv /\ CInv

-----------------------------------------------------------------------------
(* Constants.                                                              *)

LEMMA TunnelsAreNumbers == Len(Remotes) \in Nat /\ Tunnels = 1 .. Len(Remotes)
BY ProtocolAssumption DEF Tunnels

LEMMA EntryOf ==
    ASSUME NEW i \in Tunnels
    PROVE  /\ Entry(i) \in Ends /\ Other(Entry(i)) \in Ends
           /\ Entry(i) = "client" => Remotes[i].dir = "forward" /\ Other(Entry(i)) = "server"
           /\ Entry(i) # "client" => /\ Entry(i) = "server" /\ Remotes[i].dir = "reverse"
                                     /\ Other(Entry(i)) = "client"
<1>1. Other("client") = "server" /\ Other("server") = "client"
  BY DEF Other, Ends
<1> QED
  BY <1>1, ProtocolAssumption DEF Entry, Ends

LEMMA TargetsExist ==
    ASSUME NEW i \in Tunnels
    PROVE  Nowhere \notin Wants(i) /\ Wants(i) \subseteq Targets
BY ProtocolAssumption DEF Wants, Targets

\* The records of conns.
ConnType ==
    [stage : {"new", "asked", "refused", "dialed", "closed"},
     session : {0} \cup Sessions, tunnel : {0} \cup Tunnels, id : Nat,
     wants : {Nowhere} \cup Targets, dynamic : {Nowhere} \cup Dynamic,
     dialed : {Nowhere} \cup Targets]

LEMMA ClosedIsConn ==
    /\ Closed \in ConnType
    /\ Closed.stage = "closed" /\ Closed.wants = Nowhere /\ Closed.dialed = Nowhere
BY DEF Closed, NoConn, ConnType

\* A step that leaves the conns and the rows alone, and what a session has come to
\* know, says nothing new of the conns.
LEMMA ConnsFrame ==
    ASSUME CInv, UNCHANGED <<conns, registry>>,
           \A s \in Sessions :
              /\ place[s].client \in {"serving", "over"}
                    => place'[s].client \in {"serving", "over"} /\ known'[s] = known[s]
              /\ place[s].server \in {"serving", "over"} => place'[s].server = place[s].server
    PROVE  CInv'
<1> SUFFICES ASSUME NEW c \in Conns
             PROVE  /\ conns[c].stage = "new" => conns[c] = NoConn
                    /\ conns[c].stage = "asked" => AskedRight(c)'
                    /\ conns[c].stage # "refused"
  BY DEF CInv, NoConn
<1>1. /\ conns[c].stage = "new" => conns[c] = NoConn
      /\ conns[c].stage = "asked" => AskedRight(c)
      /\ conns[c].stage # "refused"
  BY DEF CInv
<1>2. AskedRight(c) => AskedRight(c)'
  BY DEF AskedRight, Wants, Entry, Row
<1> QED
  BY <1>1, <1>2

LEMMA InitEstablishes == ProtocolInit => IInv
<1> SUFFICES ASSUME ProtocolInit PROVE IInv
  OBVIOUS
<1>1. ProtocolTypeOK
  BY ProtocolAssumption
  DEF ProtocolInit, ProtocolTypeOK, Sessions, Places, NoConn, Policies
<1>2. SInv
  BY ProtocolAssumption
  DEF ProtocolInit, SInv, Unstarted, Left, Granted, Told, Rows, Registered, Listening,
      Given, Ends, Sessions
<1>3. CInv
  BY DEF ProtocolInit, CInv, NoConn
<1> QED
  BY <1>1, <1>2, <1>3 DEF IInv
-----------------------------------------------------------------------------
(* What the listeners, the conns and the link leave alone.                 *)

LEMMA SessionsKept ==
    ASSUME SInv, UNCHANGED <<cur, place, policy, reply, known, registry, nextId>>
    PROVE  (Unstarted /\ Granted /\ Told /\ Rows /\ Registered)'
<1>1. (Unstarted /\ Told)'
  BY DEF SInv, Unstarted, Told
<1>2. Granted'
  BY DEF SInv, Granted, Given, Allowed
<1>3. Rows'
  BY DEF SInv, Rows
<1>4. Registered'
  BY DEF SInv, Registered, Given
<1> QED
  BY <1>1, <1>2, <1>3, <1>4

LEMMA ConnsKept ==
    ASSUME CInv, UNCHANGED <<conns, place, known, registry>>
    PROVE  CInv'
BY DEF CInv, AskedRight

-----------------------------------------------------------------------------
(* The link.                                                               *)

\* The invariant does not say which sessions are cut.
LEMMA CutPreserves ==
    ASSUME IInv, NEW s \in Sessions, Cut(s)
    PROVE  IInv'
<1> USE DEF IInv, SInv, Cut, hello, server, listeners
<1>1. ProtocolTypeOK'
  BY DEF ProtocolTypeOK
<1>2. (Left /\ Listening)'
  BY DEF Left, Listening
<1> QED
  BY <1>1, <1>2, SessionsKept, ConnsKept

\* An end only ever lets go of a connection.
LEMMA NoticePreserves ==
    ASSUME IInv, NEW s \in Sessions, NEW e \in Ends, Notice(s, e)
    PROVE  IInv'
<1> USE DEF IInv, SInv, Notice, hello, server, listeners
<1>1. ProtocolTypeOK'
  BY DEF ProtocolTypeOK, LeftBy
<1>2. Left'
  BY DEF Left, LeftBy, ProtocolTypeOK
<1>3. Listening'
  BY DEF Listening
<1> QED
  BY <1>1, <1>2, <1>3, SessionsKept, ConnsKept

\* The session begun is one that had not begun: nothing refers to it.
LEMMA ConnectPreserves ==
    ASSUME IInv, Connect
    PROVE  IInv'
<1> USE DEF IInv, SInv
<1>0. /\ cur + 1 \in Sessions /\ cur < cur + 1
      /\ cur' = cur + 1
      /\ place[cur + 1].client = "none" /\ place[cur + 1].server = "none"
      /\ place'[cur + 1].client = "hello" /\ place'[cur + 1].server = "hello"
      /\ \A s \in Sessions : s # cur + 1 => place'[s] = place[s]
  <2>1. cur \in 0 .. MaxSessions /\ place \in [Sessions -> [Ends -> Places]]
    BY DEF ProtocolTypeOK
  <2>2. /\ cur < MaxSessions /\ cur' = cur + 1
        /\ place' = [place EXCEPT ![cur + 1] = [e \in Ends |-> "hello"]]
    BY DEF Connect
  <2>3. cur + 1 \in Sessions /\ cur < cur + 1
    BY <2>1, <2>2, ProtocolAssumption DEF Sessions
  <2>4. place[cur + 1].client = "none" /\ place[cur + 1].server = "none"
    BY <2>3 DEF Unstarted
  <2> QED
    BY <2>1, <2>2, <2>3, <2>4 DEF Ends
<1>1. ProtocolTypeOK'
  BY ProtocolAssumption DEF ProtocolTypeOK, Connect, hello, server, listeners, Sessions,
     Ends, Places
<1>2. Unstarted'
  BY DEF Unstarted, Sessions, ProtocolTypeOK, Connect
<1>3. Left'
  BY DEF Left, Ends, ProtocolTypeOK, Connect
<1>4. Granted'
  BY <1>0 DEF Granted, Given, Allowed, ProtocolTypeOK, Connect, hello
<1>5. Told'
  BY <1>0 DEF Told, ProtocolTypeOK, Connect, hello
<1>6. Rows'
  BY <1>0 DEF Rows, ProtocolTypeOK, Connect, server
<1>7. Registered'
  BY <1>0 DEF Registered, Given, Row, ProtocolTypeOK, Connect, hello, server
<1>8. Listening'
  BY <1>0 DEF Listening, ProtocolTypeOK, Connect, hello, listeners
<1>9. CInv'
  <2>1. UNCHANGED <<conns, registry, known>>
    BY DEF Connect, hello, server
  <2>2. \A s \in Sessions : s # cur + 1 => place'[s] = place[s]
    BY DEF Connect, ProtocolTypeOK
  <2> QED
    BY <1>0, <2>1, <2>2, ConnsFrame
<1> QED
  BY <1>1, <1>2, <1>3, <1>4, <1>5, <1>6, <1>7, <1>8, <1>9

-----------------------------------------------------------------------------
(* The server.                                                             *)

\* The ids of a batch start at n, are k apart and end before n + Len(Remotes) * k.
LEMMA Strides ==
    ASSUME NEW n \in Nat \ {0}, NEW k \in Nat \ {0}, NEW i \in Tunnels, NEW j \in Tunnels
    PROVE  /\ n + (i - 1) * k \in Nat \ {0}
           /\ n <= n + (i - 1) * k /\ n + (i - 1) * k < n + Len(Remotes) * k
           /\ n + (i - 1) * k = n + (j - 1) * k => i = j
<1> DEFINE len == Len(Remotes)
<1>1. i \in 1 .. len /\ j \in 1 .. len /\ len \in Nat
  BY TunnelsAreNumbers
<1> HIDE DEF len
<1>2. (i - 1) * k >= 0 /\ (i - 1) * k < len * k /\ (i - 1) * k \in Int /\ len * k \in Int
  BY <1>1
<1>3. (i < j => (i - 1) * k < (j - 1) * k) /\ (j < i => (j - 1) * k < (i - 1) * k)
  BY <1>1
<1>4. (j - 1) * k \in Int
  BY <1>1
<1>5. (i - 1) * k = (j - 1) * k => i = j
  BY <1>1, <1>2, <1>3, <1>4
<1> QED
  BY <1>2, <1>4, <1>5 DEF len

\* A rejected hello gives no ids, and its client was not serving.
LEMMA RejectsPreserves ==
    ASSUME IInv, NEW s \in Sessions, NEW answer \in {NoReply, Failed},
           place[s].server = "hello", Rejects(s, answer),
           UNCHANGED <<cur, cut, policy, known, restarts, listeners, conns>>
    PROVE  IInv'
<1> USE DEF IInv, SInv
<1>0. /\ place'[s].server = "over" /\ place'[s].client = place[s].client
      /\ \A t \in Sessions : t # s => place'[t] = place[t]
      /\ place[s].client # "serving"
  BY DEF ProtocolTypeOK, Rejects, Ends, Granted
<1>1. ProtocolTypeOK'
  BY DEF ProtocolTypeOK, Rejects, LeftBy, listeners, Ends, Places
<1>2. (Unstarted /\ Told /\ Rows)'
  BY <1>0 DEF Unstarted, Told, Rows, ProtocolTypeOK, Rejects, Sessions
<1>3. Left'
  BY DEF Left, ProtocolTypeOK, Rejects, LeftBy, Ends
<1>4. Granted'
  BY <1>0 DEF Granted, Given, Allowed, ProtocolTypeOK, Rejects
<1>5. Registered'
  BY <1>0 DEF Registered, Given, Row, ProtocolTypeOK, Rejects
<1>6. Listening'
  BY <1>0, ProtocolAssumption DEF Listening, ProtocolTypeOK, Sessions, listeners
<1>7. CInv'
  BY <1>0, ConnsFrame DEF Rejects
<1> QED
  BY <1>1, <1>2, <1>3, <1>4, <1>5, <1>6, <1>7

\* A batch that is registered gets ids no row has, one for each remote.
LEMMA RegistersPreserves ==
    ASSUME IInv, NEW s \in Sessions, place[s].server = "hello", Allowed, Registers(s),
           UNCHANGED <<cur, cut, policy, known, restarts, listeners, conns>>
    PROVE  IInv'
<1> USE DEF IInv, SInv
<1> DEFINE id(i) == nextId + (i - 1) * (policy.crowd + 1)
           new == {Row(id(i), s, i) : i \in Tunnels}
<1>0. /\ place'[s].server = "serving" /\ place'[s].client = place[s].client
      /\ \A t \in Sessions : t # s => place'[t] = place[t]
      /\ place[s].client # "serving"
  BY DEF ProtocolTypeOK, Registers, Ends, Granted
<1>a. /\ nextId \in Nat \ {0} /\ policy.crowd + 1 \in Nat \ {0}
      /\ nextId' = nextId + Len(Remotes) * (policy.crowd + 1)
  BY ProtocolAssumption DEF ProtocolTypeOK, Policies, Registers
<1>b. \A i, j \in Tunnels : /\ id(i) \in Nat \ {0} /\ nextId <= id(i) /\ id(i) < nextId'
                            /\ id(i) = id(j) => i = j
  BY <1>a, Strides
<1>c. nextId' \in Nat \ {0} /\ nextId <= nextId'
  <2> DEFINE k == policy.crowd + 1
  <2>1. Len(Remotes) * k \in Nat
    BY <1>a, TunnelsAreNumbers
  <2> HIDE DEF k
  <2> QED
    BY <1>a, <2>1 DEF k
<1>d. reply'[s] = [i \in Tunnels |-> id(i)] /\ \A t \in Sessions : t # s => reply'[t] = reply[t]
  BY DEF ProtocolTypeOK, Registers
<1> HIDE DEF id
<1>e. registry' = registry \cup new
  BY <1>d DEF Registers, Row
<1>f. \A r \in registry : r.session # s /\ r.id < nextId /\ r.id \in Nat
  BY DEF Rows, ProtocolTypeOK
<1>g. reply' \in [Sessions -> {NoReply, Failed} \cup Ids]
  BY <1>b, <1>d DEF Registers, ProtocolTypeOK, Ids
<1>h. new \subseteq [id : Nat, session : Sessions, tunnel : Tunnels]
  BY <1>b DEF Row
<1>1. ProtocolTypeOK'
  <2>1. place' \in [Sessions -> [Ends -> Places]]
    BY DEF ProtocolTypeOK, Registers, Ends, Places
  <2> QED
    BY <1>c, <1>e, <1>g, <1>h, <2>1 DEF ProtocolTypeOK, Registers, listeners
<1>2. (Unstarted /\ Told /\ Left)'
  BY <1>0 DEF Unstarted, Told, Left, ProtocolTypeOK, Registers, Sessions, Ends
<1>3. Granted'
  BY <1>0, <1>d DEF Granted, Given, Allowed
<1>4. Rows'
  <2>1. \A r \in registry' : place'[r.session].server = "serving" /\ r.id < nextId'
    <3>1. ASSUME NEW r \in registry PROVE place'[r.session].server = "serving" /\ r.id < nextId'
      BY <1>0, <1>a, <1>c, <1>f DEF Rows, ProtocolTypeOK
    <3> QED
      BY <1>0, <1>b, <1>e, <3>1 DEF Row
  <2>2. \A q, r \in new : q.id = r.id \/ (q.session = r.session /\ q.tunnel = r.tunnel) => q = r
    BY <1>b DEF Row
  <2>3. \A q \in registry, r \in new : q.id # r.id /\ q.session # r.session
    BY <1>a, <1>b, <1>f DEF Row
  <2> QED
    BY <1>e, <2>1, <2>2, <2>3 DEF Rows
<1>5. Registered'
  <2> SUFFICES ASSUME NEW t \in Sessions, NEW i \in Tunnels, place'[t].server = "serving"
               PROVE  /\ \E r \in registry' : r.session = t /\ r.tunnel = i
                      /\ Given(t)' => Row(reply'[t][i], t, i) \in registry'
                      /\ place'[t].client = "serving" => Row(known'[t][i], t, i) \in registry'
    BY DEF Registered
  <2>1. CASE t = s
    <3>1. Row(reply'[s][i], s, i) \in registry'
      BY <1>d, <1>e
    <3> QED
      BY <1>0, <2>1, <3>1 DEF Row
  <2>2. CASE t # s
    BY <1>0, <1>d, <1>e, <2>2 DEF Registered, Given
  <2> QED
    BY <2>1, <2>2
<1>6. Listening'
  BY <1>0, ProtocolAssumption DEF Listening, ProtocolTypeOK, Sessions, listeners
<1>7. CInv'
  BY <1>0, <1>e DEF CInv, AskedRight, NoConn
<1> QED
  BY <1>1, <1>2, <1>3, <1>4, <1>5, <1>6, <1>7

LEMMA ServerHelloPreserves ==
    ASSUME IInv, NEW s \in Sessions, ServerHello(s)
    PROVE  IInv'
BY RejectsPreserves, RegistersPreserves DEF ServerHello

\* The session's rows, reverse listeners and forward conns go with its server end.
LEMMA ServerEndsPreserves ==
    ASSUME IInv, NEW s \in Sessions, ServerEnds(s)
    PROVE  IInv'
<1> USE DEF IInv, SInv
<1>0. /\ place'[s].server = "over" /\ place'[s].client = place[s].client
      /\ \A t \in Sessions : t # s => place'[t] = place[t]
  BY DEF ProtocolTypeOK, ServerEnds, Ends
<1>a. conns' \in [Conns -> ConnType] /\ \A c \in Conns : conns'[c] \in {conns[c], Closed}
  BY ClosedIsConn DEF ProtocolTypeOK, ConnType, ServerEnds
<1>b. place' \in [Sessions -> [Ends -> Places]]
  BY DEF ProtocolTypeOK, ServerEnds, Ends, Places
<1>c. port' \in [Tunnels -> 0 .. MaxSessions]
  BY ProtocolAssumption DEF ProtocolTypeOK, ServerEnds
<1>d. registry' \subseteq [id : Nat, session : Sessions, tunnel : Tunnels]
  BY DEF ProtocolTypeOK, ServerEnds
<1>1. ProtocolTypeOK'
  BY <1>a, <1>b, <1>c, <1>d DEF ConnType, ProtocolTypeOK, ServerEnds, link, hello
<1>2. Unstarted'
  BY DEF Unstarted, Sessions, ProtocolTypeOK, ServerEnds, link
<1>3. Left'
  BY DEF Left, Ends, ProtocolTypeOK, ServerEnds, link, Holds
<1>4. Granted'
  BY <1>0 DEF Granted, Given, Allowed, ProtocolTypeOK, ServerEnds, hello
<1>5. Told'
  BY <1>0 DEF Told, ProtocolTypeOK, ServerEnds, hello
<1>6. Rows'
  BY <1>0 DEF Rows, ProtocolTypeOK, ServerEnds
<1>7. Registered'
  BY <1>0 DEF Registered, Given, Row, ProtocolTypeOK, ServerEnds, hello
<1>8. Listening'
  <2> SUFFICES ASSUME NEW i \in Tunnels, port'[i] # 0
               PROVE  IF Entry(i) = "client"
                      THEN place'[port[i]].client \in {"serving", "over"} /\ known[port[i]] \in Ids
                      ELSE place'[port[i]].server = "serving"
    BY DEF Listening, ServerEnds, hello
  <2>1. port[i] \in Sessions /\ (Entry(i) # "client" => port[i] # s)
    BY EntryOf, ProtocolAssumption DEF ServerEnds, ProtocolTypeOK, Sessions
  <2>2. port[i] # 0
    BY DEF ServerEnds
  <2> QED
    BY <1>0, <2>1, <2>2 DEF Listening
<1>9. CInv'
  <2> SUFFICES ASSUME NEW c \in Conns, conns'[c] = conns[c]
               PROVE  conns[c].stage = "asked" => AskedRight(c)'
    BY <1>a, ClosedIsConn DEF CInv, NoConn
  <2>1. known' = known /\ registry' = {t \in registry : t.session # s}
    BY DEF ServerEnds, hello
  <2> QED
    BY <1>0, <2>1 DEF CInv, AskedRight, Row
<1> QED
  BY <1>1, <1>2, <1>3, <1>4, <1>5, <1>6, <1>7, <1>8, <1>9

\* Every server end is over, and with it the rows, so that ids may be used again.
LEMMA RestartPreserves ==
    ASSUME IInv, Restart
    PROVE  IInv'
<1> USE DEF IInv, SInv
<1>0. \A s \in Sessions :
        /\ place'[s].client = place[s].client
        /\ place'[s].server = (IF place[s].server = "none" THEN "none" ELSE "over")
        /\ place'[s] \in [Ends -> Places]
  BY DEF ProtocolTypeOK, Restart, Ends, Places
<1>a. conns' \in [Conns -> ConnType] /\ \A c \in Conns : conns'[c] \in {conns[c], Closed}
  BY ClosedIsConn DEF ProtocolTypeOK, ConnType, Restart
<1>b. place' \in [Sessions -> [Ends -> Places]]
  BY <1>0 DEF Restart
<1>c. port' \in [Tunnels -> 0 .. MaxSessions]
  BY ProtocolAssumption DEF ProtocolTypeOK, Restart
<1>d. alive' \in [Sessions -> SUBSET Ends] /\ restarts' \in 0 .. MaxRestarts
  BY ProtocolAssumption DEF ProtocolTypeOK, Restart
<1>1. ProtocolTypeOK'
  BY <1>a, <1>b, <1>c, <1>d DEF ConnType, ProtocolTypeOK, Restart, hello
<1>2. Unstarted'
  <2>1. cur' = cur
    BY DEF Restart
  <2> QED
    BY <1>0, <2>1 DEF Unstarted
<1>3. Left'
  BY <1>0 DEF Left, Ends, ProtocolTypeOK, Restart
<1>4. Granted'
  <2>1. reply' = reply /\ policy' = policy
    BY DEF Restart, hello
  <2> QED
    BY <1>0, <2>1 DEF Granted, Given, Allowed
<1>5. Told'
  <2>1. known' = known
    BY DEF Restart, hello
  <2> QED
    BY <1>0, <2>1 DEF Told
<1>6. Rows'
  <2>1. registry' = {}
    BY DEF Restart
  <2> QED
    BY <2>1 DEF Rows
<1>7. Registered'
  <2>1. \A s \in Sessions : place'[s].server # "serving"
    BY <1>0
  <2> QED
    BY <2>1 DEF Registered
<1>8. Listening'
  <2> SUFFICES ASSUME NEW i \in Tunnels, port'[i] # 0
               PROVE  /\ Entry(i) = "client"
                      /\ place'[port'[i]].client \in {"serving", "over"}
                      /\ known'[port'[i]] \in Ids
    BY DEF Listening
  <2>1. Remotes[i].dir = "forward" /\ port'[i] = port[i] /\ port[i] # 0
    BY ProtocolAssumption DEF Restart
  <2>2. port[i] \in Sessions
    BY <2>1, ProtocolAssumption DEF ProtocolTypeOK, Sessions
  <2> QED
    BY <1>0, <2>1, <2>2, EntryOf DEF Listening, Restart, hello
<1>9. CInv'
  <2> SUFFICES ASSUME NEW c \in Conns, conns'[c] = conns[c], conns[c].stage = "asked"
               PROVE  AskedRight(c)'
    BY <1>a, ClosedIsConn DEF CInv, NoConn
  <2>1. AskedRight(c)
    BY DEF CInv
  <2>2. Entry(conns[c].tunnel) = "client"
    BY <2>1, ClosedIsConn, ProtocolAssumption DEF Restart, AskedRight, Entry
  <2>3. known' = known
    BY DEF Restart, hello
  <2> QED
    BY <1>0, <2>1, <2>2, <2>3 DEF AskedRight
<1> QED
  BY <1>1, <1>2, <1>3, <1>4, <1>5, <1>6, <1>7, <1>8, <1>9

-----------------------------------------------------------------------------
(* The client.                                                             *)

\* The client takes over the ids of the reply, which are those of the rows.
LEMMA HelloAnsweredPreserves ==
    ASSUME IInv, NEW s \in Sessions, HelloAnswered(s)
    PROVE  IInv'
<1> USE DEF IInv, SInv
<1>1. ProtocolTypeOK'
  BY ProtocolAssumption DEF ProtocolTypeOK, HelloAnswered, Holds, link, server,
     listeners, Sessions, Ends, Places
<1>2. Unstarted'
  BY DEF Unstarted, Sessions, ProtocolTypeOK, HelloAnswered, Holds, link
<1>3. Left'
  BY DEF Left, Ends, ProtocolTypeOK, HelloAnswered, Holds, link
<1>4. Granted'
  BY DEF Granted, Given, Allowed, ProtocolTypeOK, HelloAnswered, Holds
<1>5. Told'
  BY DEF Told, ProtocolTypeOK, HelloAnswered, Holds
<1>6. Rows'
  BY DEF Rows, ProtocolTypeOK, HelloAnswered, Holds, server
<1>7. Registered'
  BY DEF Registered, Given, Row, ProtocolTypeOK, HelloAnswered, Holds, server
<1>8. Listening'
  BY DEF Listening, ProtocolTypeOK, HelloAnswered, Holds, listeners
<1>9. CInv'
  <2>1. UNCHANGED <<conns, registry>>
    BY DEF HelloAnswered, server
  <2>2. /\ \A q \in Sessions \ {s} : place'[q] = place[q] /\ known'[q] = known[q]
        /\ place'[s].server = place[s].server /\ place[s].client = "hello"
    BY DEF HelloAnswered, ProtocolTypeOK
  <2> QED
    BY <2>1, <2>2, ConnsFrame
<1> QED
  BY <1>1, <1>2, <1>3, <1>4, <1>5, <1>6, <1>7, <1>8, <1>9

\* The client had not begun to serve.
LEMMA HelloFailsPreserves ==
    ASSUME IInv, NEW s \in Sessions, HelloFails(s)
    PROVE  IInv'
<1> USE DEF IInv, SInv
<1>1. ProtocolTypeOK'
  BY ProtocolAssumption DEF ProtocolTypeOK, HelloFails, LeftBy, server, listeners,
     Sessions, Ends, Places
<1>2. Unstarted'
  BY DEF Unstarted, Sessions, ProtocolTypeOK, HelloFails, LeftBy
<1>3. Left'
  BY DEF Left, Ends, ProtocolTypeOK, HelloFails, LeftBy
<1>4. Granted'
  BY DEF Granted, Given, Allowed, ProtocolTypeOK, HelloFails, LeftBy
<1>5. Told'
  BY DEF Told, ProtocolTypeOK, HelloFails, LeftBy
<1>6. Rows'
  BY DEF Rows, ProtocolTypeOK, HelloFails, LeftBy, server
<1>7. Registered'
  BY DEF Registered, Given, Row, ProtocolTypeOK, HelloFails, LeftBy, server
<1>8. Listening'
  BY DEF Listening, ProtocolTypeOK, HelloFails, LeftBy, listeners
<1>9. CInv'
  <2>1. UNCHANGED <<conns, registry, known>>
    BY DEF HelloFails, server
  <2>2. /\ \A q \in Sessions \ {s} : place'[q] = place[q]
        /\ place'[s].server = place[s].server /\ place'[s].client = "over"
    BY DEF HelloFails, ProtocolTypeOK
  <2> QED
    BY <2>1, <2>2, ConnsFrame
<1> QED
  BY <1>1, <1>2, <1>3, <1>4, <1>5, <1>6, <1>7, <1>8, <1>9

\* The client has let go of the connection.
LEMMA ClientEndsPreserves ==
    ASSUME IInv, NEW s \in Sessions, ClientEnds(s)
    PROVE  IInv'
<1> USE DEF IInv, SInv
<1>1. ProtocolTypeOK'
  BY ProtocolAssumption DEF ProtocolTypeOK, ClientEnds, link, hello, server, listeners,
     Sessions, Ends, Places
<1>2. Unstarted'
  BY DEF Unstarted, Sessions, ProtocolTypeOK, ClientEnds, link
<1>3. Left'
  BY DEF Left, Ends, ProtocolTypeOK, ClientEnds, link, Holds
<1>4. Granted'
  BY DEF Granted, Given, Allowed, ProtocolTypeOK, ClientEnds, hello
<1>5. Told'
  BY DEF Told, ProtocolTypeOK, ClientEnds, hello
<1>6. Rows'
  BY DEF Rows, ProtocolTypeOK, ClientEnds, server
<1>7. Registered'
  BY DEF Registered, Given, Row, ProtocolTypeOK, ClientEnds, hello, server
<1>8. Listening'
  BY DEF Listening, ProtocolTypeOK, ClientEnds, hello, listeners
<1>9. CInv'
  <2>1. UNCHANGED <<conns, registry, known>>
    BY DEF ClientEnds, hello, server
  <2>2. /\ \A q \in Sessions \ {s} : place'[q] = place[q]
        /\ place'[s].server = place[s].server /\ place'[s].client = "over"
    BY DEF ClientEnds, ProtocolTypeOK
  <2> QED
    BY <2>1, <2>2, ConnsFrame
<1> QED
  BY <1>1, <1>2, <1>3, <1>4, <1>5, <1>6, <1>7, <1>8, <1>9

-----------------------------------------------------------------------------
(* Listeners and conns.                                                    *)

\* The end that binds a port is serving the session.
LEMMA BindPreserves ==
    ASSUME IInv, NEW s \in Sessions, NEW i \in Tunnels, Bind(s, i)
    PROVE  IInv'
<1> USE DEF IInv, SInv
<1>1. ProtocolTypeOK'
  <2>1. tried \in [Sessions -> SUBSET Tunnels] /\ port \in [Tunnels -> 0 .. MaxSessions]
    BY DEF ProtocolTypeOK
  <2>2. s \in 0 .. MaxSessions
    BY ProtocolAssumption DEF Sessions
  <2>3. tried' \in [Sessions -> SUBSET Tunnels] /\ port' \in [Tunnels -> 0 .. MaxSessions]
    BY <2>1, <2>2 DEF Bind
  <2> QED
    BY <2>3 DEF ProtocolTypeOK, Bind, link, hello, server
<1>2. Listening'
  <2> SUFFICES ASSUME NEW j \in Tunnels, port'[j] # 0
               PROVE  IF Entry(j) = "client"
                      THEN place[port'[j]].client \in {"serving", "over"} /\ known[port'[j]] \in Ids
                      ELSE place[port'[j]].server = "serving"
    BY DEF Listening, Bind, hello
  <2>1. port'[j] = port[j] \/ (j = i /\ port'[j] = s)
    BY DEF Bind, ProtocolTypeOK
  <2>2. CASE j = i /\ port'[j] = s
    BY <2>2, EntryOf DEF Bind, Told
  <2> QED
    BY <2>1, <2>2 DEF Listening
<1>3. Left'
  BY DEF Left, Bind, link
<1> QED
  BY <1>1, <1>2, <1>3, SessionsKept, ConnsKept DEF Bind, link, hello, server

\* One listener less.
LEMMA ReleasePreserves ==
    ASSUME IInv, NEW i \in Tunnels, Release(i)
    PROVE  IInv'
<1> USE DEF IInv, SInv
<1>1. ProtocolTypeOK'
  <2>1. port' \in [Tunnels -> 0 .. MaxSessions]
    BY ProtocolAssumption DEF ProtocolTypeOK, Release
  <2> QED
    BY <2>1 DEF ProtocolTypeOK, Release, link, hello, server
<1>2. Listening'
  <2>1. known' = known /\ place' = place
    BY DEF Release, hello
  <2>2. \A j \in Tunnels : port'[j] # 0 => port'[j] = port[j]
    BY DEF Release, ProtocolTypeOK
  <2> QED
    BY <2>1, <2>2 DEF Listening
<1>3. Left'
  BY DEF Left, Release, link
<1> QED
  BY <1>1, <1>2, <1>3, SessionsKept, ConnsKept DEF Release, link, hello, server

\* The conns stay out of the invariant of the sessions.
LEMMA ConnsApart ==
    ASSUME IInv, UNCHANGED <<link, place, hello, server, listeners>>,
           conns' \in [Conns -> ConnType], CInv'
    PROVE  IInv'
<1> USE DEF link, hello, server, listeners
<1>1. ProtocolTypeOK'
  BY DEF IInv, ProtocolTypeOK, ConnType
<1>2. (Left /\ Listening)'
  BY DEF IInv, SInv, Left, Listening
<1> QED
  BY <1>1, <1>2, SessionsKept DEF IInv, SInv

\* A conn asks by the id its tunnel has in the session of the listener.
LEMMA AcceptPreserves ==
    ASSUME IInv, NEW c \in Conns, NEW i \in Tunnels, NEW t \in Targets, Accept(c, i, t)
    PROVE  IInv'
<1> USE DEF IInv, SInv
<1> DEFINE s == port[i]
           row == CHOOSE e \in registry : e.session = s /\ e.tunnel = i
           own == IF Entry(i) = "client" THEN known[s][i] ELSE row.id
           asked == [stage |-> "asked", session |-> s, tunnel |-> i, wants |-> t, id |-> own,
                     dynamic |-> IF Remotes[i].kind = "socks" THEN t ELSE Nowhere,
                     dialed |-> Nowhere]
<1>0. port[i] # 0 /\ t \in Wants(i)
  BY DEF Accept
<1>1. s \in Sessions
  <2>1. port[i] \in 0 .. MaxSessions
    BY DEF ProtocolTypeOK
  <2> QED
    BY <1>0, <2>1, ProtocolAssumption DEF Sessions
<1>2. Entry(i) # "client" => /\ place[s].server = "serving"
                             /\ row \in registry /\ row.session = s /\ row.tunnel = i
  <2>1. Entry(i) # "client" => place[s].server = "serving"
    BY <1>0 DEF Listening
  <2>2. place[s].server = "serving" => \E e \in registry : e.session = s /\ e.tunnel = i
    BY <1>1 DEF Registered
  <2>3. Entry(i) # "client" => \E e \in registry : e.session = s /\ e.tunnel = i
    BY <2>1, <2>2
  <2> QED
    BY <2>1, <2>3
<1>3. Entry(i) = "client" => place[s].client \in {"serving", "over"} /\ known[s] \in Ids
  BY <1>0 DEF Listening
<1>4. own \in Nat
  BY <1>2, <1>3 DEF Ids, ProtocolTypeOK
<1>5. Entry(i) # "client" => Row(own, s, i) \in registry
  BY <1>2 DEF ProtocolTypeOK, Row
<1>6. conns' = [conns EXCEPT ![c] = asked]
  BY DEF Accept
<1> HIDE DEF own, s
<1>7. asked \in ConnType
  BY <1>0, <1>1, <1>4 DEF ConnType, Wants
<1>8. conns' \in [Conns -> ConnType]
  <2>1. conns \in [Conns -> ConnType]
    BY DEF ProtocolTypeOK, ConnType
  <2> QED
    BY <1>6, <1>7, <2>1
<1>9. place' = place /\ known' = known /\ registry' = registry
  BY DEF Accept, hello, server
<1> HIDE DEF row
<1>10. ASSUME NEW d \in Conns
       PROVE  /\ conns'[d].stage = "new" => conns'[d] = NoConn
              /\ conns'[d].stage = "asked" => AskedRight(d)'
              /\ conns'[d].stage # "refused"
  <2>1. CASE d = c
    <3>1. conns'[c] = asked
      BY <1>6 DEF ProtocolTypeOK
    <3>2. Entry(i) = "client" => own = known[s][i]
      BY DEF own
    <3> DEFINE dynamic == IF Remotes[i].kind = "socks" THEN t ELSE Nowhere
    <3>3. /\ conns'[c].stage = "asked" /\ conns'[c].session = s /\ conns'[c].tunnel = i
          /\ conns'[c].wants = t /\ conns'[c].id = own /\ conns'[c].dialed = Nowhere
          /\ conns'[c].dynamic = dynamic
      BY <3>1
    <3>4. IF Entry(i) = "client"
          THEN place'[s].client \in {"serving", "over"} /\ own = known'[s][i]
          ELSE /\ place'[s].server \in {"serving", "over"}
               /\ place'[s].server = "serving" => Row(own, s, i) \in registry'
      BY <1>2, <1>3, <1>5, <1>9, <3>2
    <3>5. AskedRight(c)'
      BY <1>0, <1>1, <3>3, <3>4 DEF AskedRight
    <3> QED
      BY <2>1, <3>3, <3>5
  <2>2. CASE d # c
    <3>1. conns'[d] = conns[d]
      BY <1>6, <2>2 DEF ProtocolTypeOK
    <3> QED
      BY <1>9, <3>1 DEF CInv, AskedRight
  <2> QED
    BY <2>1, <2>2
<1> QED
  BY <1>8, <1>10, ConnsApart DEF CInv, Accept

\* The far end finds the tunnel of an OpenConn under its id, and nothing else.
LEMMA LooksUpOne ==
    ASSUME IInv, NEW c \in Conns, HandleOpenConn(c)
    PROVE  LET i == conns[c].tunnel
           IN  i \in Tunnels /\ Lookup(conns[c].session, Other(Entry(i)), conns[c].id) = {i}
<1> USE DEF IInv, SInv
<1> DEFINE s == conns[c].session
           i == conns[c].tunnel
<1>1. AskedRight(c) /\ Crosses(s) /\ place[s][Other(Entry(i))] = "serving"
  BY DEF HandleOpenConn, CInv
<1>2. s \in Sessions /\ i \in Tunnels
  BY <1>1 DEF AskedRight
<1>3. place[s].client # "over" /\ place[s].server # "over"
  BY <1>1, <1>2 DEF Left, Crosses, Ends
<1>4. CASE Entry(i) = "client"
  <2>1. Row(conns[c].id, s, i) \in registry
    BY <1>1, <1>2, <1>3, <1>4, EntryOf DEF AskedRight, Registered
  <2>2. {r.tunnel : r \in {u \in registry : u.id = conns[c].id}} = {i}
    <3>1. \A u \in registry : u.id = conns[c].id => u = Row(conns[c].id, s, i)
      BY <2>1 DEF Rows, Row
    <3>2. {u \in registry : u.id = conns[c].id} = {Row(conns[c].id, s, i)}
      BY <2>1, <3>1 DEF Row
    <3>3. Row(conns[c].id, s, i).tunnel = i
      BY DEF Row
    <3> QED
      BY <3>2, <3>3
  <2> QED
    BY <1>2, <1>4, <2>2, EntryOf DEF Lookup
<1>5. CASE Entry(i) # "client"
  <2>1. place[s].client = "serving" /\ place[s].server = "serving"
    BY <1>1, <1>2, <1>3, <1>5, EntryOf DEF AskedRight
  <2>2. Row(conns[c].id, s, i) \in registry /\ known[s] \in Ids
    BY <1>1, <1>2, <1>5, <2>1 DEF AskedRight, Told
  <2>3. \A j \in Tunnels : Row(known[s][j], s, j) \in registry
    BY <1>2, <2>1 DEF Registered
  <2>4. conns[c].id = known[s][i]
    BY <1>2, <2>2, <2>3 DEF Rows, Row
  <2>5. \A j \in Tunnels : known[s][j] = conns[c].id => j = i
    BY <2>2, <2>3 DEF Rows, Row
  <2>6. {j \in DOMAIN known[s] : known[s][j] = conns[c].id} = {i}
    BY <1>2, <2>2, <2>4, <2>5 DEF Ids
  <2> QED
    BY <1>2, <1>5, <2>6, EntryOf DEF Lookup
<1> QED
  BY <1>2, <1>4, <1>5

\* What is dialed is what the local peer asked for.
LEMMA DialsWanted ==
    ASSUME IInv, NEW c \in Conns, HandleOpenConn(c)
    PROVE  /\ conns[c].stage = "asked"
           /\ conns' = [conns EXCEPT ![c] =
                          [conns[c] EXCEPT !.stage = "dialed", !.dialed = conns[c].wants]]
<1> USE DEF IInv
<1> DEFINE s == conns[c].session
           i == conns[c].tunnel
           far == Other(Entry(i))
           found == {Dispatch(IF far = "server" THEN "forward" ELSE "reverse", j,
                              conns[c].dynamic) : j \in Lookup(s, far, conns[c].id)}
<1>1. AskedRight(c) /\ conns[c].stage = "asked"
  BY DEF HandleOpenConn, CInv
<1>2. i \in Tunnels /\ Lookup(s, far, conns[c].id) = {i}
  BY LooksUpOne
<1>3. Dispatch(IF far = "server" THEN "forward" ELSE "reverse", i, conns[c].dynamic)
        = conns[c].wants
  BY <1>1, <1>2, EntryOf DEF AskedRight, Dispatch, Wants
<1>4. conns[c].wants # Nowhere
  BY <1>1, <1>2, TargetsExist DEF AskedRight
<1>5. found = {conns[c].wants}
  <2> DEFINE dir == IF far = "server" THEN "forward" ELSE "reverse"
  <2>1. found = {Dispatch(dir, j, conns[c].dynamic) : j \in {i}}
    BY <1>2, Zenon
  <2>2. {Dispatch(dir, j, conns[c].dynamic) : j \in {i}} = {Dispatch(dir, i, conns[c].dynamic)}
    <3> HIDE DEF dir
    <3> QED
      OBVIOUS
  <2> QED
    BY <1>3, <2>1, <2>2, Zenon
<1>6. conns' = [conns EXCEPT ![c] =
                  IF found \ {Nowhere} = {} THEN [@ EXCEPT !.stage = "refused"]
                  ELSE [@ EXCEPT !.stage = "dialed", !.dialed = CHOOSE t \in found : t # Nowhere]]
  BY DEF HandleOpenConn
<1> HIDE DEF found
<1>7. found \ {Nowhere} # {} /\ (CHOOSE t \in found : t # Nowhere) = conns[c].wants
  BY <1>4, <1>5
<1> QED
  BY <1>1, <1>6, <1>7

\* A conn that is past asking says nothing more of its tunnel.
LEMMA Past ==
    ASSUME IInv, UNCHANGED <<link, place, hello, server, listeners>>,
           NEW c \in Conns, NEW v \in ConnType, v.stage \in {"dialed", "closed"},
           conns' = [conns EXCEPT ![c] = v]
    PROVE  IInv'
<1>1. conns' \in [Conns -> ConnType]
  BY DEF IInv, ProtocolTypeOK, ConnType
<1>2. ASSUME NEW d \in Conns
      PROVE  /\ conns'[d].stage = "new" => conns'[d] = NoConn
             /\ conns'[d].stage = "asked" => AskedRight(d)'
             /\ conns'[d].stage # "refused"
  <2>1. CASE d = c
    BY <2>1 DEF IInv, ProtocolTypeOK
  <2>2. CASE d # c
    BY <2>2 DEF IInv, CInv, AskedRight, ProtocolTypeOK, hello, server
  <2> QED
    BY <2>1, <2>2
<1> QED
  BY <1>1, <1>2, ConnsApart DEF CInv

LEMMA HandleOpenConnPreserves ==
    ASSUME IInv, NEW c \in Conns, HandleOpenConn(c)
    PROVE  IInv'
<1> DEFINE dialed == [conns[c] EXCEPT !.stage = "dialed", !.dialed = conns[c].wants]
<1>1. conns' = [conns EXCEPT ![c] = dialed]
  BY DialsWanted
<1>2. conns[c] \in ConnType
  BY DEF IInv, ProtocolTypeOK, ConnType
<1>3. dialed \in ConnType /\ dialed.stage = "dialed"
  BY <1>2 DEF ConnType
<1>4. UNCHANGED <<link, place, hello, server, listeners>>
  BY DEF HandleOpenConn
<1> HIDE DEF dialed
<1> QED
  BY <1>1, <1>3, <1>4, Past

LEMMA ConnEndsPreserves ==
    ASSUME IInv, NEW c \in Conns, ConnEnds(c)
    PROVE  IInv'
BY ClosedIsConn, Past DEF ConnEnds

-----------------------------------------------------------------------------

LEMMA StepPreserves == IInv /\ [ProtocolNext]_protocolVars => IInv'
<1> SUFFICES ASSUME IInv, [ProtocolNext]_protocolVars
             PROVE  IInv'
  OBVIOUS
<1>1. CASE UNCHANGED protocolVars
  <2>1. UNCHANGED <<link, place, hello, server, listeners, conns>>
    BY <1>1 DEF protocolVars
  <2>2. conns' \in [Conns -> ConnType] /\ CInv'
    BY <2>1 DEF IInv, ProtocolTypeOK, ConnType, CInv, AskedRight, Row, hello, server
  <2> QED
    BY <2>1, <2>2, ConnsApart
<1>2. CASE Connect \/ Restart \/ OutOfSessions
  BY <1>1, <1>2, ConnectPreserves, RestartPreserves DEF OutOfSessions
<1>3. ASSUME NEW s \in Sessions,
             \/ Cut(s) \/ ServerHello(s) \/ ServerEnds(s)
             \/ HelloAnswered(s) \/ HelloFails(s) \/ ClientEnds(s)
      PROVE  IInv'
  BY <1>3, CutPreserves, ServerHelloPreserves, ServerEndsPreserves,
     HelloAnsweredPreserves, HelloFailsPreserves, ClientEndsPreserves
<1>4. ASSUME NEW s \in Sessions, NEW e \in Ends, Notice(s, e)
      PROVE  IInv'
  BY <1>4, NoticePreserves
<1>5. ASSUME NEW s \in Sessions, NEW i \in Tunnels, Bind(s, i)
      PROVE  IInv'
  BY <1>5, BindPreserves
<1>6. ASSUME NEW i \in Tunnels, Release(i)
      PROVE  IInv'
  BY <1>6, ReleasePreserves
<1>7. ASSUME NEW c \in Conns, HandleOpenConn(c) \/ ConnEnds(c)
      PROVE  IInv'
  BY <1>7, HandleOpenConnPreserves, ConnEndsPreserves
<1>8. ASSUME NEW c \in Conns, NEW i \in Tunnels, NEW t \in Targets, Accept(c, i, t)
      PROVE  IInv'
  BY <1>8, AcceptPreserves
<1> QED
  BY <1>1, <1>2, <1>3, <1>4, <1>5, <1>6, <1>7, <1>8 DEF ProtocolNext

\* Sessions, restarts and the ids other clients take keep the invariant.
THEOREM Invariant == ProtocolSpec => []IInv
BY InitEstablishes, StepPreserves, PTL DEF ProtocolSpec

\* The state of both ends is well-typed; in particular an id is never 0 and a reply has
\* one for every remote.
THEOREM ProtocolTypeCorrect == ProtocolSpec => []ProtocolTypeOK
<1>1. IInv => ProtocolTypeOK
  BY DEF IInv
<1> QED
  BY <1>1, Invariant, PTL

\* A client serves only batches that are allowed as a whole, and by ids that name the
\* same tunnels at the server.
THEOREM SessionAgreedAlways == ProtocolSpec => []SessionAgreed
<1>1. IInv => SessionAgreed
  BY DEF IInv, SInv, Granted, Registered, Row, SessionAgreed
<1> QED
  BY <1>1, Invariant, PTL

\* No OpenConn is ever refused, for any remotes and any history of sessions.
THEOREM OpenConnNeverRefusedAlways == ProtocolSpec => []OpenConnNeverRefused
<1>1. IInv => OpenConnNeverRefused
  BY DEF IInv, CInv, OpenConnNeverRefused
<1> QED
  BY <1>1, Invariant, PTL

-----------------------------------------------------------------------------
(* The sessions implement the service.                                     *)

\* A conn as the service sees it.
Seen(v) == [stage |-> v.stage, wants |-> v.wants, dialed |-> v.dialed]

LEMMA ServedInit == ProtocolInit => Service!Init
BY DEF ProtocolInit, Service!Init, Served, NoConn

\* The end of a conn, of a session or of the server closes any number of conns, even
\* none, that asked or were dialed.
LEMMA Closes ==
    ASSUME IInv, IInv', NEW S \in SUBSET Conns,
           \A c \in S : conns[c].stage \in {"asked", "dialed"},
           conns' = [c \in Conns |-> IF c \in S THEN Closed ELSE conns[c]]
    PROVE  [Service!Next]_Served
<1>1. Served = [c \in Conns |-> Seen(conns[c])] /\ Served' = [c \in Conns |-> Seen(conns'[c])]
  BY DEF IInv, CInv, Served, Seen
<1>2. CASE S = {}
  BY <1>1, <1>2
<1>3. CASE S # {}
  <2>1. Seen(Closed) = [stage |-> "closed", wants |-> Nowhere, dialed |-> Nowhere]
    BY ClosedIsConn DEF Seen
  <2>2. \A c \in S : Served[c].stage \in {"asked", "dialed"}
    BY <1>1 DEF Seen
  <2>3. Served' = [c \in Conns |-> IF c \in S THEN Seen(Closed) ELSE Served[c]]
    BY <1>1
  <2>4. Service!Close(S)
    BY <1>3, <2>1, <2>2, <2>3 DEF Service!Close
  <2> QED
    BY <2>4 DEF Service!Next
<1> QED
  BY <1>2, <1>3

\* Every step of the sessions is a step of the service, or none.
LEMMA ServedStep ==
    IInv /\ IInv' /\ [ProtocolNext]_protocolVars => [Service!Next]_Served
<1> SUFFICES ASSUME IInv, IInv', [ProtocolNext]_protocolVars
             PROVE  [Service!Next]_Served
  OBVIOUS
<1>0. /\ Served = [c \in Conns |-> Seen(conns[c])]
      /\ Served' = [c \in Conns |-> Seen(conns'[c])]
  BY DEF IInv, CInv, Served, Seen
<1>1. CASE UNCHANGED conns
  BY <1>1 DEF Served
<1>2. CASE Connect \/ OutOfSessions
  BY <1>1, <1>2 DEF Connect, OutOfSessions, protocolVars
<1>3. CASE Restart
  <2> DEFINE S == {c \in Conns :
                     \/ conns[c].stage = "dialed"
                     \/ conns[c].stage = "asked" /\ Remotes[conns[c].tunnel].dir = "reverse"}
  <2>1. conns' = [c \in Conns |-> IF c \in S THEN Closed ELSE conns[c]]
    BY <1>3 DEF Restart
  <2>2. \A c \in S : conns[c].stage \in {"asked", "dialed"}
    OBVIOUS
  <2> HIDE DEF S
  <2>3. S \in SUBSET Conns
    BY DEF S
  <2> QED
    BY <2>1, <2>2, <2>3, Closes
<1>4. ASSUME NEW s \in Sessions, ServerEnds(s)
      PROVE  [Service!Next]_Served
  <2> DEFINE S == {c \in Conns : /\ conns[c].session = s
                                /\ conns[c].stage = "dialed"
                                /\ Remotes[conns[c].tunnel].dir = "forward"}
  <2>1. conns' = [c \in Conns |-> IF c \in S THEN Closed ELSE conns[c]]
    BY <1>4 DEF ServerEnds
  <2>2. \A c \in S : conns[c].stage \in {"asked", "dialed"}
    OBVIOUS
  <2> HIDE DEF S
  <2>3. S \in SUBSET Conns
    BY DEF S
  <2> QED
    BY <2>1, <2>2, <2>3, Closes
<1>5. ASSUME NEW s \in Sessions,
             \/ Cut(s) \/ ServerHello(s)
             \/ HelloAnswered(s) \/ HelloFails(s) \/ ClientEnds(s)
             \/ \E e \in Ends : Notice(s, e)
             \/ \E i \in Tunnels : Bind(s, i)
      PROVE  [Service!Next]_Served
  BY <1>1, <1>5 DEF Cut, ServerHello, HelloAnswered, HelloFails, ClientEnds, Notice, Bind
<1>6. ASSUME NEW i \in Tunnels, Release(i)
      PROVE  [Service!Next]_Served
  BY <1>1, <1>6 DEF Release
<1>7. ASSUME NEW c \in Conns, HandleOpenConn(c)
      PROVE  [Service!Next]_Served
  <2> DEFINE v == [conns[c] EXCEPT !.stage = "dialed", !.dialed = conns[c].wants]
  <2>1. conns[c].stage = "asked" /\ conns' = [conns EXCEPT ![c] = v]
    BY <1>7, DialsWanted
  <2>2. Seen(v) = [stage |-> "dialed", wants |-> conns[c].wants, dialed |-> conns[c].wants]
    BY DEF Seen, IInv, ProtocolTypeOK
  <2> HIDE DEF v
  <2>3. Served' = [Served EXCEPT ![c] = Seen(v)]
    BY <1>0, <2>1 DEF IInv, ProtocolTypeOK
  <2>4. Served[c] = [stage |-> "asked", wants |-> conns[c].wants, dialed |-> conns[c].dialed]
    BY <1>0, <2>1 DEF Seen
  <2>a. Served = [d \in Conns |-> Served[d]]
    BY <1>0
  <2>5. [Served EXCEPT ![c].stage = "dialed", ![c].dialed = conns[c].wants] = [Served EXCEPT ![c] = Seen(v)]
    <3> DEFINE f == [Served EXCEPT ![c].stage = "dialed"]
               g == [f EXCEPT ![c].dialed = conns[c].wants]
    <3>1. f = [d \in Conns |-> IF d = c THEN [stage |-> "dialed", wants |-> conns[c].wants, dialed |-> conns[c].dialed]
                                        ELSE Served[d]]
      BY <2>a, <2>4
    <3> HIDE DEF f
    <3>2. g = [d \in Conns |-> IF d = c THEN [stage |-> "dialed", wants |-> conns[c].wants, dialed |-> conns[c].wants]
                                        ELSE Served[d]]
      BY <3>1
    <3> HIDE DEF g
    <3>3. g = [d \in Conns |-> IF d = c THEN Seen(v) ELSE Served[d]]
      BY <2>2, <3>2
    <3>4. g = [Served EXCEPT ![c] = Seen(v)]
      BY <2>a, <3>3
    <3> QED
      BY <3>4 DEF f, g
  <2>6. Served[c].stage = "asked" /\ Served[c].wants = conns[c].wants
    <3> DEFINE r == [stage |-> "asked", wants |-> conns[c].wants, dialed |-> conns[c].dialed]
    <3>1. r.stage = "asked" /\ r.wants = conns[c].wants
      OBVIOUS
    <3> QED
      BY <2>4, <3>1, Zenon
  <2>7. Served' = [Served EXCEPT ![c].stage = "dialed", ![c].dialed = Served[c].wants]
    BY <2>3, <2>5, <2>6, Zenon
  <2>8. Service!Dial(c)
    BY <2>6, <2>7, Zenon DEF Service!Dial
  <2> QED
    BY <2>8 DEF Service!Next
<1>8. ASSUME NEW c \in Conns, ConnEnds(c)
      PROVE  [Service!Next]_Served
  <2>1. conns[c].stage \in {"asked", "dialed"}
    BY <1>8 DEF ConnEnds, IInv, CInv
  <2>2. conns' = [d \in Conns |-> IF d \in {c} THEN Closed ELSE conns[d]]
    BY <1>8 DEF ConnEnds, IInv, ProtocolTypeOK
  <2> QED
    BY <2>1, <2>2, Closes
<1>9. ASSUME NEW c \in Conns, NEW i \in Tunnels, NEW t \in Targets, Accept(c, i, t)
      PROVE  [Service!Next]_Served
  <2>0. conns[c].stage = "new"
    BY <1>9 DEF Accept
  <2>1. conns[c] = NoConn
    BY <2>0 DEF IInv, CInv
  <2> DEFINE own == IF Entry(i) = "client" THEN known[port[i]][i]
                    ELSE (CHOOSE e \in registry : e.session = port[i] /\ e.tunnel = i).id
             dynamic == IF Remotes[i].kind = "socks" THEN t ELSE Nowhere
             v == [stage |-> "asked", session |-> port[i], tunnel |-> i, wants |-> t,
                   id |-> own, dynamic |-> dynamic, dialed |-> Nowhere]
  <2>2. conns' = [conns EXCEPT ![c] = v]
    BY <1>9 DEF Accept
  <2> HIDE DEF own, dynamic
  <2>3. Seen(v) = [stage |-> "asked", wants |-> t, dialed |-> Nowhere]
    BY DEF Seen
  <2> HIDE DEF v
  <2>4. Served' = [Served EXCEPT ![c] = Seen(v)]
    BY <1>0, <2>2 DEF IInv, ProtocolTypeOK
  <2>5. Served[c] = [stage |-> "new", wants |-> Nowhere, dialed |-> Nowhere]
    <3>1. Seen(NoConn) = [stage |-> "new", wants |-> Nowhere, dialed |-> Nowhere]
      BY DEF Seen, NoConn
    <3> QED
      BY <1>0, <2>1, <3>1
  <2>a. Served = [d \in Conns |-> Served[d]]
    BY <1>0
  <2>6. [Served EXCEPT ![c].stage = "asked", ![c].wants = t] = [Served EXCEPT ![c] = Seen(v)]
    <3> DEFINE f == [Served EXCEPT ![c].stage = "asked"]
               g == [f EXCEPT ![c].wants = t]
    <3>1. f = [d \in Conns |-> IF d = c THEN [stage |-> "asked", wants |-> Nowhere, dialed |-> Nowhere]
                                        ELSE Served[d]]
      BY <2>a, <2>5
    <3> HIDE DEF f
    <3>2. g = [d \in Conns |-> IF d = c THEN [stage |-> "asked", wants |-> t, dialed |-> Nowhere]
                                        ELSE Served[d]]
      BY <3>1
    <3> HIDE DEF g
    <3>3. g = [d \in Conns |-> IF d = c THEN Seen(v) ELSE Served[d]]
      BY <2>3, <3>2
    <3>4. g = [Served EXCEPT ![c] = Seen(v)]
      BY <2>a, <3>3
    <3> QED
      BY <3>4 DEF f, g
  <2>7. Service!Ask(c, t)
    BY <2>4, <2>5, <2>6 DEF Service!Ask
  <2> QED
    BY <2>7 DEF Service!Next
<1> QED
  BY <1>1, <1>2, <1>3, <1>4, <1>5, <1>6, <1>7, <1>8, <1>9 DEF ProtocolNext, protocolVars

\* Whatever is cut, restarted or reused, a connection accepted at a tunnel's entry is
\* dialed to what it asked for or closed, and to nothing else.
THEOREM ProtocolImplementsService == ProtocolSpec => Service!Spec
BY ServedInit, ServedStep, Invariant, PTL DEF ProtocolSpec, Service!Spec

=============================================================================
