---------------------------- MODULE ClientConnect ----------------------------
(***************************************************************************)
(* How a round of the reconnect loop gets its connection (client/mod.rs):  *)
(* directly, by racing every resolved address over the endpoints of the    *)
(* pool (happy_eyeballs_connect), or through a SOCKS5 proxy, over a fresh  *)
(* UDP association (proxied_connect, common/proxy.rs).  The loop itself is *)
(* ClientReconnect, whose one-step Connected and ConnectFails happen here  *)
(* at the end of an attempt.                                               *)
(*                                                                         *)
(* Endpoint::connect starts the QUIC handshake at once; what a candidate's *)
(* delay holds back is only the moment its outcome is looked at.           *)
(***************************************************************************)
EXTENDS ClientReconnect, Sequences

CONSTANT Family  \* the address family of each resolved address, in order

Candidates == 1 .. Len(Family)

Families == {"v4", "v6"}

ASSUME ConnectAssumption == Family \in Seq(Families) /\ Family # <<>>

VARIABLES
    pool,     \* families the EndpointPool has an endpoint for
    race,     \* where the attempt on an address is
    now,      \* delays of HAPPY_EYEBALLS_DELAY passed in this attempt
    creds,    \* whether there are user and password for the proxy
    step,     \* where the negotiation with the proxy is
    control   \* the TCP control connection of the association in use

connectVars == <<pool, race, now, creds, step, control>>

allVars == <<vars, connectVars>>

\* "skipped": no endpoint, or connect() refused the address; "refused": failed,
\* not looked at yet; "lost": looked at.
RaceStates == {"new", "skipped", "trying", "up", "refused", "lost"}

Steps == {"none", "method", "auth", "reply", "handshake", "connected"}

ConnectTypeOK ==
    /\ TypeOK
    /\ pool \subseteq Families
    /\ race \in [Candidates -> RaceStates]
    /\ now \in 0 .. Len(Family) - 1
    /\ creds \in BOOLEAN
    /\ step \in Steps
    /\ control \in {"none", "open", "revoked"}

NoRace == [i \in Candidates |-> "new"]

\* EndpointPool::new builds the endpoint of the first address or run_async fails.
ConnectInit ==
    /\ Init
    /\ pool = IF config.proxied THEN {} ELSE {Family[1]}
    /\ race = NoRace
    /\ now = 0
    /\ creds \in BOOLEAN /\ (creds => config.proxied)
    /\ step = "none"
    /\ control = "none"

-----------------------------------------------------------------------------
(* Directly: happy_eyeballs_connect.                                       *)

Racing == pc = "connecting" /\ ~ config.proxied /\ race # NoRace

\* get_for builds the endpoints that are missing, of the families that can be
\* bound; an address without one, or refused by connect(), is left out.
StartRace ==
    /\ pc = "connecting"
    /\ ~ config.proxied
    /\ race = NoRace
    /\ \E bindable \in SUBSET Families, invalid \in SUBSET Candidates :
        /\ pool' = pool \cup ({Family[i] : i \in Candidates} \cap bindable)
        /\ race' = [i \in Candidates |->
                       IF Family[i] \in pool' /\ i \notin invalid THEN "trying"
                                                                  ELSE "skipped"]
    /\ UNCHANGED <<vars, now, creds, step, control>>

Handshake(i) ==
    /\ Racing
    /\ race[i] = "trying"
    /\ \E outcome \in {"up", "refused"} : race' = [race EXCEPT ![i] = outcome]
    /\ UNCHANGED <<vars, pool, now, creds, step, control>>

Delay ==
    /\ Racing
    /\ now < Len(Family) - 1
    /\ now' = now + 1
    /\ UNCHANGED <<vars, pool, race, creds, step, control>>

\* Fault: the first candidate that has an outcome decides the attempt.
FirstOutcomeDecides(i) ==
    /\ Racing
    /\ race[i] = "refused"
    /\ now >= i - 1
    /\ ConnectFails
    /\ race' = NoRace
    /\ now' = 0
    /\ UNCHANGED <<pool, creds, step, control>>

\* races.next() yields a failure: the others go on.
CandidateLost(i) ==
    /\ Racing
    /\ race[i] = "refused"
    /\ now >= i - 1
    /\ race' = [race EXCEPT ![i] = "lost"]
    /\ UNCHANGED <<vars, pool, now, creds, step, control>>

\* races.next() yields a connection: the other attempts are dropped.
CandidateWins(i) ==
    /\ Racing
    /\ race[i] = "up"
    /\ now >= i - 1
    /\ Connected
    /\ race' = NoRace
    /\ now' = 0
    /\ UNCHANGED <<pool, creds, step, control>>

\* Fault: a race without candidates is polled for ever.
RaceLostIfAny ==
    /\ Racing
    /\ \A i \in Candidates : race[i] \in {"skipped", "lost"}
    /\ \/ /\ \E i \in Candidates : race[i] = "lost"
          /\ ConnectFails
          /\ race' = NoRace
          /\ now' = 0
          /\ UNCHANGED <<pool, creds, step, control>>
       \/ race = [i \in Candidates |-> "skipped"] /\ UNCHANGED allVars

RaceLost ==
    /\ Racing
    /\ \A i \in Candidates : race[i] \in {"skipped", "lost"}
    /\ ConnectFails
    /\ race' = NoRace
    /\ now' = 0
    /\ UNCHANGED <<pool, creds, step, control>>

-----------------------------------------------------------------------------
(* Through a proxy: establish_socks5_udp_associate, then one handshake.    *)

Negotiating == pc = "connecting" /\ config.proxied

\* An error on the way: the TCP connection and the socket are dropped.
AttemptFails ==
    /\ Negotiating
    /\ ConnectFails
    /\ step' = "none"
    /\ control' = "none"
    /\ UNCHANGED <<pool, race, now, creds>>

Advance(to) ==
    /\ step' = to
    /\ UNCHANGED <<vars, pool, race, now, creds, control>>

\* The proxy is reached and greeted with the methods on offer.
ProxyReached ==
    /\ Negotiating
    /\ step = "none"
    /\ step' = "method"
    /\ control' = "open"
    /\ UNCHANGED <<vars, pool, race, now, creds>>

\* The proxy picks no authentication, or user and password.
MethodChosen ==
    /\ Negotiating
    /\ control = "open"
    /\ step = "method"
    /\ Advance("reply") \/ (creds /\ Advance("auth"))

AuthAccepted ==
    /\ Negotiating
    /\ control = "open"
    /\ step = "auth"
    /\ Advance("reply")

\* UDP ASSOCIATE succeeds, the relay's address is read, or taken to be the
\* proxy's if it is a name or unspecified, and a socket of its family is bound.
Associated ==
    /\ Negotiating
    /\ control = "open"
    /\ step = "reply"
    /\ Advance("handshake")

\* The handshake over the relay succeeds; the connection keeps the socket, and
\* the socket keeps the control connection (TcpKeepalive).
ProxiedConnect ==
    /\ Negotiating
    /\ step = "handshake"
    /\ Connected
    /\ step' = "connected"
    /\ UNCHANGED <<pool, race, now, creds, control>>

\* The proxy closes the control connection and with it the relay; the task that
\* drains the control connection only logs it.
ProxyRevokes ==
    /\ control = "open"
    /\ step \in {"handshake", "connected"}
    /\ control' = "revoked"
    /\ UNCHANGED <<vars, pool, race, now, creds, step>>

-----------------------------------------------------------------------------

\* A shutdown while connecting drops the attempt.
Cancelled ==
    /\ LoopShutdown
    /\ race' = NoRace
    /\ now' = 0
    /\ step' = "none"
    /\ control' = "none"
    /\ UNCHANGED <<pool, creds>>

\* What the loop does outside of an attempt.  With the connection the client is done
\* with its socket and the control connection; a detached task that still holds a
\* handle may keep both open a while, and no later attempt looks at them.
LoopStep ==
    /\ \/ Interrupt \/ StdioEnds \/ StdioAborted \/ Subscribe \/ HelloAccepted
       \/ HelloFails \/ SubscribeSession \/ LinkDies \/ SessionShutdown \/ SessionLost
       \/ Retry \/ SleepEnds \/ Terminated
    /\ step' = IF link /\ ~ link' THEN "none" ELSE step
    /\ control' = IF link /\ ~ link' THEN "none" ELSE control
    /\ UNCHANGED <<pool, race, now, creds>>

Direct ==
    \/ StartRace \/ Delay \/ RaceLost
    \/ \E i \in Candidates : Handshake(i) \/ CandidateLost(i) \/ CandidateWins(i)

Proxied ==
    \/ ProxyReached \/ MethodChosen \/ AuthAccepted \/ Associated \/ ProxiedConnect
    \/ AttemptFails \/ ProxyRevokes

ConnectNext == LoopStep \/ Cancelled \/ Direct \/ Proxied

ConnectSpec == ConnectInit /\ [][ConnectNext]_allVars

(***************************************************************************)
(* The fairness of ClientReconnect, with its direct attempt split up: a    *)
(* handshake ends one way or the other (QUIC's handshake timeout) and      *)
(* delays pass.  A handshake over a relay ends as well, and a connection   *)
(* whose relay is gone hears nothing until the idle timeout ends it.       *)
(***************************************************************************)
ConnectFairness ==
    /\ WF_allVars(LoopStep /\ Subscribe)
    /\ WF_allVars(LoopStep /\ (HelloAccepted \/ HelloFails))
    /\ WF_allVars(LoopStep /\ SubscribeSession)
    /\ WF_allVars(LoopStep /\ SessionShutdown)
    /\ WF_allVars(LoopStep /\ SessionLost)
    /\ WF_allVars(LoopStep /\ Retry)
    /\ WF_allVars(LoopStep /\ SleepEnds)
    /\ WF_allVars(Cancelled)
    /\ WF_allVars(StartRace)
    /\ WF_allVars(Delay)
    /\ WF_allVars(RaceLost)
    /\ \A i \in Candidates :
        WF_allVars(Handshake(i)) /\ WF_allVars(CandidateLost(i) \/ CandidateWins(i))
    /\ WF_allVars(step = "handshake" /\ (ProxiedConnect \/ AttemptFails))
    /\ WF_allVars(control = "revoked" /\ LinkDies /\ LoopStep)

ConnectFairSpec == ConnectSpec /\ ConnectFairness

-----------------------------------------------------------------------------
(* Properties.                                                             *)

\* An address that answers is not lost to the others of the race: whatever else
\* fails, is skipped or is slower, once a handshake has succeeded the client gets
\* a connection, unless it is shut down (happy_eyeballs_connect).
AnsweredIsUsed ==
    (\E i \in Candidates : race[i] = "up") ~> pc \in {"hello", "stopped"}

\* A proxy that revokes the association of a session is asked for another one,
\* unless the client gives up or is shut down: nobody watches the control
\* connection, the idle timeout must do it (TcpKeepalive::spawn).
RevokedIsReplaced ==
    control = "revoked" ~> pc \in Exited \/ (pc = "connecting" /\ control = "none")

\* Races, delays and negotiations are an implementation of the reconnect loop
\* whose attempts take one step, its fairness included.
ImplementsReconnect == FairSpec
=============================================================================
