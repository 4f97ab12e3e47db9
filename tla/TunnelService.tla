---------------------------- MODULE TunnelService ----------------------------
(***************************************************************************)
(* What a user of Rusnel relies on, without sessions, tunnel ids, frames   *)
(* or links: a connection accepted at a tunnel's entry asks for one target *)
(* and is dialed to that target or closed; it is never left hanging and    *)
(* never dialed to another target.                                         *)
(***************************************************************************)
CONSTANTS
    Conns,    \* the connections
    Targets,  \* what a connection can ask for
    Nowhere   \* not asked for or not dialed yet

VARIABLE conn  \* per connection, its stage, what it asked for, what was dialed

Init == conn = [c \in Conns |-> [stage |-> "new", wants |-> Nowhere, dialed |-> Nowhere]]

Ask(c, t) ==
    /\ conn[c].stage = "new"
    /\ conn' = [conn EXCEPT ![c].stage = "asked", ![c].wants = t]

Dial(c) ==
    /\ conn[c].stage = "asked"
    /\ conn' = [conn EXCEPT ![c].stage = "dialed", ![c].dialed = conn[c].wants]

\* The end of a process or of a session closes several at once.
Close(S) ==
    /\ S # {}
    /\ \A c \in S : conn[c].stage \in {"asked", "dialed"}
    /\ conn' = [c \in Conns |->
                  IF c \in S THEN [stage |-> "closed", wants |-> Nowhere, dialed |-> Nowhere]
                  ELSE conn[c]]

Next ==
    \/ \E c \in Conns : (\E t \in Targets : Ask(c, t)) \/ Dial(c)
    \/ \E S \in SUBSET Conns : Close(S)

Spec == Init /\ [][Next]_conn

\* A connection that asked is dialed or closed.
Answered(c) == Dial(c) \/ \E S \in SUBSET Conns : c \in S /\ Close(S)

FairSpec == Spec /\ \A c \in Conns : WF_conn(conn[c].stage = "asked" /\ Answered(c))
=============================================================================
