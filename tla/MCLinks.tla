-------------------------------- MODULE MCLinks ---------------------------------
(* The two ways a command takes to what moves the robot: the patrol's datagrams to  *)
(* its relay, and the requests of the navigation adapter to its bridge.  One of     *)
(* them runs, the other rests in its initial state.                                 *)
EXTENDS RemoteNavigation, LocomotionRelay

VARIABLE way      \* which of them runs

linksVars == <<way, vars, relayVars>>

LinksInit == way \in {"relay", "bridge"} /\ Init /\ RelayInit

LinksNext ==
    /\ UNCHANGED way
    /\ \/ way = "bridge" /\ Next /\ UNCHANGED relayVars
       \/ way = "relay" /\ RelayNext /\ UNCHANGED vars

\* The fairness of RemoteNavigation; nothing is asked of the relay.
LinksSpec ==
    /\ LinksInit /\ [][LinksNext]_linksVars
    /\ \A c \in Callers : WF_vars(way = "bridge" /\ Caller(c))
    /\ \A b \in Beats : WF_vars(way = "bridge" /\ Heartbeat(b))
    /\ \A t \in Threads : SF_vars(way = "bridge" /\ TakeLock(t))

\* KeepsBeating of the bridge that runs.
LinkKeepsBeating == way = "relay" \/ KeepsBeating
=================================================================================
