---------------------------- MODULE LocomotionRelay ----------------------------
(***************************************************************************)
(* The patrol's UdpLocomotionAdapter and the relay on the robot's PC.      *)
(* Each command is a datagram with a sequence number, a STOP is two; the   *)
(* network loses, reorders and duplicates them.  The relay takes only      *)
(* rising numbers, stops on anything it cannot take, and a watchdog stops  *)
(* a robot whose last valid command is too old.                            *)
(*                                                                         *)
(* Time is counted in waits of the relay's socket, 0.05 s each, and a call *)
(* of the robot's client takes none of it.                                 *)
(***************************************************************************)
EXTENDS Integers

CONSTANTS Watchdog,     \* --watchdog-timeout, in waits of the socket
          MaxSends,     \* bound: commands of the patrol
          MaxLosses,    \* bound: datagrams lost
          MaxRestarts,  \* bound: restarts of the patrol or of the relay
          MaxRefusals   \* bound: calls of StopMove the robot does not carry out

ASSUME RelayAssumption ==
    /\ Watchdog \in Nat \ {0}
    /\ MaxSends \in Nat /\ MaxLosses \in Nat /\ MaxRestarts \in Nat /\ MaxRefusals \in Nat

VARIABLES seq,       \* _seq of the adapter
          last,      \* history: the patrol's last command
          net,       \* the datagrams under way
          lastSeq, moving,  \* last_seq and moving of the relay
          age,       \* waits since last_valid, up to the first the watchdog acts on
          up,        \* the relay's loop runs
          robot,     \* the robot walks
          taken,     \* history: the kind of the last datagram the relay took
          sends, losses, restarts, refusals

adapter == <<seq, last, sends>>
relay   == <<lastSeq, moving, age, up, taken>>
bounds  == <<losses, restarts, refusals>>
relayVars    == <<adapter, net, relay, robot, bounds>>

Kinds == {"move", "stop", "bad"}
Datagram(n, kind) == [seq |-> n, kind |-> kind]

RelayInit ==
    /\ seq = 0 /\ last = "stop" /\ net = {} /\ sends = 0
    /\ lastSeq = -1 /\ moving = FALSE /\ age = 0 /\ up = TRUE /\ taken = "stop"
    /\ robot = FALSE
    /\ losses = 0 /\ restarts = 0 /\ refusals = 0

(***************************************************************************)
(* The patrol.                                                             *)
(***************************************************************************)

\* move(): "bad" is one beyond the relay's own limits, such as a reverse that is not
\* enabled there.
Move(kind) ==
    /\ sends < MaxSends /\ sends' = sends + 1
    /\ net' = net \cup {Datagram(seq, kind)} /\ seq' = seq + 1
    /\ last' = kind
    /\ UNCHANGED <<relay, robot, bounds>>

\* Mutant: one datagram.
StopOnce ==
    /\ sends < MaxSends /\ sends' = sends + 1
    /\ net' = net \cup {Datagram(seq, "stop")} /\ seq' = seq + 1 /\ last' = "stop"
    /\ UNCHANGED <<relay, robot, bounds>>

\* stop(), and close(): two datagrams.
Stop ==
    /\ sends < MaxSends /\ sends' = sends + 1
    /\ net' = net \cup {Datagram(seq, "stop"), Datagram(seq + 1, "stop")} /\ seq' = seq + 2
    /\ last' = "stop"
    /\ UNCHANGED <<relay, robot, bounds>>

\* A new patrol process counts from 0.
PatrolRestarts ==
    /\ restarts < MaxRestarts /\ restarts' = restarts + 1
    /\ seq' = 0
    /\ UNCHANGED <<last, sends, net, relay, robot, losses, refusals>>

Lose(d) ==
    /\ losses < MaxLosses /\ losses' = losses + 1 /\ net' = net \ {d}
    /\ UNCHANGED <<adapter, relay, robot, restarts, refusals>>

(***************************************************************************)
(* The relay.                                                              *)
(***************************************************************************)

\* stop(): the answer of StopMove is not looked at.
StopMove ==
    /\ moving' = FALSE
    /\ \/ robot' = FALSE /\ UNCHANGED refusals
       \/ refusals < MaxRefusals /\ refusals' = refusals + 1 /\ UNCHANGED robot

\* A datagram arrives, and perhaps again later.
Arrives(d) == up /\ net' \in {net, net \ {d}}

\* It is decoded and its number is higher than any taken before.
Takes(d) == d.kind # "bad" /\ d.seq > lastSeq

Take(d) ==
    /\ Arrives(d) /\ Takes(d)
    /\ lastSeq' = d.seq /\ age' = 0 /\ taken' = d.kind
    /\ \/ d.kind = "stop" /\ StopMove
       \/ d.kind = "move" /\ moving' = TRUE /\ robot' = TRUE /\ UNCHANGED refusals
    /\ UNCHANGED <<adapter, up, losses, restarts>>

\* Any other datagram stops the robot.
Refuse(d) ==
    /\ Arrives(d) /\ ~Takes(d) /\ StopMove
    /\ UNCHANGED <<adapter, lastSeq, age, up, taken, losses, restarts>>

\* The socket times out.
Wait ==
    /\ up /\ age' = (IF age > Watchdog THEN age ELSE age + 1)
    /\ IF moving /\ age' > Watchdog THEN StopMove ELSE UNCHANGED <<moving, robot, refusals>>
    /\ UNCHANGED <<adapter, net, lastSeq, up, taken, losses, restarts>>

\* The loop ends, by --seconds, Ctrl+C or an exception: its finally stops.
Exit ==
    /\ up /\ restarts < MaxRestarts /\ restarts' = restarts + 1
    /\ up' = FALSE /\ StopMove
    /\ UNCHANGED <<adapter, net, lastSeq, age, taken, losses>>

\* A new relay process.
Start ==
    /\ ~up /\ up' = TRUE
    /\ lastSeq' = -1 /\ moving' = FALSE /\ age' = 0
    /\ UNCHANGED <<adapter, net, taken, robot, bounds>>

Relay == Wait \/ Start \/ \E d \in net : Take(d) \/ Refuse(d)

RelayNext ==
    \/ Move("move") \/ Move("bad") \/ Stop \/ PatrolRestarts \/ Exit
    \/ \E d \in net : Lose(d)
    \/ Relay

RelaySpec == RelayInit /\ [][RelayNext]_relayVars

\* The relay's loop goes on, and its waits end.
RelayFairSpec == RelaySpec /\ WF_relayVars(Relay) /\ WF_relayVars(Wait)

(***************************************************************************)
(* Properties.                                                             *)
(***************************************************************************)

\* Every variable has its type.
RelayWords ==
    /\ last \in Kinds /\ taken \in {"move", "stop"}
    /\ moving \in BOOLEAN /\ up \in BOOLEAN /\ robot \in BOOLEAN
RelayNumbers ==
    /\ seq \in 0..(2 * MaxSends) /\ lastSeq \in -1..(2 * MaxSends)
    /\ age \in 0..(Watchdog + 1)
    /\ sends \in 0..MaxSends /\ losses \in 0..MaxLosses
    /\ restarts \in 0..MaxRestarts /\ refusals \in 0..MaxRefusals
RelayTypes ==
    /\ RelayWords /\ RelayNumbers
    /\ net \subseteq [seq : 0..(2 * MaxSends), kind : Kinds]

\* The robot walks only on the newest command the relay has taken, and that is not
\* older than the watchdog allows, whatever else arrives in between.
WalksOnFreshMove == robot => up /\ taken = "move" /\ age <= Watchdog

\* "Duplicate STOP datagrams tolerate a single UDP loss": after a stop of the patrol,
\* with nothing under way any more, the robot stands without the help of the watchdog.
\* A restarted patrol or relay counts from the start, and promises it no more.
StopTakesOneLoss == restarts = 0 /\ last = "stop" /\ net = {} => ~robot

\* "Always stops": a robot that walks stands again, however the patrol falls silent.
RobotStops == robot ~> ~robot

\* Well typed; the robot walks on what the patrol has just said, and stops when it says so.
RelayInv == RelayTypes /\ WalksOnFreshMove /\ StopTakesOneLoss

===============================================================================
