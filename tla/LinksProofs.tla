------------------------------ MODULE LinksProofs -------------------------------
(***************************************************************************)
(* Proofs about the two ways a command takes to the robot: the datagrams   *)
(* of the patrol (LocomotionRelay) and the requests of the navigation      *)
(* adapter (RemoteNavigation), each for every value of its bounds.         *)
(***************************************************************************)
EXTENDS MCLinks, FiniteSetTheorems, TLAPS

(***************************************************************************)
(* LocomotionRelay.                                                        *)
(***************************************************************************)

\* Numbers rise: until a restart, the adapter has given out every number that is under
\* way or was taken.  A command takes two of them at most.
Numbered ==
    /\ seq <= 2 * sends
    /\ restarts = 0 => up /\ lastSeq < seq /\ \A d \in net : d.seq < seq

\* While every StopMove is carried out, what the relay knows of the robot is true.
KnowsRobot == refusals = 0 /\ robot => moving /\ up /\ taken = "move" /\ age <= Watchdog

\* The two datagrams of the stop that was sent last.
LastStop == {Datagram(seq - 2, "stop"), Datagram(seq - 1, "stop")}

\* No other datagram has their numbers; one of them is enough, and until one is taken
\* both are under way, less the one that was lost.
StopIsOnItsWay ==
    /\ \A d \in net : d.seq >= seq - 2 => d.kind = "stop"
    /\ lastSeq >= seq - 2 => taken = "stop"
    /\ lastSeq < seq - 2 => \/ losses = 0 /\ LastStop \subseteq net
                            \/ losses = 1 /\ LastStop \cap net # {}

\* The inductive invariant of the relay.
RelayIInv ==
    /\ RelayTypes /\ Numbered /\ KnowsRobot
    /\ restarts = 0 /\ last = "stop" /\ losses <= 1 => StopIsOnItsWay

\* The variables start with their types, and nothing has been sent.
LEMMA RelayInitInv == RelayInit => RelayIInv
<1> SUFFICES ASSUME RelayInit PROVE RelayIInv
  OBVIOUS
<1> USE RelayAssumption DEF RelayAssumption, RelayInit
<1>1. RelayTypes
  <2>1. RelayWords
    BY DEF RelayWords, Kinds
  <2>2. RelayNumbers
    BY DEF RelayNumbers
  <2> QED BY <2>1, <2>2 DEF RelayTypes
<1>2. Numbered /\ KnowsRobot /\ StopIsOnItsWay
  BY <1>1 DEF Numbered, KnowsRobot, StopIsOnItsWay
<1> QED BY <1>1, <1>2 DEF RelayIInv

\* Unless it has been refused, StopMove makes the robot stand.
LEMMA StopMoveStops ==
  ASSUME RelayNumbers, StopMove, refusals' = 0
  PROVE  refusals = 0 /\ ~robot'
<1>1. refusals' # refusals + 1
  BY RelayAssumption DEF RelayAssumption, RelayNumbers
<1> QED BY <1>1 DEF StopMove

\* A command of the patrol: the newest numbers are those of the command.
LEMMA PatrolInv ==
  ASSUME RelayIInv, Move("move") \/ Move("bad") \/ Stop
  PROVE  RelayIInv'
<1> USE DEF RelayIInv, Datagram, relay, bounds
<1>1. RelayWords'
  BY DEF Move, Stop, RelayTypes, RelayWords, Kinds
<1>2. RelayNumbers'
  BY RelayAssumption DEF RelayAssumption, Move, Stop, RelayTypes, RelayNumbers, Numbered
<1>3. net' \subseteq [seq : 0..(2 * MaxSends), kind : Kinds]
  BY <1>2, RelayAssumption DEF RelayAssumption, Move, Stop, RelayTypes, RelayNumbers, Kinds
<1>4. Numbered'
  BY DEF Move, Stop, Numbered, RelayTypes, RelayNumbers
<1>5. KnowsRobot'
  BY DEF Move, Stop, KnowsRobot
<1>6. ASSUME restarts = 0, last' = "stop", losses <= 1 PROVE StopIsOnItsWay'
  <2>1. Stop
    BY <1>6 DEF Move
  <2>2. LastStop' \subseteq net' /\ seq' = seq + 2 /\ seq \in Nat
    BY <2>1 DEF Stop, LastStop, RelayTypes, RelayNumbers
  <2>3. LastStop' \cap net' # {}
    BY <2>2 DEF LastStop
  <2>4. losses' \in {0, 1}
    BY <1>6, <2>1 DEF Stop, RelayTypes, RelayNumbers
  <2>5. \A d \in net' : d.seq >= seq => d.kind = "stop"
    BY <1>6, <2>1 DEF Stop, Numbered, RelayTypes, RelayNumbers
  <2>6. lastSeq' < seq
    BY <1>6, <2>1 DEF Stop, Numbered
  <2>7. lastSeq' \in Int
    BY <1>2 DEF RelayNumbers
  <2> QED BY <2>2, <2>3, <2>4, <2>5, <2>6, <2>7 DEF StopIsOnItsWay
<1>7. restarts' = restarts /\ losses' = losses
  BY DEF Move, Stop
<1> QED BY <1>1, <1>2, <1>3, <1>4, <1>5, <1>6, <1>7 DEF RelayTypes

\* A restart of the patrol, or the end of the relay: no stop is promised any more.
LEMMA RestartInv ==
  ASSUME RelayIInv, PatrolRestarts \/ Exit
  PROVE  RelayIInv'
<1> USE DEF RelayIInv, PatrolRestarts, Exit, StopMove, adapter, relay
<1>1. RelayWords'
  BY DEF RelayTypes, RelayWords
<1>2. RelayNumbers' /\ restarts' > 0
  BY RelayAssumption DEF RelayAssumption, RelayTypes, RelayNumbers
<1>3. RelayTypes'
  BY <1>1, <1>2 DEF RelayTypes
<1>4. KnowsRobot'
  BY StopMoveStops DEF KnowsRobot, RelayTypes
<1>5. seq' <= 2 * sends'
  BY DEF Numbered, RelayTypes, RelayNumbers
<1> QED BY <1>2, <1>3, <1>4, <1>5 DEF Numbered

\* A new relay has restarts behind it.
LEMMA StartInv == ASSUME RelayIInv, Start PROVE RelayIInv'
<1> USE DEF RelayIInv, Start, adapter, bounds
<1>1. RelayWords'
  BY DEF RelayTypes, RelayWords
<1>2. RelayNumbers' /\ restarts' # 0
  BY RelayAssumption DEF RelayAssumption, RelayTypes, RelayNumbers, Numbered
<1>3. RelayTypes'
  BY <1>1, <1>2 DEF RelayTypes
<1>4. KnowsRobot'
  BY DEF KnowsRobot
<1> QED BY <1>2, <1>3, <1>4 DEF Numbered

\* The first loss leaves one datagram of a stop; a second is beyond the promise.
LEMMA LoseInv ==
  ASSUME RelayIInv, NEW d \in net, Lose(d)
  PROVE  RelayIInv'
<1> USE DEF RelayIInv, Lose, adapter, relay
<1>1. RelayWords'
  BY DEF RelayTypes, RelayWords
<1>2. RelayNumbers'
  BY RelayAssumption DEF RelayAssumption, RelayTypes, RelayNumbers
<1>3. RelayTypes'
  BY <1>1, <1>2 DEF RelayTypes
<1>4. Numbered' /\ KnowsRobot'
  BY DEF Numbered, KnowsRobot
<1>5. ASSUME restarts = 0, last = "stop", losses' <= 1 PROVE StopIsOnItsWay'
  <2>1. losses = 0 /\ losses' = 1
    BY <1>5 DEF RelayTypes, RelayNumbers
  <2>2. StopIsOnItsWay /\ LastStop' = LastStop
    BY <2>1, <1>5 DEF LastStop
  <2>3. LastStop \subseteq net => LastStop \cap net' # {}
    <3>1. Datagram(seq - 2, "stop") # Datagram(seq - 1, "stop")
      BY DEF Datagram, RelayTypes, RelayNumbers
    <3> QED BY <3>1 DEF LastStop
  <2> QED BY <2>1, <2>2, <2>3 DEF StopIsOnItsWay
<1> QED BY <1>3, <1>4, <1>5

\* A wait only makes the last command older; the watchdog may stop the robot.
LEMMA WaitInv == ASSUME RelayIInv, Wait PROVE RelayIInv'
<1> USE DEF RelayIInv, Wait, StopMove, adapter
<1>1. RelayWords'
  BY DEF RelayTypes, RelayWords
<1>2. RelayNumbers'
  BY RelayAssumption DEF RelayAssumption, RelayTypes, RelayNumbers
<1>3. RelayTypes'
  BY <1>1, <1>2 DEF RelayTypes
<1>4. Numbered'
  BY DEF Numbered
<1>5. KnowsRobot'
  <2>1. CASE moving /\ age' > Watchdog
    BY <2>1, StopMoveStops DEF KnowsRobot, RelayTypes
  <2>2. CASE moving /\ ~(age' > Watchdog)
    <3>1. age' <= Watchdog
      BY <2>2, <1>2, RelayAssumption DEF RelayAssumption, RelayNumbers
    <3> QED BY <2>2, <3>1 DEF KnowsRobot
  <2>3. CASE ~moving
    BY <2>3 DEF KnowsRobot
  <2> QED BY <2>1, <2>2, <2>3
<1>6. StopIsOnItsWay => StopIsOnItsWay'
  BY DEF StopIsOnItsWay, LastStop
<1> QED BY <1>3, <1>4, <1>5, <1>6

\* A datagram that is taken is one of the last stop, or leaves that one under way.
LEMMA TakeInv ==
  ASSUME RelayIInv, NEW d \in net, Take(d)
  PROVE  RelayIInv'
<1> USE DEF RelayIInv, Take, Arrives, Takes, StopMove, adapter
<1>1. d.seq \in 0..(2 * MaxSends) /\ d.kind \in Kinds
  BY DEF RelayTypes
<1>2. RelayWords'
  BY <1>1 DEF RelayTypes, RelayWords, Kinds
<1>3. RelayNumbers'
  BY RelayAssumption, <1>1 DEF RelayAssumption, RelayTypes, RelayNumbers
<1>4. RelayTypes'
  BY <1>2, <1>3 DEF RelayTypes
<1>5. Numbered'
  BY DEF Numbered
<1>6. KnowsRobot'
  <2>1. CASE d.kind = "stop"
    BY <2>1, StopMoveStops DEF KnowsRobot, RelayTypes
  <2>2. CASE d.kind = "move"
    <3>1. age' <= Watchdog
      BY RelayAssumption DEF RelayAssumption
    <3> QED BY <2>2, <3>1 DEF KnowsRobot
  <2> QED BY <1>1, <2>1, <2>2 DEF Kinds
<1>7. ASSUME StopIsOnItsWay PROVE StopIsOnItsWay'
  <2>1. net \ {d} \subseteq net' /\ net' \subseteq net /\ LastStop' = LastStop
    BY DEF LastStop
  <2>2. CASE d.seq >= seq - 2
    BY <1>1, <1>7, <2>1, <2>2 DEF StopIsOnItsWay, RelayTypes, RelayNumbers
  <2>3. CASE d.seq < seq - 2
    <3>1. d \notin LastStop
      BY <1>1, <2>3 DEF LastStop, Datagram, RelayTypes, RelayNumbers
    <3>2. LastStop \cap net' = LastStop \cap net
      BY <3>1, <2>1
    <3>3. lastSeq < seq - 2
      BY <1>1, <2>3 DEF RelayTypes, RelayNumbers
    <3> QED BY <1>7, <2>1, <2>3, <3>2, <3>3 DEF StopIsOnItsWay
  <2> QED BY <1>1, <2>2, <2>3 DEF RelayTypes, RelayNumbers
<1> QED BY <1>4, <1>5, <1>6, <1>7

\* A datagram that is refused is none of the last stop, unless one of that was taken.
LEMMA RefuseInv ==
  ASSUME RelayIInv, NEW d \in net, Refuse(d)
  PROVE  RelayIInv'
<1> USE DEF RelayIInv, Refuse, Arrives, StopMove, adapter
<1>1. d.seq \in 0..(2 * MaxSends)
  BY DEF RelayTypes
<1>2. RelayWords'
  BY DEF RelayTypes, RelayWords
<1>3. RelayNumbers'
  BY RelayAssumption DEF RelayAssumption, RelayTypes, RelayNumbers
<1>4. RelayTypes'
  BY <1>2, <1>3 DEF RelayTypes
<1>5. Numbered' /\ KnowsRobot'
  BY StopMoveStops DEF Numbered, KnowsRobot, RelayTypes
<1>6. ASSUME StopIsOnItsWay PROVE StopIsOnItsWay'
  <2>1. net \ {d} \subseteq net' /\ net' \subseteq net /\ LastStop' = LastStop
    BY DEF LastStop
  <2>2. lastSeq < seq - 2 => d \notin LastStop
    BY <1>1 DEF Takes, LastStop, Datagram, RelayTypes, RelayNumbers
  <2>3. lastSeq < seq - 2 => LastStop \cap net' = LastStop \cap net
    BY <2>1, <2>2
  <2> QED BY <1>6, <2>1, <2>3 DEF StopIsOnItsWay
<1> QED BY <1>4, <1>5, <1>6

\* Every step of the patrol, the network and the relay keeps the invariant.
LEMMA RelayNextInv == RelayIInv /\ [RelayNext]_relayVars => RelayIInv'
<1> SUFFICES ASSUME RelayIInv, [RelayNext]_relayVars PROVE RelayIInv'
  OBVIOUS
<1>1. CASE UNCHANGED relayVars
  BY <1>1 DEF relayVars, adapter, relay, bounds, RelayIInv, RelayTypes, RelayWords,
              RelayNumbers, Numbered, KnowsRobot, StopIsOnItsWay, LastStop
<1>2. CASE RelayNext
  BY <1>2, PatrolInv, RestartInv, StartInv, LoseInv, WaitInv, TakeInv, RefuseInv
     DEF RelayNext, Relay
<1> QED BY <1>1, <1>2

\* Whatever is lost, reordered, duplicated, refused or restarted: the types hold; while
\* every StopMove is carried out the robot walks only on a fresh move; and with at most
\* one datagram lost a stop, once nothing is under way, has stopped it.
THEOREM RelayKeepsItsWord ==
  RelaySpec => [](/\ RelayTypes
                  /\ refusals = 0 => WalksOnFreshMove
                  /\ refusals = 0 /\ losses <= 1 => StopTakesOneLoss)
<1> DEFINE Promise == /\ RelayTypes
                      /\ refusals = 0 => WalksOnFreshMove
                      /\ refusals = 0 /\ losses <= 1 => StopTakesOneLoss
<1>1. RelayIInv => Promise
  BY RelayAssumption
     DEF RelayAssumption, RelayIInv, RelayTypes, RelayWords, RelayNumbers, KnowsRobot, WalksOnFreshMove, StopTakesOneLoss, StopIsOnItsWay, LastStop
<1> QED BY RelayInitInv, RelayNextInv, <1>1, PTL DEF RelaySpec

\* The relay the documents promise: "Duplicate STOP datagrams tolerate a single UDP
\* loss", and the robot's client carries out StopMove.
THEOREM RelaySafety ==
  ASSUME MaxLosses <= 1, MaxRefusals = 0
  PROVE  RelaySpec => []RelayInv
<1>1. RelayTypes => refusals = 0 /\ losses <= 1
  BY RelayAssumption DEF RelayAssumption, RelayTypes, RelayNumbers
<1>2. /\ RelayTypes
      /\ refusals = 0 => WalksOnFreshMove
      /\ refusals = 0 /\ losses <= 1 => StopTakesOneLoss
      => RelayInv
  BY <1>1 DEF RelayInv
<1> QED BY RelayKeepsItsWord, <1>2, PTL

(***************************************************************************)
(* RemoteNavigation.                                                       *)
(***************************************************************************)

\* An answer has a state, and the heartbeat threads ask for nothing else.
AsksAndAnswers ==
    /\ \A t \in Threads : pc[t] = "answered" => reply[t] # "none"
    /\ \A b \in Beats : op[b] \in {"none", "heartbeat"}

\* Until close() begins the registered worker is the only loop that has not ended.
OnlyTheWorkerLives ==
    ~closing =>
        \A b \in Beats :
            pc[b] \in {"wait", "lock", "sent", "answered", "failed", "rejected", "ending"} => beat = b

\* The inductive invariant of the adapter.
AdapterIInv ==
    TypeOK /\ AsksAndAnswers /\ OnlyTheWorkerLives /\ ShownFaultIsLatched /\ HeartbeatCovers

\* The adapter is made with one heartbeat and no fault.
LEMMA AdapterInitInv == Init => AdapterIInv
<1> SUFFICES ASSUME Init PROVE AdapterIInv
  OBVIOUS
<1> USE ThreadsAssumption DEF ThreadsAssumption, Init
<1>1. ThreadTypes
  BY DEF ThreadTypes, Threads
<1>2. StateTypes /\ FlagTypes
  BY DEF StateTypes, FlagTypes
<1>3. calls \in 0..MaxCalls /\ faults \in 0..MaxFaults
  BY BoundsAssumption DEF BoundsAssumption
<1>4. AsksAndAnswers /\ OnlyTheWorkerLives
  BY DEF AsksAndAnswers, OnlyTheWorkerLives, Threads
<1>5. ShownFaultIsLatched /\ HeartbeatCovers
  BY DEF ShownFaultIsLatched, HeartbeatCovers, Down
<1> QED BY <1>1, <1>2, <1>3, <1>4, <1>5 DEF AdapterIInv, TypeOK

\* What a request makes of the bridge is a state of the bridge.
LEMMA DoesType ==
  ASSUME StateTypes, NEW o PROVE Does(o) \in {"PATROLLING", "PAUSED", "STOPPED", "ERROR"}
  BY DEF Does, StateTypes

\* A step is one of the bridge, of close(), or of one thread.
LEMMA AdapterSteps ==
  ASSUME Next
  PROVE  \/ BridgeActs \/ Close \/ CloseTransport
         \/ \E t \in Threads : TakeLock(t) \/ Answer(t) \/ Fail(t) \/ Failed(t)
         \/ \E c \in Callers : \/ Store(c) \/ Healthy(c) \/ Reconnected(c) \/ NotReconnected(c)
                               \/ Restart(c) \/ Restarted(c) \/ \E o \in Calls : Call(c, o)
         \/ \E b \in Beats : Beat(b) \/ Beaten(b) \/ Rejected(b) \/ Ending(b) \/ StartNext(b)
  BY DEF Next, Caller, Heartbeat, Threads

\* Threads, operations and answers keep their types.
LEMMA ThreadTypesInv == ASSUME TypeOK, Next PROVE ThreadTypes'
<1> USE DEF TypeOK, ThreadTypes, Goto, Rest, thread, link
<1>1. CASE BridgeActs \/ Close \/ CloseTransport
  BY <1>1 DEF BridgeActs, Close, CloseTransport
<1>2. ASSUME NEW t \in Threads, TakeLock(t) \/ Answer(t) \/ Fail(t) \/ Failed(t) PROVE ThreadTypes'
  BY <1>2, DoesType DEF TakeLock, Answer, Fail, Failed
<1>3. ASSUME NEW c \in Callers, NEW o \in Calls, Call(c, o) PROVE ThreadTypes'
  BY <1>3 DEF Call, Threads
<1>4. ASSUME NEW c \in Callers,
             Store(c) \/ Healthy(c) \/ Reconnected(c) \/ NotReconnected(c) \/ Restart(c)
      PROVE  ThreadTypes'
  BY <1>4 DEF Store, Healthy, Reconnected, NotReconnected, Restart, Threads
<1>5. ASSUME NEW b \in Beats, Beat(b) \/ Beaten(b) \/ Rejected(b) \/ Ending(b) PROVE ThreadTypes'
  BY <1>5 DEF Beat, Beaten, Rejected, Ending, Threads
<1>6. ASSUME NEW t \in Threads, NEW label \in {"idle", "unborn"}, StartHeartbeat(t, label)
      PROVE  ThreadTypes'
  BY <1>6 DEF StartHeartbeat, Threads
<1> QED BY <1>1, <1>2, <1>3, <1>4, <1>5, <1>6, AdapterSteps DEF Restarted, StartNext, Threads

\* So do the rest of the variables: what is stored as the status is what an answer says.
LEMMA StateTypesInv ==
  ASSUME TypeOK, AsksAndAnswers, Next
  PROVE  StateTypes' /\ FlagTypes' /\ calls' \in 0..MaxCalls /\ faults' \in 0..MaxFaults
<1> DEFINE Types == StateTypes /\ FlagTypes
<1> USE DEF TypeOK, MarkDisconnected, thread, link, view, pulse, count
<1>1. ASSUME BridgeActs \/ Close \/ CloseTransport PROVE Types'
  <2>1. StateTypes'
    BY <1>1 DEF BridgeActs, Close, CloseTransport, StateTypes
  <2>2. FlagTypes'
    BY <1>1 DEF BridgeActs, Close, CloseTransport, FlagTypes
  <2> QED BY <2>1, <2>2
<1>2. ASSUME NEW t \in Threads, TakeLock(t) \/ Answer(t) \/ Fail(t) \/ Failed(t) PROVE Types'
  <2>1. op[t] = "reconnect" => t \in Callers
    BY DEF AsksAndAnswers, Threads
  <2>2. StateTypes'
    BY <1>2, <2>1, DoesType DEF TakeLock, Answer, Fail, Failed, StateTypes
  <2>3. FlagTypes'
    BY <1>2 DEF TakeLock, Answer, Fail, Failed, FlagTypes
  <2> QED BY <2>2, <2>3
<1>3. ASSUME NEW c \in Callers, Store(c) \/ Reconnected(c) PROVE Types'
  <2>1. reply[c] \in {"PATROLLING", "PAUSED", "STOPPED", "ERROR"}
    BY <1>3 DEF Store, Reconnected, AsksAndAnswers, ThreadTypes, Threads
  <2>2. StateTypes'
    BY <1>3, <2>1 DEF Store, Reconnected, StateTypes
  <2>3. FlagTypes'
    BY <1>3 DEF Store, Reconnected, FlagTypes, Down
  <2> QED BY <2>2, <2>3
<1>4. ASSUME NEW c \in Callers, NEW o \in Calls,
             Healthy(c) \/ NotReconnected(c) \/ Restart(c) \/ Call(c, o)
      PROVE  Types'
  <2>1. StateTypes'
    BY <1>4 DEF Healthy, NotReconnected, Restart, Call, StateTypes
  <2>2. FlagTypes'
    BY <1>4 DEF Healthy, NotReconnected, Restart, Call, FlagTypes
  <2> QED BY <2>1, <2>2
<1>5. ASSUME NEW b \in Beats, Beat(b) \/ Beaten(b) \/ Rejected(b) \/ Ending(b) PROVE Types'
  <2>1. StateTypes'
    BY <1>5 DEF Beat, Beaten, Rejected, Ending, StateTypes
  <2>2. FlagTypes'
    BY <1>5 DEF Beat, Beaten, Rejected, Ending, FlagTypes
  <2> QED BY <2>1, <2>2
<1>6. ASSUME NEW t \in Threads, NEW label, StartHeartbeat(t, label) PROVE Types'
  BY <1>6 DEF StartHeartbeat, StateTypes, FlagTypes
<1>7. StateTypes' /\ FlagTypes'
  BY <1>1, <1>2, <1>3, <1>4, <1>5, <1>6, AdapterSteps DEF Restarted, StartNext, Threads, Calls
<1>8. calls' \in 0..MaxCalls /\ faults' \in 0..MaxFaults
  <2>1. \/ UNCHANGED <<calls, faults>>
        \/ calls < MaxCalls /\ calls' = calls + 1 /\ faults' = faults
        \/ faults < MaxFaults /\ faults' = faults + 1 /\ calls' = calls
    BY AdapterSteps
       DEF BridgeActs, Close, CloseTransport, TakeLock, Answer, Fail, Failed, Store, Healthy,
           Reconnected, NotReconnected, Restart, Restarted, Call, Beat, Beaten, Rejected, Ending,
           StartNext, StartHeartbeat
  <2> QED BY <2>1, BoundsAssumption DEF BoundsAssumption
<1> QED BY <1>7, <1>8

\* Answers are given with a state, and a heartbeat thread is given no other operation.
LEMMA AsksAndAnswersInv == ASSUME TypeOK, AsksAndAnswers, Next PROVE AsksAndAnswers'
<1> USE ThreadsAssumption
    DEF ThreadsAssumption, TypeOK, ThreadTypes, AsksAndAnswers, Goto, Rest, thread, link
<1>1. CASE BridgeActs \/ Close \/ CloseTransport
  BY <1>1 DEF BridgeActs, Close, CloseTransport
<1>2. ASSUME NEW t \in Threads, Answer(t) PROVE AsksAndAnswers'
  BY <1>2, DoesType DEF Answer, Threads
<1>3. ASSUME NEW t \in Threads, TakeLock(t) \/ Fail(t) \/ Failed(t) PROVE AsksAndAnswers'
  BY <1>3 DEF TakeLock, Fail, Failed, Threads
<1>4. ASSUME NEW c \in Callers, NEW o \in Calls, Call(c, o) PROVE AsksAndAnswers'
  BY <1>4 DEF Call, Threads
<1>5. ASSUME NEW c \in Callers,
             Store(c) \/ Healthy(c) \/ Reconnected(c) \/ NotReconnected(c) \/ Restart(c)
      PROVE  AsksAndAnswers'
  BY <1>5 DEF Store, Healthy, Reconnected, NotReconnected, Restart, Threads
<1>6. ASSUME NEW b \in Beats, Beat(b) \/ Beaten(b) \/ Rejected(b) \/ Ending(b) PROVE AsksAndAnswers'
  BY <1>6 DEF Beat, Beaten, Rejected, Ending, Threads
<1>7. ASSUME NEW t \in Threads, NEW label \in {"idle", "unborn"}, StartHeartbeat(t, label)
      PROVE  AsksAndAnswers'
  BY <1>7 DEF StartHeartbeat, Threads
<1> QED BY <1>1, <1>2, <1>3, <1>4, <1>5, <1>6, <1>7, AdapterSteps DEF Restarted, StartNext, Threads

\* A loop is born only when no worker is registered, and deregisters itself when it ends.
LEMMA OnlyTheWorkerInv == ASSUME TypeOK, OnlyTheWorkerLives, Next PROVE OnlyTheWorkerLives'
<1> USE ThreadsAssumption
    DEF ThreadsAssumption, TypeOK, ThreadTypes, OnlyTheWorkerLives, Goto, Rest, thread, pulse
<1>1. CASE BridgeActs \/ Close \/ CloseTransport
  BY <1>1 DEF BridgeActs, Close, CloseTransport
<1>2. ASSUME NEW t \in Threads, TakeLock(t) \/ Answer(t) \/ Fail(t) \/ Failed(t)
      PROVE  OnlyTheWorkerLives'
  BY <1>2 DEF TakeLock, Answer, Fail, Failed, Threads
<1>3. ASSUME NEW c \in Callers, NEW o \in Calls,
             \/ Call(c, o) \/ Store(c) \/ Healthy(c) \/ Reconnected(c) \/ NotReconnected(c)
             \/ Restart(c)
      PROVE  OnlyTheWorkerLives'
  BY <1>3 DEF Call, Store, Healthy, Reconnected, NotReconnected, Restart, Threads
<1>4. ASSUME NEW b \in Beats, Beat(b) \/ Beaten(b) \/ Rejected(b) PROVE OnlyTheWorkerLives'
  BY <1>4 DEF Beat, Beaten, Rejected, Threads
<1>5. ASSUME NEW b \in Beats, Ending(b) PROVE OnlyTheWorkerLives'
  BY <1>5 DEF Ending, Threads
<1>6. ASSUME NEW t \in Threads, NEW label \in {"idle", "unborn"}, StartHeartbeat(t, label)
      PROVE  OnlyTheWorkerLives'
  BY <1>6 DEF StartHeartbeat, StateTypes, Threads
<1> QED BY <1>1, <1>2, <1>3, <1>4, <1>5, <1>6, AdapterSteps DEF Restarted, StartNext, Threads, Calls

\* What shows a fault latches it, and a latch is cleared only with a status that is none.
LEMMA ShownFaultInv == ASSUME TypeOK, ShownFaultIsLatched, Next PROVE ShownFaultIsLatched'
<1>1. \/ UNCHANGED view
      \/ MarkDisconnected
      \/ \E c \in Callers : Store(c) \/ Reconnected(c)
  BY AdapterSteps
     DEF BridgeActs, Close, CloseTransport, TakeLock, Answer, Fail, Failed, Healthy, NotReconnected,
         Restart, Restarted, Call, Beat, Beaten, Rejected, Ending, StartNext, StartHeartbeat
<1>2. ASSUME NEW c \in Callers, Store(c) \/ Reconnected(c) PROVE ShownFaultIsLatched'
  <2>1. reply[c] # "DISCONNECTED"
    BY DEF TypeOK, ThreadTypes, Threads
  <2> QED BY <1>2, <2>1 DEF Store, Reconnected, ShownFaultIsLatched, Down
<1> QED BY <1>1, <1>2 DEF view, MarkDisconnected, ShownFaultIsLatched, Down

\* Whoever takes the last heartbeat away leaves a latch, or a thread to start another.
LEMMA HeartbeatInv == ASSUME TypeOK, HeartbeatCovers, Next PROVE HeartbeatCovers'
<1> USE ThreadsAssumption
    DEF ThreadsAssumption, TypeOK, ThreadTypes, HeartbeatCovers, Goto, Rest, thread, pulse, view
<1>1. CASE BridgeActs \/ Close \/ CloseTransport
  BY <1>1 DEF BridgeActs, Close, CloseTransport
<1>2. ASSUME NEW t \in Threads, TakeLock(t) \/ Answer(t) \/ Fail(t) PROVE HeartbeatCovers'
  BY <1>2 DEF TakeLock, Answer, Fail, Threads
<1>3. CASE latched'
  BY <1>3
<1>4. ASSUME NEW c \in Callers, NEW o \in Calls, Call(c, o) \/ Store(c) \/ Healthy(c)
      PROVE  HeartbeatCovers'
  BY <1>4 DEF Call, Store, Healthy, Threads
<1>5. ASSUME NEW c \in Callers, Reconnected(c) \/ Restart(c) PROVE HeartbeatCovers'
  BY <1>5 DEF Reconnected, Restart, Threads
<1>6. ASSUME NEW b \in Beats, Beat(b) \/ Beaten(b) \/ Ending(b) PROVE HeartbeatCovers'
  BY <1>6 DEF Beat, Beaten, Ending, Threads
<1>7. ASSUME NEW t \in Threads, NEW label \in {"idle", "unborn"}, StartHeartbeat(t, label)
      PROVE  HeartbeatCovers'
  BY <1>7 DEF StartHeartbeat, Threads
<1>8. ASSUME NEW t \in Threads, Failed(t) \/ NotReconnected(t) \/ Rejected(t) PROVE latched'
  BY <1>8 DEF Failed, NotReconnected, Rejected, MarkDisconnected
<1> QED BY <1>1, <1>2, <1>3, <1>4, <1>5, <1>6, <1>7, <1>8, AdapterSteps
        DEF Restarted, StartNext, Threads, Calls

\* Every step of the adapter keeps the invariant.
LEMMA AdapterNextInv == AdapterIInv /\ [Next]_vars => AdapterIInv'
<1> SUFFICES ASSUME AdapterIInv, [Next]_vars PROVE AdapterIInv'
  OBVIOUS
<1> USE DEF AdapterIInv
<1>1. CASE UNCHANGED vars
  BY <1>1 DEF vars, link, thread, view, pulse, count, TypeOK, ThreadTypes, StateTypes, FlagTypes,
              AsksAndAnswers, OnlyTheWorkerLives, ShownFaultIsLatched, HeartbeatCovers
<1>2. CASE Next
  BY <1>2, ThreadTypesInv, StateTypesInv, AsksAndAnswersInv, OnlyTheWorkerInv, ShownFaultInv,
     HeartbeatInv DEF TypeOK
<1> QED BY <1>1, <1>2

\* For any number of application threads, heartbeat threads, calls and faults: a fault the
\* adapter shows inhibits movement, an adapter that is not inhibited has a heartbeat or a
\* thread on its way to start one, and there are never two.
THEOREM AdapterSafety == Spec => []AdapterInv
<1>1. AdapterIInv => AdapterInv
  <2> SUFFICES ASSUME AdapterIInv, ~closing
               PROVE  Cardinality({b \in Beats : pc[b] \in {"wait", "lock", "sent", "answered"}}) <= 1
    BY DEF AdapterIInv, AdapterInv, OneHeartbeat
  <2> DEFINE Loops == {b \in Beats : pc[b] \in {"wait", "lock", "sent", "answered"}}
  <2>1. Loops \subseteq {beat}
    BY DEF AdapterIInv, OnlyTheWorkerLives
  <2>2. IsFiniteSet({beat}) /\ Cardinality({beat}) = 1
    BY FS_Singleton
  <2>3. Cardinality(Loops) <= Cardinality({beat})
    BY <2>1, <2>2, FS_Subset
  <2> QED BY <2>2, <2>3
<1> QED BY AdapterInitInv, AdapterNextInv, <1>1, PTL DEF Spec

=================================================================================
