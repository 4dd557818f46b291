----------------------------- MODULE SensorProofs ------------------------------
(***************************************************************************)
(* What the robot is taken to see is what its sensors saw, and not long    *)
(* ago: the state of the LiDAR on the patrol's side, the moves of the      *)
(* wander loop, the images of the game, the triggers of a found reaction   *)
(* and the requests of a SLAM session, for every value of the bounds.      *)
(***************************************************************************)
EXTENDS LidarRelay, Wander, GameView, FoundGate, SlamSession,
        SequenceTheorems, FiniteSetTheorems, TLAPS

(***************************************************************************)
(* LidarRelay: a CLEAR that is shown is recent.                            *)
(***************************************************************************)

\* A CLEAR under way or received says how long ago, at most, the guard was clear.
DatedClear ==
    /\ GuardState = "CLEAR" => sinceClear = 0
    /\ \A m \in net : m.state = "CLEAR" => sinceClear <= m.delay
    /\ last.state = "CLEAR" =>
        relayAge # None /\ (relayAge <= StaleAfter => sinceClear <= last.delay + relayAge)

\* The guard's four answers.
LEMMA GuardStateType == GuardState \in States
  BY DEF GuardState, States

\* An age that grows stays within its bound.
LEMMA OlderType ==
  ASSUME NEW bound \in Nat, NEW age \in -1..bound
  PROVE  /\ Older(age, bound) \in -1..bound
         /\ age # None => Older(age, bound) \in 0..bound /\ Older(age, bound) <= age + 1
         /\ age # None /\ age < bound => Older(age, bound) = age + 1
  BY DEF Older, None

\* The initial values have their types, and nothing is CLEAR.
LEMMA LidarInitInv == Init => TypeOK /\ DatedClear
<1> SUFFICES ASSUME Init PROVE TypeOK /\ DatedClear
  OBVIOUS
<1> USE LidarAssumption
<1>1. NoMessage \in Messages
  BY DEF NoMessage, Messages, States, None
<1>2. TypeOK
  BY <1>1 DEF Init, TypeOK, None, Horizon
<1>3. DatedClear
  BY DEF Init, DatedClear, GuardState, NoMessage
<1> QED BY <1>2, <1>3

\* A scan changes the guard within its types and leaves messages alone.
LEMMA ScanInv ==
  ASSUME TypeOK, DatedClear, NEW obstacle \in BOOLEAN, NEW enough \in BOOLEAN, Scan(obstacle, enough)
  PROVE  TypeOK' /\ DatedClear'
<1> USE LidarAssumption
<1>1. sinceClear' \in {0, sinceClear} /\ (GuardState' = "CLEAR" => sinceClear' = 0)
  BY DEF Scan, Watch
<1>2. blocked' \in BOOLEAN /\ blockingAge' \in -1..BlockConfirm /\ clearAge' \in -1..ClearHold
      /\ (~blocked' => blockingAge' # None \/ clearAge' # None)
  <2>1. CASE obstacle
    BY <2>1 DEF Scan, Obstacle, TypeOK, None
  <2>2. CASE ~obstacle
    BY <2>2 DEF Scan, NoObstacle, TypeOK, None
  <2> QED BY <2>1, <2>2
<1>3. TypeOK'
  BY <1>1, <1>2 DEF Scan, TypeOK, receiver, Horizon
<1>4. DatedClear'
  <2>1. net' = net /\ last' = last /\ relayAge' = relayAge
    BY DEF Scan, receiver
  <2>2. sinceClear' <= sinceClear /\ sinceClear \in Nat /\ relayAge \in Int /\ last.delay \in Nat
    BY <1>1 DEF TypeOK, Horizon, Messages
  <2>3. \A m \in net : m.delay \in Nat
    BY DEF TypeOK, Messages
  <2>4. sinceClear' \in Nat
    BY <1>1, <2>2
  <2> QED BY <1>1, <2>1, <2>2, <2>3, <2>4 DEF DatedClear
<1> QED BY <1>3, <1>4

\* A cloud that cannot be decoded makes the guard stale and changes nothing else.
LEMMA BadScanInv ==
  ASSUME TypeOK, DatedClear, BadScan
  PROVE  TypeOK' /\ DatedClear'
<1> USE LidarAssumption
<1>1. GuardState' = "STALE" /\ sinceClear' = sinceClear
  BY DEF BadScan, Watch, GuardState
<1>2. TypeOK'
  BY <1>1 DEF BadScan, TypeOK, receiver
<1>3. DatedClear'
  BY <1>1 DEF BadScan, DatedClear, receiver
<1> QED BY <1>2, <1>3

\* The steps of the relay and of the receiver leave the guard as it is.
LEMMA SameGuard ==
  ASSUME UNCHANGED guard
  PROVE  GuardState' = GuardState
  BY DEF guard, GuardState

\* What the relay sends is dated now: if it says CLEAR, the guard is clear.
LEMMA RelayInv ==
  ASSUME TypeOK, DatedClear, Snapshot \/ Send
  PROVE  TypeOK' /\ DatedClear'
<1> USE LidarAssumption
<1>1. CASE Snapshot
  <2>1. snap' \subseteq Halves
    BY <1>1 DEF Snapshot, Halves, TypeOK
  <2> QED BY <1>1, <2>1, SameGuard DEF Snapshot, TypeOK, DatedClear, guard, receiver, history
<1>2. CASE Send
  <2>1. PICK h \in snap :
          net' = net \cup {[state |-> GuardState, scanAge |-> h.scanAge, ready |-> h.ready,
                            basis |-> scanAge, delay |-> 0]}
    BY <1>2 DEF Send
  <2> DEFINE new == [state |-> GuardState, scanAge |-> h.scanAge, ready |-> h.ready,
                     basis |-> scanAge, delay |-> 0]
  <2>2. h.scanAge \in -1..StaleAfter + 1 /\ h.ready \in BOOLEAN
    BY DEF TypeOK, Halves
  <2>3. new \in Messages
    BY <2>2, GuardStateType DEF Messages, TypeOK
  <2>4. new.state = GuardState /\ new.delay = 0
    OBVIOUS
  <2>5. net' = net \cup {new}
    BY <2>1
  <2> HIDE DEF new
  <2>6. TypeOK'
    BY <1>2, <2>3, <2>5 DEF Send, TypeOK, guard, receiver, history
  <2>7. DatedClear'
    BY <1>2, <2>4, <2>5, SameGuard DEF Send, DatedClear, TypeOK, receiver, history
  <2> QED BY <2>6, <2>7
<1> QED BY <1>1, <1>2

\* A lost datagram takes nothing with it that the others rest on.
LEMMA LoseInv ==
  ASSUME TypeOK, DatedClear, NEW m \in net, Lose(m)
  PROVE  TypeOK' /\ DatedClear'
  BY SameGuard DEF Lose, TypeOK, DatedClear, guard, receiver, history

\* What is received was sent at most its delay ago.
LEMMA ReceiveInv ==
  ASSUME TypeOK, DatedClear, NEW m \in net, NEW again \in BOOLEAN, Receive(m, again)
  PROVE  TypeOK' /\ DatedClear'
<1> USE LidarAssumption
<1>1. net' \subseteq net /\ last' = m /\ relayAge' = 0 /\ sinceClear' = sinceClear
  BY DEF Receive, history
<1>2. TypeOK'
  BY <1>1 DEF Receive, TypeOK, guard, history
<1>3. m.delay \in Nat /\ sinceClear \in Nat
  BY DEF TypeOK, Messages, Horizon
<1>4. DatedClear'
  BY <1>1, <1>3, SameGuard DEF Receive, DatedClear, None
<1> QED BY <1>2, <1>4

\* Time passes for the messages as for the guard.
LEMMA TickInv ==
  ASSUME TypeOK, DatedClear, Tick
  PROVE  TypeOK' /\ DatedClear'
<1> USE LidarAssumption
<1>1. /\ blockingAge' \in -1..BlockConfirm /\ clearAge' \in -1..ClearHold
      /\ (blockingAge # None => blockingAge' # None) /\ (clearAge # None => clearAge' # None)
  BY OlderType DEF Tick, TypeOK, None
<1>2. scanAge' \in -1..StaleAfter + 1 /\ relayAge' \in -1..StaleAfter + 1
  BY OlderType DEF Tick, TypeOK
<1>3. sinceObstacle' \in 0..ClearHold
  BY OlderType DEF Tick, TypeOK, None
<1>4. /\ sinceClear' \in 0..Horizon + 1 /\ sinceClear' <= sinceClear + 1
      /\ GuardState' = "CLEAR" => sinceClear' = 0
  <2>1. sinceClear \in 0..Horizon + 1 /\ Horizon + 1 \in Nat
    BY DEF TypeOK, Horizon
  <2>2. sinceClear # None /\ sinceClear \in -1..Horizon + 1
    BY <2>1 DEF None
  <2>3. Older(sinceClear, Horizon + 1) \in 0..Horizon + 1
          /\ Older(sinceClear, Horizon + 1) <= sinceClear + 1
    BY <2>1, <2>2, OlderType
  <2>4. sinceClear' = IF GuardState' = "CLEAR" THEN 0 ELSE Older(sinceClear, Horizon + 1)
    BY DEF Tick
  <2>5. 0 \in 0..Horizon + 1 /\ 0 <= sinceClear + 1
    BY <2>1
  <2> QED BY <2>3, <2>4, <2>5
<1>5. ASSUME NEW n \in net'
      PROVE  n \in Messages /\ (n.state = "CLEAR" => sinceClear' <= n.delay)
  <2>1. PICK m \in net : n = [m EXCEPT !.delay = @ + 1]
    BY <1>5 DEF Tick
  <2>2. m \in Messages /\ m.delay \in 0..MaxDelay /\ m.delay < MaxDelay
    BY DEF Tick, TypeOK, Messages
  <2>3. m.delay + 1 \in 0..MaxDelay
    BY <2>2
  <2>4. n.state = m.state /\ n.delay = m.delay + 1
    BY <2>1, <2>2 DEF Messages
  <2>5. n \in Messages
    BY <2>1, <2>2, <2>3 DEF Messages
  <2>6. m.state = "CLEAR" => sinceClear <= m.delay
    BY DEF DatedClear
  <2> QED BY <1>4, <2>2, <2>4, <2>5, <2>6 DEF TypeOK, Horizon
<1>6. TypeOK'
  BY <1>1, <1>2, <1>3, <1>4, <1>5 DEF Tick, TypeOK
<1>7. last.state = "CLEAR" => relayAge' # None
        /\ (relayAge' <= StaleAfter => sinceClear' <= last.delay + relayAge')
  <2> SUFFICES ASSUME last.state = "CLEAR"
               PROVE  relayAge' # None /\ (relayAge' <= StaleAfter => sinceClear' <= last.delay + relayAge')
    OBVIOUS
  <2>1. relayAge # None /\ relayAge \in -1..StaleAfter + 1 /\ last.delay \in Nat /\ sinceClear \in Nat
    BY DEF DatedClear, TypeOK, Messages, Horizon
  <2>2. relayAge' = Older(relayAge, StaleAfter + 1)
    BY DEF Tick
  <2>3. relayAge' # None /\ (relayAge' <= StaleAfter => relayAge' = relayAge + 1)
    BY <2>1, <2>2 DEF Older, None
  <2>4. relayAge <= StaleAfter => sinceClear <= last.delay + relayAge
    BY DEF DatedClear
  <2> QED BY <1>2, <1>4, <2>1, <2>3, <2>4 DEF None
<1>8. DatedClear'
  BY <1>4, <1>5, <1>7 DEF Tick, DatedClear
<1> QED BY <1>6, <1>8

\* Every step keeps the types and the dates.
LEMMA LidarNextInv == TypeOK /\ DatedClear /\ [Next]_vars => TypeOK' /\ DatedClear'
<1> SUFFICES ASSUME TypeOK, DatedClear, [Next]_vars PROVE TypeOK' /\ DatedClear'
  OBVIOUS
<1>1. CASE Tick
  BY <1>1, TickInv
<1>2. CASE Snapshot \/ Send
  BY <1>2, RelayInv
<1>3. CASE BadScan
  BY <1>3, BadScanInv
<1>4. CASE \E obstacle, enough \in BOOLEAN : Scan(obstacle, enough)
  BY <1>4, ScanInv
<1>5. CASE \E m \in net : Lose(m) \/ \E again \in BOOLEAN : Receive(m, again)
  BY <1>5, LoseInv, ReceiveInv
<1>6. CASE UNCHANGED vars
  BY <1>6, SameGuard DEF vars, guard, receiver, history, TypeOK, DatedClear
<1> QED BY <1>1, <1>2, <1>3, <1>4, <1>5, <1>6 DEF Next

\* LidarGuard, its relay and UdpRelayGuard keep their types.
THEOREM LidarTypeCorrect == Spec => []TypeOK
<1>1. Init => TypeOK /\ DatedClear
  BY LidarInitInv
<1>2. TypeOK /\ DatedClear /\ [Next]_vars => (TypeOK /\ DatedClear)'
  BY LidarNextInv
<1> QED BY <1>1, <1>2, PTL DEF Spec

\* What UdpRelayGuard.state shows as CLEAR was CLEAR at the guard no longer ago than the
\* timeout and the longest delay of a datagram, for all their values and any number of
\* datagrams lost, repeated or overtaken.
THEOREM ClearRecent == Spec => []ClearIsRecent
<1>1. Init => TypeOK /\ DatedClear
  BY LidarInitInv
<1>2. TypeOK /\ DatedClear /\ [Next]_vars => (TypeOK /\ DatedClear)'
  BY LidarNextInv
<1>3. TypeOK /\ DatedClear => ClearIsRecent
  <2> SUFFICES ASSUME TypeOK, DatedClear, Shown = "CLEAR" PROVE sinceClear <= Horizon
    BY DEF ClearIsRecent
  <2>1. relayAge # None /\ relayAge <= StaleAfter /\ last.state = "CLEAR"
    BY LidarAssumption DEF Shown, TypeOK
  <2>2. last.delay \in 0..MaxDelay /\ relayAge \in Int /\ sinceClear \in Nat
    BY LidarAssumption DEF TypeOK, Messages, Horizon
  <2> QED BY <2>1, <2>2, LidarAssumption DEF DatedClear, Horizon
<1> QED BY <1>1, <1>2, <1>3, PTL DEF Spec

\* The debounce never counts more time than has passed since an obstacle.
HoldIsReal == clearAge <= sinceObstacle

\* A scan, and the time between scans, keep the debounce behind the obstacles.
LEMMA HoldNextInv == TypeOK /\ HoldIsReal /\ [Next]_vars => HoldIsReal'
<1> SUFFICES ASSUME TypeOK, HoldIsReal, [Next]_vars PROVE HoldIsReal'
  OBVIOUS
<1> USE LidarAssumption DEF LidarAssumption
<1>1. clearAge \in -1..ClearHold /\ sinceObstacle \in 0..ClearHold /\ clearAge <= sinceObstacle
  BY DEF TypeOK, HoldIsReal
<1>2. CASE Tick
  <2>1. /\ clearAge' = Older(clearAge, ClearHold)
        /\ sinceObstacle' = Older(sinceObstacle, ClearHold)
    BY <1>2 DEF Tick
  <2> QED BY <1>1, <2>1 DEF Older, None, HoldIsReal
<1>3. CASE \E obstacle, enough \in BOOLEAN : Scan(obstacle, enough)
  <2>1. PICK obstacle \in BOOLEAN, enough \in BOOLEAN : Scan(obstacle, enough)
    BY <1>3
  <2>2. CASE obstacle
    <3>1. clearAge' = -1 /\ sinceObstacle' = 0
      BY <2>1, <2>2 DEF Scan, Obstacle, None
    <3> QED BY <3>1 DEF HoldIsReal
  <2>3. CASE ~obstacle
    <3>1. sinceObstacle' = sinceObstacle /\ clearAge' \in {0, clearAge}
      BY <2>1, <2>3 DEF Scan, NoObstacle
    <3> QED BY <1>1, <3>1 DEF HoldIsReal
  <2> QED BY <2>2, <2>3
<1>4. CASE UNCHANGED <<clearAge, sinceObstacle>>
  BY <1>1, <1>4 DEF HoldIsReal
<1>5. \/ Tick \/ (\E obstacle, enough \in BOOLEAN : Scan(obstacle, enough))
      \/ UNCHANGED <<clearAge, sinceObstacle>>
  BY DEF Next, vars, guard, history, Snapshot, Send, BadScan, Lose, Receive
<1> QED BY <1>2, <1>3, <1>4, <1>5

\* A direction that was blocked opens only after clear_hold_s without a single scan that
\* shows an obstacle, whatever the scans between were worth (LidarGuard.update_points).
THEOREM OpensHeld == Spec => OpensAfterHold
<1>1. Init => TypeOK /\ DatedClear /\ HoldIsReal
  BY LidarInitInv, LidarAssumption DEF LidarAssumption, Init, None, HoldIsReal
<1>2. TypeOK /\ DatedClear /\ HoldIsReal /\ [Next]_vars => (TypeOK /\ DatedClear /\ HoldIsReal)'
  BY LidarNextInv, HoldNextInv
<1>3. ASSUME TypeOK, HoldIsReal, Next, blocked, ~blocked'
      PROVE  sinceObstacle = ClearHold
  <2> USE LidarAssumption DEF LidarAssumption
  <2>1. PICK obstacle \in BOOLEAN, enough \in BOOLEAN : Scan(obstacle, enough)
    BY <1>3 DEF Next, guard, Tick, Snapshot, Send, BadScan, Lose, Receive
  <2>2. ~obstacle
    BY <1>3, <2>1 DEF Scan, Obstacle
  <2>3. clearAge # None /\ ~(clearAge < ClearHold)
    BY <1>3, <2>1, <2>2 DEF Scan, NoObstacle
  <2>4. clearAge \in -1..ClearHold /\ sinceObstacle \in 0..ClearHold /\ clearAge <= sinceObstacle
    BY <1>3 DEF TypeOK, HoldIsReal
  <2> QED BY <2>3, <2>4
<1>4. TypeOK /\ HoldIsReal /\ [Next]_vars =>
        [blocked /\ ~blocked' => sinceObstacle = ClearHold]_vars
  BY <1>3
<1> QED BY <1>1, <1>2, <1>4, PTL DEF Spec, OpensAfterHold

(***************************************************************************)
(* Wander: a move on the display is of now.                                *)
(***************************************************************************)

\* The larger and the smaller of two integers.
LEMMA LargerOf ==
  ASSUME NEW x \in Int, NEW y \in Int
  PROVE  Max({x, y}) \in Int /\ Max({x, y}) \in {x, y} /\ Max({x, y}) >= x /\ Max({x, y}) >= y
<1>1. \E m \in {x, y} : \A z \in {x, y} : m >= z
  <2>1. CASE x >= y
    BY <2>1
  <2>2. CASE y >= x
    BY <2>2
  <2> QED BY <2>1, <2>2
<1>2. Max({x, y}) \in {x, y} /\ Max({x, y}) >= x /\ Max({x, y}) >= y
  BY <1>1 DEF Max
<1> QED BY <1>2

\* The smaller of two integers.
LEMMA SmallerOf ==
  ASSUME NEW x \in Int, NEW y \in Int
  PROVE  Min({x, y}) \in Int /\ Min({x, y}) \in {x, y} /\ Min({x, y}) <= x /\ Min({x, y}) <= y
<1>1. \E m \in {x, y} : \A z \in {x, y} : m <= z
  <2>1. CASE x <= y
    BY <2>1
  <2>2. CASE y <= x
    BY <2>2
  <2> QED BY <2>1, <2>2
<1>2. Min({x, y}) \in {x, y} /\ Min({x, y}) <= x /\ Min({x, y}) <= y
  BY <1>1 DEF Min
<1> QED BY <1>2

\* What goes through the pipe, the reader's hand and the queue.
Nears == {Nearest(cloud) : cloud \in SUBSET Points}
GoodLines == [kind : {"good"}, nearest : Nears, sentAt : Int, cloudAge : Int, odomAge : Int]
Lines == {Eof, [kind |-> "bad"]} \cup GoodLines
Items == [line : Lines, receivedAt : Int]
Views == [action : {"STOP", "FORWARD", "TURN_LEFT", "TURN_RIGHT"}, at : Int, age : Int, unread : Int]

SourceTypes == now \in Nat /\ cloudAt \in Int /\ odomAt \in Int /\ pipe \in Seq(Lines)
QueueOfItems == lines \in Seq(Items) /\ inHand \in Items \cup {NoLine}

\* A move is shown from the moment the loop went to get the next line, unless it is held up
\* in its output; after a silence, and after the end of the pipe, it is STOP.
Watched ==
    /\ printed \in Views /\ loop \in {"get", "output", "over"}
    /\ printed.action # "STOP" =>
         /\ printed.age <= StaleLimit + printed.unread
         /\ loop # "over" /\ ~reported
         /\ loop = "get" => gotAt = printed.at /\ now - gotAt <= StaleLimit
    /\ reported => loop # "output"
WanderIInv == SourceTypes /\ QueueOfItems /\ Watched

\* The loop has seen no scan, and the robot stands.
LEMMA WanderInitInv == WanderInit => WanderIInv
<1> SUFFICES ASSUME WanderInit PROVE WanderIInv
  OBVIOUS
<1>1. printed \in Views /\ printed.action = "STOP"
  BY DEF WanderInit, Views
<1>2. SourceTypes /\ QueueOfItems
  BY DEF WanderInit, SourceTypes, QueueOfItems
<1>3. Watched
  BY <1>1 DEF WanderInit, Watched
<1> QED BY <1>2, <1>3 DEF WanderIInv

\* The source prints lines; an age it prints is a number.
LEMMA SourcePrints == ASSUME WanderIInv, SourceRound PROVE WanderIInv'
<1> USE WanderAssumption DEF WanderAssumption, WanderIInv, SourceTypes
<1>1. ASSUME NEW cloud \in SUBSET Points, cloudAt' \in Int, odomAt' \in Int
      PROVE  Record(cloud) \in Lines
  <2>1. \A since \in Int : Aged(since) \in Int
    <3> SUFFICES ASSUME NEW since \in Int PROVE Aged(since) \in Int
      OBVIOUS
    <3>1. now - since \in Int /\ StaleLimit + 1 \in Int
      OBVIOUS
    <3> QED BY <3>1, SmallerOf DEF Aged
  <2>2. Aged(cloudAt') \in Int /\ Aged(odomAt') \in Int /\ now \in Int
    BY <1>1, <2>1
  <2>3. Nearest(cloud) \in Nears
    BY DEF Nears
  <2>4. [kind |-> "good", nearest |-> Nearest(cloud), sentAt |-> now,
         cloudAge |-> Aged(cloudAt'), odomAge |-> Aged(odomAt')] \in GoodLines
    BY <2>2, <2>3 DEF GoodLines
  <2> QED BY <2>4 DEF Record, Lines
<1>2. cloudAt' \in Int /\ odomAt' \in Int
  BY DEF SourceRound, TakeOdom, TakeCloud
<1>3. \E line \in Lines : pipe' = Append(pipe, line)
  <2>1. CASE PrintLine(Eof)
    BY <2>1 DEF PrintLine, Lines
  <2>2. CASE \E cloud \in SUBSET Points : PrintLine(Record(cloud))
    BY <1>1, <1>2, <2>2 DEF PrintLine
  <2> QED BY <2>1, <2>2 DEF SourceRound, TakeCloud
<1>4. pipe' \in Seq(Lines)
  BY <1>3, AppendProperties
<1>5. SourceTypes'
  BY <1>2, <1>4 DEF SourceRound
<1>6. QueueOfItems' /\ Watched'
  BY DEF SourceRound, QueueOfItems, Watched, readerVars, loopVars
<1> QED BY <1>5, <1>6

\* The reader takes lines from the pipe and puts them into the queue.
LEMMA ReaderReads == ASSUME WanderIInv, ReadLine \/ PutLine PROVE WanderIInv'
<1> USE DEF WanderIInv
<1>1. Watched'
  BY DEF ReadLine, PutLine, Watched, loopVars
<1>2. CASE ReadLine
  <2>1. Head(pipe) \in Lines /\ Tail(pipe) \in Seq(Lines)
    BY <1>2, HeadTailProperties DEF ReadLine, SourceTypes
  <2>2. Taken(Head(pipe)) \in Items
    BY <2>1 DEF Taken, Items, SourceTypes
  <2>3. SourceTypes'
    BY <1>2, <2>1 DEF ReadLine, SourceTypes
  <2>4. QueueOfItems'
    BY <1>2, <2>2, AppendProperties DEF ReadLine, QueueOfItems
  <2> QED BY <1>1, <2>3, <2>4
<1>3. CASE PutLine
  <2>1. SourceTypes'
    BY <1>3 DEF PutLine, SourceTypes, sourceVars
  <2>2. QueueOfItems'
    BY <1>3, AppendProperties DEF PutLine, QueueOfItems
  <2> QED BY <1>1, <2>1, <2>2
<1> QED BY <1>2, <1>3

\* A move is decided on a line whose ages, with the time since the reader took it, are
\* within the limit.
LEMMA LineDecides == ASSUME WanderIInv, GetLine PROVE WanderIInv'
<1> USE WanderAssumption DEF WanderAssumption, WanderIInv
<1>1. Head(lines) \in Items /\ lines' \in Seq(Items)
  BY HeadTailProperties DEF GetLine, QueueOfItems
<1>2. SourceTypes' /\ QueueOfItems'
  BY <1>1 DEF GetLine, SourceTypes, QueueOfItems, sourceVars
<1>3. now \in Int /\ now' = now /\ reported' = FALSE /\ loop = "get"
  BY DEF GetLine, SourceTypes
<1>4. PICK item \in Items : item = Head(lines) /\ Handle(item)
  BY <1>1 DEF GetLine
<1>5. Stop \in Views /\ Stop.action = "STOP"
  BY <1>3 DEF Stop, Views
<1>6. ASSUME printed' = Stop, loop' \in {"get", "output", "over"} PROVE Watched'
  <2>1. printed' \in Views /\ printed'.action = "STOP"
    BY <1>5, <1>6
  <2> QED BY ONLY <1>3, <1>6, <2>1 DEF Watched
<1>7. ASSUME item.line.kind = "good", Recent(item.line, now - item.receivedAt),
             NEW a \in Chosen(item.line),
             Report([action |-> a, at |-> now,
                     age |-> now - item.line.sentAt + Max({item.line.cloudAge, item.line.odomAge}),
                     unread |-> item.receivedAt - item.line.sentAt])
      PROVE  Watched'
  <2>1. item.line \in GoodLines /\ item.receivedAt \in Int
    BY <1>7 DEF Items, Lines, Eof
  <2>2. PICK s \in Int, c \in Int, o \in Int, r \in Int, n \in Int :
          /\ s = item.line.sentAt /\ c = item.line.cloudAge /\ o = item.line.odomAge
          /\ r = item.receivedAt /\ n = now
    BY <1>3, <2>1 DEF GoodLines
  <2>3. PICK m \in Int : m = Max({c, o}) /\ (m = c \/ m = o)
    BY LargerOf
  <2>4. c + (n - r) <= StaleLimit /\ o + (n - r) <= StaleLimit
    BY <1>7, <2>2 DEF Recent
  <2>5. n - s + m \in Int /\ r - s \in Int /\ n - s + m <= StaleLimit + (r - s)
    BY <2>3, <2>4
  <2>6. a \in {"STOP", "FORWARD", "TURN_LEFT", "TURN_RIGHT"}
    BY <1>7 DEF Chosen, Candidates, Toward
  <2>7. /\ printed' = [action |-> a, at |-> n, age |-> n - s + m, unread |-> r - s]
        /\ gotAt' = n /\ loop' \in {"get", "output"}
    BY <1>7, <2>2, <2>3 DEF Report
  <2>8. printed' \in Views
    BY <2>5, <2>6, <2>7 DEF Views
  <2>9. printed'.age <= StaleLimit + printed'.unread /\ printed'.at = gotAt'
    BY <2>5, <2>7
  <2>10. now' - gotAt' <= StaleLimit
    BY <1>3, <2>2, <2>7
  <2> QED BY <1>3, <2>7, <2>8, <2>9, <2>10 DEF Watched
<1>8. Watched'
  BY <1>4, <1>6, <1>7 DEF Handle, Report
<1> QED BY <1>2, <1>8

\* Every step of the source, of the reader's thread and of the loop keeps the invariant.
LEMMA WanderNextInv == WanderIInv /\ [WanderNext]_wanderVars => WanderIInv'
<1> SUFFICES ASSUME WanderIInv, [WanderNext]_wanderVars PROVE WanderIInv'
  OBVIOUS
<1> USE WanderAssumption DEF WanderAssumption, WanderIInv
<1>1. CASE GetTimeout
  <2>1. SourceTypes' /\ QueueOfItems'
    BY <1>1 DEF GetTimeout, SourceTypes, QueueOfItems, sourceVars, readerVars
  <2>2. Stop \in Views /\ Stop.action = "STOP"
    BY DEF Stop, Views, SourceTypes
  <2>3. printed' \in Views /\ printed'.action = "STOP"
    BY <1>1, <2>2 DEF GetTimeout, Watched
  <2>4. Watched'
    BY <1>1, <2>3 DEF GetTimeout, Watched
  <2> QED BY <2>1, <2>4
<1>2. CASE OutputDone
  <2>1. SourceTypes' /\ QueueOfItems'
    BY <1>2 DEF OutputDone, SourceTypes, QueueOfItems, sourceVars, readerVars
  <2>2. now \in Int /\ now' = now /\ gotAt' = now /\ loop' = "get" /\ reported' = reported
    BY <1>2 DEF OutputDone, SourceTypes
  <2>3. printed' \in Views /\ printed'.at = now /\ printed'.action = printed.action
        /\ printed'.age = printed.age /\ printed'.unread = printed.unread
    BY <1>2, <2>2 DEF OutputDone, Watched, Views
  <2>4. Watched'
    BY <1>2, <2>2, <2>3 DEF Watched, OutputDone
  <2> QED BY <2>1, <2>4
<1>3. CASE WanderTick
  <2>1. SourceTypes' /\ QueueOfItems'
    BY <1>3 DEF WanderTick, SourceTypes, QueueOfItems, sourceVars, readerVars
  <2>2. now \in Int /\ now' = now + 1 /\ UNCHANGED loopVars /\ (loop = "get" => now - gotAt < StaleLimit)
    BY <1>3 DEF WanderTick, SourceTypes
  <2>3. Watched'
    <3>1. printed.action # "STOP" /\ loop = "get" => gotAt \in Int
      BY DEF Watched, Views
    <3>2. printed.action # "STOP" /\ loop = "get" => now' - gotAt <= StaleLimit
      BY <2>2, <3>1
    <3> QED BY <2>2, <3>2 DEF Watched, loopVars
  <2> QED BY <2>1, <2>3
<1>4. CASE UNCHANGED wanderVars
  BY <1>4 DEF wanderVars, sourceVars, readerVars, loopVars, SourceTypes, QueueOfItems, Watched
<1> QED BY <1>1, <1>2, <1>3, <1>4, SourcePrints, ReaderReads, LineDecides DEF WanderNext

\* A move on the display rests on a cloud and an odometry that are not stale, for any limit,
\* cloud, queue and pipe.
THEOREM WanderSafety == WanderSpec => []MoveIsFresh
<1>1. WanderIInv => MoveIsFresh
  <2> SUFFICES ASSUME WanderIInv, printed.action # "STOP"
               PROVE  /\ printed.age <= StaleLimit + printed.unread /\ loop # "over"
                      /\ loop = "get" => now - printed.at <= StaleLimit
    BY DEF MoveIsFresh
  <2> QED BY DEF WanderIInv, Watched
<1> QED BY <1>1, WanderInitInv, WanderNextInv, PTL DEF WanderSpec

(***************************************************************************)
(* FoundGate: a trigger is earned.                                         *)
(***************************************************************************)

GateTypes ==
    /\ clock \in Nat /\ until \in Nat
    /\ result \in [running : BOOLEAN, stamp : Int, shows : SUBSET Sights]
    /\ start \in Int /\ lastSeen \in Int /\ clearStart \in Int /\ clearLast \in Int
    /\ lastSample \in Int /\ eligibleAfter \in Int
    /\ seenSince \in Int /\ seenLast \in Int /\ awaySince \in Int
GateFlags == waiting \in BOOLEAN /\ rearmed \in BOOLEAN

\* Nothing is dated later than the latest result, nor that later than now.
Stamped ==
    /\ result.stamp >= -1 /\ (result.running => result.stamp >= 0)
    /\ result.stamp <= clock /\ lastSample <= result.stamp
    /\ seenSince <= result.stamp /\ seenLast <= result.stamp /\ awaySince <= result.stamp

\* A confirmation under way began no earlier than the target was seen without a gap.
Seeing ==
    start # Never =>
        /\ ~waiting /\ ~Cooling
        /\ lastSeen # Never /\ start <= lastSeen /\ lastSeen <= lastSample
        /\ seenLast # Never /\ lastSeen <= seenLast /\ seenSince <= start

\* An absence under way began no earlier than results showed it; the result looked at last
\* does not break it.
Clearing ==
    /\ ~waiting => rearmed
    /\ clearStart # Never =>
        /\ waiting /\ ~Cooling
        /\ clearLast # Never /\ clearLast <= lastSample /\ eligibleAfter < clearLast
        /\ lastSample = result.stamp => "target" \notin result.shows /\ "cover" \notin result.shows
        /\ rearmed \/ (awaySince # Never /\ awaySince <= clearStart)
GateIInv == GateTypes /\ GateFlags /\ Stamped /\ Seeing /\ Clearing

\* Nobody has been seen.
LEMMA GateInitInv == GateInit => GateIInv
<1> SUFFICES ASSUME GateInit PROVE GateIInv
  OBVIOUS
<1> USE DEF GateInit, Never
<1>1. result.running = FALSE /\ result.stamp = -1 /\ result \in [running : BOOLEAN, stamp : Int, shows : SUBSET Sights]
  OBVIOUS
<1>2. GateTypes /\ GateFlags
  BY <1>1 DEF GateTypes, GateFlags
<1>3. Stamped
  BY <1>1 DEF Stamped
<1>4. Seeing /\ Clearing
  BY DEF Seeing, Clearing
<1> QED BY <1>2, <1>3, <1>4 DEF GateIInv

\* A later result, and time, break neither.
LEMMA GateWaits == ASSUME GateIInv, NewResult \/ GateTick PROVE GateIInv'
<1> USE DEF GateIInv
<1>1. CASE GateTick
  <2>1. clock' = clock + 1 /\ clock \in Nat /\ until \in Nat
    BY <1>1 DEF GateTick, GateTypes
  <2>2. GateTypes' /\ GateFlags'
    BY <1>1 DEF GateTick, GateTypes, GateFlags, absence, detection, gateHistory
  <2>3. Stamped'
    BY <1>1, <2>1 DEF GateTick, GateTypes, Stamped, absence, detection, gateHistory
  <2>4. ~Cooling => ~Cooling'
    BY <1>1, <2>1 DEF GateTick, Cooling
  <2>5. Seeing' /\ Clearing'
    BY <1>1, <2>4 DEF GateTick, Seeing, Clearing, absence, detection, gateHistory
  <2> QED BY <2>2, <2>3, <2>5
<1>2. CASE NewResult
  <2>1. /\ UNCHANGED <<clock, until, waiting, absence, detection, lastSample, eligibleAfter, gateHistory>>
    BY <1>2 DEF NewResult
  <2>2. /\ result' \in [running : BOOLEAN, stamp : Int, shows : SUBSET Sights]
        /\ result'.stamp <= clock /\ result.stamp <= result'.stamp
        /\ result'.running => result'.stamp >= 0
        /\ result'.stamp = result.stamp => result'.shows = result.shows
    <3>1. CASE result.running /\ result' = [result EXCEPT !.running = FALSE]
      <4>1. result \in [running : BOOLEAN, stamp : Int, shows : SUBSET Sights]
        BY DEF GateTypes
      <4>2. /\ result' \in [running : BOOLEAN, stamp : Int, shows : SUBSET Sights]
            /\ result'.running = FALSE /\ result'.stamp = result.stamp /\ result'.shows = result.shows
        BY <3>1, <4>1
      <4>3. result.stamp \in Int /\ result.stamp <= clock
        BY <4>1 DEF Stamped
      <4>4. result.stamp <= result.stamp
        BY <4>3
      <4> QED BY <4>2, <4>3, <4>4
    <3>2. CASE \E shows \in SUBSET Sights, stamp \in (clock - 1)..clock :
                 /\ stamp > result.stamp
                 /\ result' = [running |-> TRUE, stamp |-> stamp, shows |-> shows]
      <4>1. PICK shows \in SUBSET Sights, stamp \in (clock - 1)..clock :
                 /\ stamp > result.stamp
                 /\ result' = [running |-> TRUE, stamp |-> stamp, shows |-> shows]
        BY <3>2
      <4>2. result.stamp \in Int /\ clock \in Nat /\ result.stamp >= -1
        BY DEF GateTypes, Stamped
      <4>3. stamp \in Int /\ stamp <= clock /\ stamp >= 0
        BY <4>1, <4>2
      <4>4. result'.stamp = stamp /\ result' \in [running : BOOLEAN, stamp : Int, shows : SUBSET Sights]
        BY <4>1, <4>3
      <4> QED BY <4>1, <4>2, <4>3, <4>4
    <3> QED BY <1>2, <3>1, <3>2 DEF NewResult
  <2>3. GateTypes' /\ GateFlags'
    BY <2>1, <2>2 DEF GateTypes, GateFlags, absence, detection, gateHistory
  <2>4. result.stamp \in Int /\ result'.stamp \in Int
    BY <2>2 DEF GateTypes
  <2>5. Stamped'
    BY <2>1, <2>2, <2>4 DEF GateTypes, Stamped, absence, detection, gateHistory
  <2>6. Seeing'
    BY <2>1 DEF Seeing, Cooling, absence, detection, gateHistory
  <2>7. Clearing'
    <3>1. lastSample' = result'.stamp => lastSample = result.stamp /\ result'.shows = result.shows
      BY <2>1, <2>2, <2>4 DEF GateTypes, Stamped
    <3> QED BY <2>1, <3>1 DEF Clearing, Cooling, absence, detection, gateHistory
  <2> QED BY <2>3, <2>5, <2>6, <2>7
<1> QED BY <1>1, <1>2

\* What a look leaves behind of the gate, whatever it decided.
LEMMA LookTypes ==
  ASSUME GateIInv, Look
  PROVE  GateTypes' /\ GateFlags' /\ Stamped' /\ clock' = clock /\ result' = result
<1> USE GateAssumption DEF GateAssumption, GateIInv
<1>1. clock' = clock /\ result' = result /\ Remember /\ (Suspend \/ \E quiet \in BOOLEAN : Ask(quiet))
  BY DEF Look
<1>2. /\ until \in Nat /\ clock \in Nat /\ result.stamp \in Int
      /\ \A x \in {start, lastSeen, clearStart, clearLast, lastSample, eligibleAfter, seenSince,
                   seenLast, awaySince} : x \in Int
  BY DEF GateTypes
<1>3. until' \in Nat /\ eligibleAfter' \in Int /\ lastSample' \in {lastSample, result.stamp}
  BY <1>1, <1>2 DEF Suspend, Ask, Cool, NotRunning, OldResult, WaitClear, Unseen, SeenNow
<1>4. start' \in {Never, start, result.stamp} /\ lastSeen' \in {Never, lastSeen, result.stamp}
  BY <1>1 DEF Suspend, Ask, Cool, NotRunning, OldResult, WaitClear, Unseen, SeenNow, KeepDetection,
              NoDetection, detection, Since
<1>5. clearStart' \in {Never, clearStart, result.stamp} /\ clearLast' \in {Never, clearLast, result.stamp}
  BY <1>1 DEF Suspend, Ask, Cool, NotRunning, OldResult, WaitClear, Unseen, SeenNow, KeepAbsence,
              NoAbsence, absence
<1>6. /\ seenLast' \in {Never, seenLast, result.stamp} /\ seenSince' \in {Never, seenSince, result.stamp}
      /\ awaySince' \in {Never, awaySince, result.stamp}
  BY <1>1 DEF Remember
<1>7. GateTypes'
  <2>1. Never \in Int
    BY DEF Never
  <2> QED BY <1>1, <1>2, <1>3, <1>4, <1>5, <1>6, <2>1 DEF GateTypes
<1>8. waiting' \in BOOLEAN
  BY <1>1 DEF Suspend, Ask, Cool, NotRunning, OldResult, WaitClear, Unseen, SeenNow, GateFlags
<1>9. rearmed' \in BOOLEAN
  BY <1>1 DEF Remember
<1>10. Stamped'
  <2>1. result.stamp >= Never /\ lastSample <= result.stamp /\ seenSince <= result.stamp
        /\ seenLast <= result.stamp /\ awaySince <= result.stamp
    BY DEF Stamped, Never
  <2>2. lastSample' <= result.stamp /\ seenSince' <= result.stamp /\ seenLast' <= result.stamp
        /\ awaySince' <= result.stamp
    BY <1>2, <1>3, <1>6, <2>1
  <2> QED BY <1>1, <2>2 DEF Stamped
<1> QED BY <1>1, <1>7, <1>8, <1>9, <1>10 DEF GateFlags

\* A look keeps the confirmation with what was seen.
LEMMA LookSees == ASSUME GateIInv, Look PROVE Seeing'
<1> USE GateAssumption DEF GateAssumption, GateIInv
<1>1. clock' = clock /\ result' = result /\ Remember /\ (Suspend \/ \E quiet \in BOOLEAN : Ask(quiet))
  BY DEF Look
<1>2. /\ until \in Nat /\ clock \in Nat /\ result.stamp \in Int /\ start \in Int /\ lastSeen \in Int
      /\ lastSample \in Int /\ seenSince \in Int /\ seenLast \in Int
  BY DEF GateTypes
<1>3. ASSUME start' = start, lastSeen' = lastSeen, until' = until, waiting' = waiting, Running,
             lastSample' \in {lastSample, result.stamp}, ~Gap(lastSeen), start # Never
      PROVE  Seeing'
  <2>1. /\ ~waiting /\ ~Cooling /\ lastSeen # Never /\ start <= lastSeen /\ lastSeen <= lastSample
        /\ seenLast # Never /\ lastSeen <= seenLast /\ seenSince <= start
    BY <1>3 DEF Seeing
  <2>2. lastSample <= result.stamp /\ result.stamp <= clock /\ seenLast <= result.stamp
    BY DEF Stamped
  <2>3. clock - lastSeen <= Grace
    BY <1>2, <1>3, <2>1 DEF Gap
  <2>4. Chained
    BY <1>2, <2>1, <2>2, <2>3 DEF Chained
  <2>5. lastSeen <= lastSample'
    BY <1>2, <1>3, <2>1, <2>2
  <2>6. seenSince' = seenSince /\ seenLast' \in {seenLast, result.stamp}
    BY <1>1, <1>3, <2>4 DEF Remember
  <2>7. lastSeen <= seenLast' /\ seenLast' # Never
    <3>1. result.running => result.stamp >= 0
      BY DEF Stamped
    <3> QED BY <1>2, <1>3, <2>1, <2>2, <2>6, <3>1 DEF Running, Never
  <2>8. ~Cooling'
    BY <1>1, <1>3, <2>1 DEF Cooling
  <2> QED BY <1>3, <2>1, <2>5, <2>6, <2>7, <2>8 DEF Seeing
<1>4. CASE start' = Never
  BY <1>4 DEF Seeing
<1>5. CASE Cool
  BY <1>5, <1>4 DEF Cool, Seeing, detection
<1>6. CASE OldResult
  BY <1>4, <1>3, <1>6 DEF OldResult, KeepDetection, NoDetection, detection
<1>7. CASE WaitClear
  <2>1. start = Never
    BY <1>7 DEF WaitClear, Seeing
  <2> QED BY <1>4, <1>7, <2>1 DEF WaitClear, KeepDetection, NoDetection, detection
<1>8. CASE Unseen
  BY <1>4, <1>3, <1>8 DEF Unseen, KeepDetection, NoDetection, detection
<1>9. ASSUME NEW quiet, SeenNow(quiet) PROVE Seeing'
  <2>1. CASE Confirmed(quiet)
    BY <1>4, <1>9, <2>1 DEF SeenNow, NoDetection
  <2>2. CASE ~Confirmed(quiet)
    <3>1. /\ start' = Since /\ lastSeen' = result.stamp /\ lastSample' = result.stamp
          /\ until' = until /\ waiting' = waiting /\ ~waiting /\ ~Cooling /\ Running /\ Shows("target")
      BY <1>9, <2>2 DEF SeenNow
    <3>2. seenLast' = result.stamp /\ seenSince' = IF Chained THEN seenSince ELSE result.stamp
      BY <1>1, <3>1 DEF Remember
    <3>3. result.stamp >= 0 /\ seenSince <= result.stamp /\ lastSample <= result.stamp
          /\ result.stamp <= clock /\ seenLast <= result.stamp
      BY <3>1 DEF Running, Stamped
    <3>4. CASE start = Never \/ Gap(lastSeen)
      <4>1. start' = result.stamp
        BY <3>1, <3>4 DEF Since
      <4>2. seenSince' <= start'
        BY <1>2, <3>2, <3>3, <4>1
      <4> QED BY <1>1, <1>2, <3>1, <3>2, <3>3, <4>1, <4>2 DEF Seeing, Cooling, Never
    <3>5. CASE start # Never /\ ~Gap(lastSeen)
      <4>1. start' = start
        BY <3>1, <3>5 DEF Since
      <4>2. /\ lastSeen # Never /\ start <= lastSeen /\ lastSeen <= lastSample
            /\ seenLast # Never /\ lastSeen <= seenLast /\ seenSince <= start
        BY <3>5 DEF Seeing
      <4>3. clock - lastSeen <= Grace
        BY <1>2, <3>5, <4>2 DEF Gap
      <4>4. Chained
        BY <1>2, <3>3, <4>2, <4>3 DEF Chained
      <4>5. seenSince' <= start' /\ start' <= lastSeen'
        BY <1>2, <3>1, <3>2, <3>3, <4>1, <4>2, <4>4
      <4> QED BY <1>1, <1>2, <3>1, <3>2, <3>3, <4>5 DEF Seeing, Cooling, Never
    <3> QED BY <3>4, <3>5
  <2> QED BY <2>1, <2>2
<1>10. CASE Suspend \/ NotRunning
  BY <1>4, <1>10 DEF Suspend, NotRunning, NoDetection
<1> QED BY <1>1, <1>5, <1>6, <1>7, <1>8, <1>9, <1>10 DEF Ask

\* A gate that stops waiting has seen its target away for long enough.
LEMMA LookRearms == ASSUME GateIInv, Look PROVE ~waiting' => rearmed'
<1> USE GateAssumption DEF GateAssumption, GateIInv
<1>1. clock' = clock /\ result' = result /\ Remember /\ (Suspend \/ \E quiet \in BOOLEAN : Ask(quiet))
  BY DEF Look
<1>2. /\ until \in Nat /\ clock \in Nat /\ result.stamp \in Int /\ clearStart \in Int
      /\ awaySince \in Int
  BY DEF GateTypes
<1> SUFFICES ASSUME ~waiting' PROVE rearmed'
  OBVIOUS
<1>3. until' = until /\ ~Triggers
  <2>1. \A quiet : SeenNow(quiet) => until' = until
    BY DEF SeenNow
  <2>2. until' = until
    BY <1>1, <2>1 DEF Ask, Suspend, Cool, NotRunning, OldResult, WaitClear, Unseen
  <2> QED BY <1>2, <2>2 DEF Triggers
<1>4. CASE ~waiting
  <2>1. rearmed
    BY <1>4 DEF Clearing
  <2> QED BY <1>1, <1>3, <2>1 DEF Remember
<1>5. CASE waiting
  <2>1. WaitClear
    BY <1>1, <1>5 DEF Ask, Suspend, Cool, NotRunning, OldResult, Unseen, SeenNow
  <2>2. /\ Running /\ ~Shows("target") /\ ~Shows("cover")
        /\ result.stamp - (IF clearStart = Never \/ Gap(clearLast) THEN result.stamp ELSE clearStart)
             >= Rearm
    BY <1>5, <2>1 DEF WaitClear
  <2>3. clearStart # Never /\ result.stamp - clearStart >= Rearm
    BY <1>2, <2>2
  <2>4. rearmed \/ (awaySince # Never /\ awaySince <= clearStart)
    BY <2>3 DEF Clearing
  <2>5. CASE rearmed
    BY <1>1, <1>3, <2>5 DEF Remember
  <2>6. CASE ~rearmed
    <3>1. awaySince' = awaySince
      BY <1>1, <2>2, <2>4, <2>6 DEF Remember
    <3>2. result.stamp - awaySince' >= Rearm /\ awaySince' # Never
      BY <1>2, <2>3, <2>4, <2>6, <3>1
    <3> QED BY <1>1, <1>3, <3>2 DEF Remember
  <2> QED BY <2>5, <2>6
<1> QED BY <1>4, <1>5 DEF GateFlags

\* A look keeps the absence with what was seen away: a result that is too old to break it
\* leaves a gap that does.
LEMMA LookClears == ASSUME GateIInv, Look PROVE Clearing'
<1> USE GateAssumption DEF GateAssumption, GateIInv
<1>1. clock' = clock /\ result' = result /\ Remember /\ (Suspend \/ \E quiet \in BOOLEAN : Ask(quiet))
  BY DEF Look
<1>2. /\ until \in Nat /\ clock \in Nat /\ result.stamp \in Int /\ clearStart \in Int
      /\ clearLast \in Int /\ awaySince \in Int /\ lastSample \in Int /\ eligibleAfter \in Int
  BY DEF GateTypes
<1>3. ~waiting' => rearmed'
  BY LookRearms
<1>4. /\ lastSample <= result.stamp /\ result.stamp <= clock /\ awaySince <= result.stamp
      /\ result.running => result.stamp >= 0
  BY DEF Stamped
<1>5. CASE clearStart' = Never
  BY <1>3, <1>5 DEF Clearing
<1>6. CASE Cool
  BY <1>3, <1>5, <1>6 DEF Cool, Clearing, absence
<1>7. CASE Suspend \/ NotRunning
  BY <1>5, <1>7 DEF Suspend, NotRunning, NoAbsence
<1>8. CASE Unseen \/ \E quiet : SeenNow(quiet)
  <2>1. ~waiting /\ clearStart' = clearStart
    BY <1>8 DEF Unseen, SeenNow, absence
  <2>2. clearStart = Never
    BY <2>1 DEF Clearing
  <2> QED BY <1>5, <2>1, <2>2
<1>9. CASE OldResult
  <2>1. CASE waiting /\ Gap(clearLast)
    BY <1>5, <1>9, <2>1 DEF OldResult, KeepAbsence, NoAbsence
  <2>2. CASE ~(waiting /\ Gap(clearLast)) /\ clearStart # Never
    <3>1. /\ clearStart' = clearStart /\ clearLast' = clearLast /\ until' = until /\ waiting' = waiting
          /\ eligibleAfter' = eligibleAfter /\ Running
          /\ lastSample' = IF Counts THEN result.stamp ELSE lastSample
      BY <1>9, <2>2 DEF OldResult, KeepAbsence, absence
    <3>2. /\ waiting /\ ~Cooling /\ clearLast # Never /\ clearLast <= lastSample
          /\ eligibleAfter < clearLast
          /\ lastSample = result.stamp => "target" \notin result.shows /\ "cover" \notin result.shows
          /\ rearmed \/ (awaySince # Never /\ awaySince <= clearStart)
      BY <2>2 DEF Clearing
    <3>3. clock - clearLast <= Grace
      BY <1>2, <2>2, <3>2 DEF Gap
    <3>4. ~Counts
      <4>1. SUFFICES ASSUME Counts PROVE FALSE
        OBVIOUS
      <4>2. result.stamp > eligibleAfter /\ clock - result.stamp <= Grace
        BY <1>2, <1>4, <3>2, <3>3, <4>1 DEF Counts
      <4> QED BY <1>9, <4>1, <4>2 DEF OldResult, Eligible
    <3>5. lastSample = result.stamp
      BY <1>2, <1>4, <3>4 DEF Counts
    <3>6. ~Shows("target") /\ ~Shows("cover")
      BY <3>2, <3>5 DEF Shows
    <3>7. rearmed => rearmed'
      <4>1. ~Triggers
        BY <1>2, <3>1 DEF Triggers
      <4> QED BY <1>1, <4>1 DEF Remember
    <3>8. ~rearmed => awaySince' = awaySince
      BY <1>1, <3>1, <3>2, <3>6 DEF Remember
    <3>9. rearmed' \/ (awaySince' # Never /\ awaySince' <= clearStart')
      BY <3>1, <3>2, <3>7, <3>8
    <3>10. ~Cooling'
      BY <1>1, <3>1, <3>2 DEF Cooling
    <3>11. lastSample' = lastSample
      BY <3>1, <3>4
    <3> QED BY <1>1, <1>3, <3>1, <3>2, <3>9, <3>10, <3>11 DEF Clearing
  <2>3. CASE ~(waiting /\ Gap(clearLast)) /\ clearStart = Never
    BY <1>5, <1>9, <2>3 DEF OldResult, KeepAbsence, absence
  <2> QED BY <2>1, <2>2, <2>3
<1>10. CASE WaitClear
  <2> DEFINE since == IF clearStart = Never \/ Gap(clearLast) THEN result.stamp ELSE clearStart
  <2>1. /\ Running /\ ~Cooling /\ Eligible /\ waiting /\ until' = until /\ lastSample' = result.stamp
    BY <1>10 DEF WaitClear
  <2>2. CASE Shows("target") \/ Shows("cover") \/ result.stamp - since >= Rearm
    <3>1. clearStart' = Never
      BY <1>10, <2>2 DEF WaitClear, NoAbsence
    <3> QED BY <1>5, <3>1
  <2>3. CASE ~(Shows("target") \/ Shows("cover") \/ result.stamp - since >= Rearm)
    <3>1. /\ clearStart' = since /\ clearLast' = result.stamp /\ waiting' = waiting
          /\ eligibleAfter' = eligibleAfter
      BY <1>10, <2>3 DEF WaitClear
    <3>2. ~Cooling'
      BY <1>1, <2>1 DEF Cooling
    <3>3. "target" \notin result.shows /\ "cover" \notin result.shows
      BY <2>1, <2>3 DEF Shows
    <3>4. result.stamp >= 0 /\ result.stamp # Never /\ result.stamp > eligibleAfter
      BY <1>2, <1>4, <2>1 DEF Running, Eligible, Never
    <3>5. rearmed => rearmed'
      <4>1. ~Triggers
        BY <1>2, <2>1 DEF Triggers
      <4> QED BY <1>1, <4>1 DEF Remember
    <3>6. ~rearmed => awaySince' = IF awaySince = Never THEN result.stamp ELSE awaySince
      BY <1>1, <2>1, <2>3 DEF Remember
    <3>7. since # result.stamp => clearStart # Never /\ since = clearStart
      OBVIOUS
    <3>8. ~rearmed => awaySince' # Never /\ awaySince' <= since
      <4>1. CASE since = result.stamp
        BY <1>2, <1>4, <3>4, <3>6, <4>1
      <4>2. CASE since # result.stamp
        <5>1. ~rearmed => awaySince # Never /\ awaySince <= clearStart
          BY <3>7, <4>2 DEF Clearing
        <5> QED BY <3>6, <3>7, <4>2, <5>1
      <4> QED BY <4>1, <4>2
    <3>9. rearmed \in BOOLEAN
      BY DEF GateFlags
    <3>10. rearmed' \/ (awaySince' # Never /\ awaySince' <= clearStart')
      BY <3>1, <3>5, <3>8, <3>9
    <3>11. clearLast' <= lastSample' /\ clearLast' # Never /\ eligibleAfter' < clearLast'
      BY <1>2, <2>1, <3>1, <3>4
    <3> HIDE DEF since
    <3> QED BY <1>1, <1>3, <2>1, <3>1, <3>2, <3>3, <3>10, <3>11 DEF Clearing
  <2> QED BY <2>2, <2>3
<1> QED BY <1>1, <1>6, <1>7, <1>8, <1>9, <1>10 DEF Ask

\* Every new result, every tick of the clock and every look keeps the invariant.
LEMMA GateNextInv == GateIInv /\ [GateNext]_gateVars => GateIInv'
<1> SUFFICES ASSUME GateIInv, [GateNext]_gateVars PROVE GateIInv'
  OBVIOUS
<1>1. CASE Look
  BY <1>1, LookTypes, LookSees, LookClears DEF GateIInv
<1>2. CASE UNCHANGED gateVars
  BY <1>2 DEF gateVars, absence, detection, gateHistory, GateIInv, GateTypes, GateFlags, Stamped,
              Seeing, Clearing, Cooling
<1> QED BY <1>1, <1>2, GateWaits DEF GateNext

\* What a trigger rests on, for any confirmation time, grace, cooldown, absence and limit on
\* the age of a result (FoundGate.update).
THEOREM TriggersEarn == GateSpec => TriggersAreEarned
<1>1. ASSUME GateIInv, GateNext, Triggers
      PROVE  /\ clock - seenLast' <= Grace /\ seenLast' - seenSince' >= Duration
             /\ ~Shows("rival") /\ rearmed
  <2> USE <1>1, GateAssumption DEF GateAssumption, GateIInv
  <2>1. /\ until \in Nat /\ clock \in Nat /\ result.stamp \in Int /\ start \in Int
        /\ lastSeen \in Int /\ lastSample \in Int /\ seenSince \in Int /\ seenLast \in Int
    BY DEF GateTypes
  <2>2. until' # until
    BY <1>1, <2>1 DEF Triggers
  <2>3. Look /\ Remember
    BY <1>1, <2>2 DEF GateNext, NewResult, GateTick, Look
  <2>4. PICK busy \in BOOLEAN : SeenNow(busy \/ Shows("rival"))
    BY <2>2, <2>3 DEF Look, Suspend, Ask, Cool, NotRunning, OldResult, WaitClear, Unseen
  <2>5. Confirmed(busy \/ Shows("rival")) /\ Shows("target") /\ Eligible /\ Running /\ ~waiting
    BY <2>2, <2>4 DEF SeenNow
  <2>6. ~Shows("rival") /\ result.stamp - Since >= Duration
    BY <2>5 DEF Confirmed
  <2>7. rearmed
    BY <2>5 DEF Clearing
  <2>8. start # Never /\ ~Gap(lastSeen) /\ Since = start
    BY <2>1, <2>6 DEF Since
  <2>9. /\ lastSeen # Never /\ lastSeen <= lastSample /\ seenLast # Never /\ lastSeen <= seenLast
        /\ seenSince <= start
    BY <2>8 DEF Seeing
  <2>10. clock - lastSeen <= Grace /\ result.stamp <= clock /\ clock - result.stamp <= Grace
    BY <2>1, <2>5, <2>8, <2>9 DEF Gap, Stamped, Eligible
  <2>11. Chained
    BY <2>1, <2>9, <2>10 DEF Chained
  <2>12. seenLast' = result.stamp /\ seenSince' = seenSince
    BY <2>3, <2>5, <2>11 DEF Remember
  <2> QED BY <2>1, <2>6, <2>7, <2>8, <2>9, <2>10, <2>12
<1>2. ASSUME GateIInv, [GateNext]_gateVars
      PROVE  [Triggers => /\ clock - seenLast' <= Grace /\ seenLast' - seenSince' >= Duration
                          /\ ~Shows("rival") /\ rearmed]_gateVars
  BY <1>1, <1>2
<1> QED BY <1>2, GateInitInv, GateNextInv, PTL DEF GateSpec, TriggersAreEarned

(***************************************************************************)
(* GameView: what is hidden stays hidden, nothing is held, nothing is      *)
(* replayed.                                                               *)
(***************************************************************************)

Images == [seq : Nat, depth : 0..(Furthest + 1), rgb : 0..2, alpha : BOOLEAN, safety : Nat,
           may : BOOLEAN]
ImageTypes ==
    /\ image \in [Viewers -> Images] /\ shown \in [Viewers -> Images]
    /\ wire \in [Ports -> Images] /\ inbox \in [Ports -> Images] /\ seen \in [Ports -> Nat]
Stages == {"opening", "reading", "filtering", "publishing", "publishing safety", "showing",
           "reading safety", "decoding", "closing", "over"}
ViewerTypes ==
    /\ stage \in [Viewers -> Stages] /\ maxM \in Nat /\ Clear < maxM
    /\ held \in [Viewers -> BOOLEAN] /\ owned \in [Viewers -> BOOLEAN]
    /\ window \in [Viewers -> BOOLEAN]

\* What is clear or faded may be seen: once an image is filtered, and in the mask of a
\* payload until it is decoded.
Hidden ==
    /\ \A v \in Viewers :
         /\ shown[v].rgb > 0 => shown[v].may
         /\ stage[v] \in {"showing", "publishing", "publishing safety"} =>
              (image[v].rgb > 0 => image[v].may)
         /\ stage[v] \in {"reading safety", "decoding"} => (image[v].alpha => image[v].may)
    /\ \A p \in Ports : (wire[p].alpha => wire[p].may) /\ (inbox[p].alpha => inbox[p].may)

\* From its window on a viewer knows what it holds.
Known == \A v \in Viewers :
    /\ stage[v] \notin {"opening", "over"} => (held[v] => owned[v])
    /\ stage[v] = "over" => ~held[v] /\ ~window[v]

\* What the receiver has in hand is newer than what it shows.
Fresher ==
    LET r == "receiver" IN
    /\ shown[r].seq <= seen[GamePort]
    /\ "safety" \in publishes => shown[r].safety <= seen[SafetyPort]
    /\ stage[r] \in {"reading safety", "decoding", "showing"} =>
         image[r].seq = seen[GamePort] /\ shown[r].seq < image[r].seq
    /\ stage[r] \in {"decoding", "showing"} /\ "safety" \in publishes =>
         image[r].safety = seen[SafetyPort] /\ shown[r].safety < image[r].safety
ViewIInv == ImageTypes /\ ViewerTypes /\ Hidden /\ Known /\ Fresher

\* No viewer is open, and every image is empty.
LEMMA ViewInitInv == GameInit => ViewIInv
<1> SUFFICES ASSUME GameInit PROVE ViewIInv
  OBVIOUS
<1> USE GameViewAssumption DEF GameViewAssumption
<1>1. NoImage \in Images /\ NoImage.rgb = 0 /\ NoImage.alpha = FALSE /\ NoImage.seq = 0
      /\ NoImage.safety = 0
  BY DEF NoImage, Images
<1>2. /\ image = [v \in Viewers |-> NoImage] /\ shown = [v \in Viewers |-> NoImage]
      /\ wire = [p \in Ports |-> NoImage] /\ inbox = [p \in Ports |-> NoImage]
      /\ seen = [p \in Ports |-> 0] /\ stage = [v \in Viewers |-> "opening"]
      /\ held = [v \in Viewers |-> FALSE] /\ owned = [v \in Viewers |-> FALSE]
      /\ window = [v \in Viewers |-> FALSE] /\ maxM = Clear + 1
  BY DEF GameInit
<1>3. ImageTypes
  BY <1>1, <1>2 DEF ImageTypes
<1>4. ViewerTypes
  BY <1>2 DEF ViewerTypes, Stages
<1>5. Hidden
  BY <1>1, <1>2 DEF Hidden
<1>6. Known
  BY <1>2 DEF Known
<1>7. Fresher
  <2>1. GamePort \in Ports /\ SafetyPort \in Ports
    BY DEF GamePort, SafetyPort, Ports
  <2>2. "receiver" \in Viewers /\ stage["receiver"] = "opening"
    BY <1>2 DEF Viewers
  <2>3. shown["receiver"].seq = 0 /\ seen[GamePort] = 0 /\ shown["receiver"].safety = 0 /\ seen[SafetyPort] = 0
    BY <1>1, <1>2, <2>1, <2>2
  <2> QED BY <2>2, <2>3 DEF Fresher
<1> QED BY <1>3, <1>4, <1>5, <1>6, <1>7 DEF ViewIInv

\* A viewer that opens, gives up or closes has no image in hand that counts.
LEMMA StageMoves ==
  ASSUME ViewIInv, NEW v \in Viewers, UNCHANGED <<gameConfig, image, netVars, shown>>,
         stage' = stage \/ \E to \in {"closing", "reading", "over"} : Goes(v, to)
  PROVE  ImageTypes' /\ Hidden' /\ Fresher' /\ stage' \in [Viewers -> Stages]
<1> USE DEF ViewIInv, gameConfig, netVars
<1>1. /\ \A u \in Viewers : stage'[u] = stage[u] \/ stage'[u] \in {"closing", "reading", "over"}
      /\ stage' \in [Viewers -> Stages]
  BY DEF Goes, ViewerTypes, Stages
<1>2. ImageTypes'
  BY DEF ImageTypes
<1>3. Hidden'
  BY <1>1 DEF Hidden
<1>4. GamePort' = GamePort /\ SafetyPort' = SafetyPort
  BY DEF GamePort, SafetyPort
<1>5. Fresher'
  BY <1>1, <1>4 DEF Fresher, Viewers
<1> QED BY <1>1, <1>2, <1>3, <1>5

\* Opening and closing: what a failed stage took hold of it lets go.
LEMMA OpensAndCloses ==
  ASSUME ViewIInv, NEW v \in Viewers,
         OpenStage(v) \/ OpenFails(v) \/ OpenWindow(v) \/ NoFrame(v) \/ CloseViewer(v)
  PROVE  ViewIInv'
<1> USE DEF ViewIInv
<1>1. ImageTypes' /\ Hidden' /\ Fresher' /\ stage' \in [Viewers -> Stages]
  <2>1. UNCHANGED <<gameConfig, image, netVars, shown>>
    BY DEF OpenStage, OpenFails, OpenWindow, NoFrame, CloseViewer, Frame
  <2>2. stage' = stage \/ \E to \in {"closing", "reading", "over"} : Goes(v, to)
    BY DEF OpenStage, OpenFails, OpenWindow, NoFrame, CloseViewer
  <2> QED BY <2>1, <2>2, StageMoves
<1>2. maxM' = maxM
  BY DEF OpenStage, OpenFails, OpenWindow, NoFrame, CloseViewer
<1>3. /\ stage \in [Viewers -> Stages] /\ held \in [Viewers -> BOOLEAN] /\ owned \in [Viewers -> BOOLEAN]
      /\ window \in [Viewers -> BOOLEAN]
  BY DEF ViewerTypes
<1>4. /\ \A u \in Viewers \ {v} : /\ stage'[u] = stage[u] /\ held'[u] = held[u]
                                 /\ owned'[u] = owned[u] /\ window'[u] = window[u]
      /\ stage'[v] \notin {"opening", "over"} => (held'[v] => owned'[v])
      /\ stage'[v] = "over" => ~held'[v] /\ ~window'[v]
      /\ held' \in [Viewers -> BOOLEAN] /\ owned' \in [Viewers -> BOOLEAN]
      /\ window' \in [Viewers -> BOOLEAN]
  <2>1. CASE OpenStage(v)
    BY <1>3, <2>1 DEF OpenStage
  <2>2. CASE OpenFails(v)
    BY <1>3, <2>2 DEF OpenFails, Goes
  <2>3. CASE OpenWindow(v)
    BY <1>3, <2>3 DEF OpenWindow, Goes
  <2>4. CASE NoFrame(v)
    BY <1>3, <2>4 DEF NoFrame, Goes, Known, openVars
  <2>5. CASE CloseViewer(v)
    BY <1>3, <2>5 DEF CloseViewer, Goes, Known
  <2> QED BY <2>1, <2>2, <2>3, <2>4, <2>5
<1>5. ViewerTypes'
  BY <1>1, <1>2, <1>4 DEF ViewerTypes
<1>6. Known'
  BY <1>4 DEF Known
<1> QED BY <1>1, <1>5, <1>6

\* Between its window and its end, a viewer holds what it held.
LEMMA Underway ==
  ASSUME ViewIInv, NEW v \in Viewers, NEW to \in Stages \ {"opening", "over"},
         stage[v] \notin {"opening", "over"}, Goes(v, to), UNCHANGED openVars,
         maxM' \in Nat, Clear < maxM'
  PROVE  ViewerTypes' /\ Known' /\ stage'[v] = to /\ \A u \in Viewers \ {v} : stage'[u] = stage[u]
<1> USE DEF ViewIInv, openVars
<1>1. /\ stage' \in [Viewers -> Stages] /\ stage'[v] = to
      /\ \A u \in Viewers \ {v} : stage'[u] = stage[u]
  BY DEF Goes, ViewerTypes
<1>2. held' = held /\ owned' = owned /\ window' = window
  OBVIOUS
<1>3. ViewerTypes'
  BY <1>1, <1>2 DEF ViewerTypes
<1>4. Known'
  BY <1>1, <1>2 DEF Known
<1> QED BY <1>1, <1>3, <1>4

\* The filter lets through only what may be seen.
LEMMA FilterHides ==
  ASSUME NEW d \in 0..(Furthest + 1), maxM \in Nat, Clear < maxM
  PROVE  Filtered(d) \in 0..2 /\ MayBeSeen(d) \in BOOLEAN /\ (Filtered(d) > 0 => MayBeSeen(d))
<1> USE GameViewAssumption DEF GameViewAssumption
<1>1. MayBeSeen(d) \in BOOLEAN
  BY DEF MayBeSeen
<1>2. CASE d = NoDepth
  BY <1>1, <1>2 DEF Filtered, MayBeSeen, FovVisibility
<1>3. CASE d # NoDepth
  <2>1. DistanceVisibility(d) \in 0..2 /\ (DistanceVisibility(d) > 0 => d \in 1..(maxM - 1))
    BY DEF DistanceVisibility
  <2>2. CASE inFov
    <3>1. Filtered(d) = DistanceVisibility(d)
      BY <1>3, <2>1, <2>2 DEF Filtered, FovVisibility
    <3> QED BY <1>1, <1>3, <2>1, <2>2, <3>1 DEF MayBeSeen
  <2>3. CASE ~inFov
    <3>1. Filtered(d) = 0
      BY <1>3, <2>1, <2>3 DEF Filtered, FovVisibility
    <3> QED BY <1>1, <3>1
  <2> QED BY <2>2, <2>3
<1> QED BY <1>2, <1>3

\* What the sender does leaves the receiver as fresh as it was.
LEMMA SenderApart ==
  ASSUME ViewIInv, UNCHANGED <<gameConfig, seen, shown>>,
         image'["receiver"] = image["receiver"], stage'["receiver"] = stage["receiver"]
  PROVE  Fresher'
<1>1. GamePort' = GamePort /\ SafetyPort' = SafetyPort /\ publishes' = publishes
  BY DEF GamePort, SafetyPort, gameConfig
<1> QED BY <1>1 DEF ViewIInv, Fresher

\* A frame read is yet to be filtered.
LEMMA SenderReads == ASSUME ViewIInv, ReadFrame PROVE ViewIInv'
<1> USE DEF ViewIInv
<1> DEFINE s == "sender"
<1>1. /\ s \in Viewers /\ "receiver" \in Viewers \ {s} /\ stage[s] = "reading" /\ Goes(s, "filtering")
      /\ UNCHANGED openVars /\ UNCHANGED netVars /\ maxM' = maxM /\ shown' = shown
      /\ UNCHANGED gameConfig
  BY DEF ReadFrame, Viewers, Frame
<1>2. /\ ViewerTypes' /\ Known' /\ stage'[s] = "filtering"
      /\ \A u \in Viewers \ {s} : stage'[u] = stage[u]
  <2>1. "filtering" \in Stages \ {"opening", "over"}
    BY DEF Stages
  <2> QED BY <1>1, <2>1, Underway DEF ViewerTypes
<1>3. PICK d \in Depths :
        image' = [image EXCEPT ![s] = [NoImage EXCEPT !.seq = image[s].seq + 1, !.depth = d]]
  BY DEF ReadFrame
<1>4. [NoImage EXCEPT !.seq = image[s].seq + 1, !.depth = d] \in Images
  <2>1. d \in 0..(Furthest + 1)
    BY GameViewAssumption DEF GameViewAssumption, Depths, NoDepth
  <2>2. image[s].seq + 1 \in Nat
    BY <1>1 DEF ImageTypes, Images
  <2>3. NoImage \in Images
    BY GameViewAssumption DEF GameViewAssumption, NoImage, Images
  <2> QED BY <2>1, <2>2, <2>3 DEF Images
<1>5. image' \in [Viewers -> Images] /\ \A u \in Viewers \ {s} : image'[u] = image[u]
  BY <1>1, <1>3, <1>4 DEF ImageTypes
<1>6. ImageTypes'
  BY <1>1, <1>5 DEF ImageTypes, netVars
<1>7. Hidden'
  BY <1>1, <1>2, <1>5 DEF Hidden, netVars
<1>8. Fresher'
  BY <1>1, <1>2, <1>5, SenderApart DEF netVars
<1> QED BY <1>2, <1>6, <1>7, <1>8

\* What is filtered is shown and published only where it may be seen.
LEMMA SenderFilters == ASSUME ViewIInv, Filter PROVE ViewIInv'
<1> USE DEF ViewIInv
<1> DEFINE s == "sender"
           d == image[s].depth
<1>1. /\ s \in Viewers /\ "receiver" \in Viewers \ {s} /\ stage[s] = "filtering"
      /\ UNCHANGED openVars /\ UNCHANGED netVars /\ maxM' = maxM /\ shown' = shown
      /\ UNCHANGED gameConfig
  BY DEF Filter, Viewers, Frame
<1>2. PICK to \in {"closing", "showing", "publishing"} :
        /\ Goes(s, to)
        /\ \/ to = "closing" /\ image' = image
           \/ image' = [image EXCEPT ![s].rgb = Filtered(d), ![s].may = MayBeSeen(d)]
  BY DEF Filter
<1>3. /\ ViewerTypes' /\ Known' /\ stage'[s] = to
      /\ \A u \in Viewers \ {s} : stage'[u] = stage[u]
  <2>1. to \in Stages \ {"opening", "over"}
    BY DEF Stages
  <2> QED BY <1>1, <1>2, <2>1, Underway DEF ViewerTypes
<1>4. d \in 0..(Furthest + 1) /\ image[s] \in Images /\ image \in [Viewers -> Images]
  BY <1>1 DEF ImageTypes, Images
<1>5. Filtered(d) \in 0..2 /\ MayBeSeen(d) \in BOOLEAN /\ (Filtered(d) > 0 => MayBeSeen(d))
  BY <1>4, FilterHides DEF ViewerTypes
<1>6. /\ image' \in [Viewers -> Images] /\ \A u \in Viewers \ {s} : image'[u] = image[u]
      /\ to # "closing" => (image'[s].rgb > 0 => image'[s].may)
  <2>1. CASE to = "closing" /\ image' = image
    BY <1>4, <2>1
  <2>2. CASE image' = [image EXCEPT ![s].rgb = Filtered(d), ![s].may = MayBeSeen(d)]
    <3> DEFINE new == [[image[s] EXCEPT !.rgb = Filtered(d)] EXCEPT !.may = MayBeSeen(d)]
    <3>1. image' = [image EXCEPT ![s] = new]
      BY <1>1, <1>4, <2>2
    <3>2. new \in Images /\ new.rgb = Filtered(d) /\ new.may = MayBeSeen(d)
      BY <1>4, <1>5 DEF Images
    <3>3. new.rgb > 0 => new.may
      BY <1>5, <3>2
    <3> HIDE DEF new
    <3> QED BY <1>1, <1>4, <3>1, <3>2, <3>3
  <2> QED BY <1>2, <2>1, <2>2
<1>7. ImageTypes'
  BY <1>1, <1>6 DEF ImageTypes, netVars
<1>8. Hidden'
  BY <1>1, <1>2, <1>3, <1>6 DEF Hidden, netVars
<1>9. Fresher'
  BY <1>1, <1>3, <1>6, SenderApart DEF netVars
<1> QED BY <1>3, <1>7, <1>8, <1>9

Coloured(i, c, a) == [i EXCEPT !.rgb = c, !.alpha = a]

\* A new colour and a new mask leave the promise of an image as it was.
LEMMA Recoloured ==
  ASSUME NEW i \in Images, NEW c \in 0..2, NEW a \in BOOLEAN
  PROVE  /\ Coloured(i, c, a) \in Images /\ Coloured(i, c, a).alpha = a
         /\ Coloured(i, c, a).may = i.may
<1>1. [i EXCEPT !.rgb = c] \in Images /\ [i EXCEPT !.rgb = c].may = i.may
  BY DEF Images
<1>2. Coloured(i, c, a) = [[i EXCEPT !.rgb = c] EXCEPT !.alpha = a]
  BY DEF Coloured
<1>3. /\ [[i EXCEPT !.rgb = c] EXCEPT !.alpha = a] \in Images
      /\ [[i EXCEPT !.rgb = c] EXCEPT !.alpha = a].alpha = a
      /\ [[i EXCEPT !.rgb = c] EXCEPT !.alpha = a].may = [i EXCEPT !.rgb = c].may
  BY <1>1 DEF Images
<1> QED BY <1>1, <1>2, <1>3

\* A payload of the game has its mask where the image may be seen, one of the safety port
\* has none.
LEMMA SenderPublishes == ASSUME ViewIInv, PublishGame \/ PublishSafety PROVE ViewIInv'
<1> USE DEF ViewIInv
<1> DEFINE s == "sender"
<1>1. /\ s \in Viewers /\ "receiver" \in Viewers \ {s}
      /\ stage[s] \in {"publishing", "publishing safety"}
      /\ UNCHANGED openVars /\ maxM' = maxM /\ UNCHANGED <<image, shown, inbox, seen>>
      /\ UNCHANGED gameConfig
  BY DEF PublishGame, PublishSafety, Viewers, Frame
<1>2. PICK to \in Stages : Goes(s, to) /\ to \in {"publishing safety", "showing"}
  BY DEF PublishGame, PublishSafety, Stages
<1>3. /\ ViewerTypes' /\ Known' /\ stage'[s] = to
      /\ \A u \in Viewers \ {s} : stage'[u] = stage[u]
  <2>1. to \in Stages \ {"opening", "over"}
    BY <1>2
  <2> QED BY <1>1, <1>2, <2>1, Underway DEF ViewerTypes
<1>4. /\ image[s] \in Images /\ wire \in [Ports -> Images]
      /\ image[s].rgb \in 0..2
  BY <1>1 DEF ImageTypes, Images
<1>0. image[s].rgb # 0 => image[s].may
  <2>1. image[s].rgb # 0 => image[s].rgb > 0
    BY <1>4
  <2>2. image[s].rgb > 0 => image[s].may
    BY <1>1 DEF Hidden
  <2> QED BY <2>1, <2>2
<1>5. PICK p \in Ports, payload \in Images :
        wire' = [wire EXCEPT ![p] = payload] /\ (payload.alpha => payload.may)
  <2>1. CASE PublishGame
    <3>1. PICK c \in 0..2 : wire' = [wire EXCEPT !["game"] =
                                      [image[s] EXCEPT !.rgb = c, !.alpha = (image[s].rgb # 0)]]
      BY <2>1 DEF PublishGame, GamePayloads
    <3>0. image[s] \in Images /\ c \in 0..2
      BY <1>4
    <3> DEFINE i == image[s]
               masked == (image[s].rgb # 0)
               payload == Coloured(i, c, masked)
    <3>2. i \in Images /\ masked \in BOOLEAN
      BY <3>0
    <3> HIDE DEF i, masked
    <3>7. payload \in Images /\ payload.alpha = masked /\ payload.may = i.may
      BY <3>0, <3>2, Recoloured
    <3> HIDE DEF payload
    <3>3. /\ payload \in Images /\ payload.alpha = (image[s].rgb # 0)
          /\ payload.may = image[s].may
      BY <3>7 DEF i, masked
    <3>4. payload.alpha => payload.may
      <4>1. payload.alpha => image[s].rgb # 0
        BY <3>3
      <4> QED BY <1>0, <3>3, <4>1
    <3>5. "game" \in Ports
      BY DEF Ports
    <3>6. wire' = [wire EXCEPT !["game"] = payload]
      BY <3>1 DEF payload, i, masked, Coloured
    <3> QED BY <3>3, <3>4, <3>5, <3>6
  <2>2. CASE PublishSafety
    <3> DEFINE i == image[s]
    <3>0. i \in Images
      BY <1>4
    <3> HIDE DEF i
    <3>3. Coloured(i, 2, FALSE) \in Images /\ Coloured(i, 2, FALSE).alpha = FALSE
      <4>1. 2 \in 0..2 /\ FALSE \in BOOLEAN
        OBVIOUS
      <4> QED BY ONLY <3>0, <4>1, Recoloured
    <3>4. SafetyPayload(i) = [Coloured(i, 2, FALSE) EXCEPT !.may = FALSE]
      BY DEF SafetyPayload, Coloured
    <3>5. SafetyPayload(i) \in Images /\ SafetyPayload(i).alpha = FALSE
      BY <3>3, <3>4 DEF Images
    <3>1. SafetyPayload(image[s]) \in Images /\ SafetyPayload(image[s]).alpha = FALSE
      BY <3>5 DEF i
    <3>2. "safety" \in Ports /\ wire' = [wire EXCEPT !["safety"] = SafetyPayload(image[s])]
      BY <2>2 DEF PublishSafety, Ports
    <3> QED BY <3>1, <3>2
  <2> QED BY <2>1, <2>2
<1>6. /\ wire' \in [Ports -> Images] /\ wire'[p] = payload
      /\ \A q \in Ports \ {p} : wire'[q] = wire[q]
  <2>1. wire \in [Ports -> Images] /\ payload \in Images /\ p \in Ports
    BY <1>4
  <2>2. wire' = [wire EXCEPT ![p] = payload]
    BY <1>5
  <2> QED BY ONLY <2>1, <2>2
<1>7. ImageTypes'
  BY <1>1, <1>6 DEF ImageTypes
<1>8. Hidden'
  <2>1. \A q \in Ports : (wire'[q].alpha => wire'[q].may) /\ (inbox'[q].alpha => inbox'[q].may)
    BY <1>1, <1>5, <1>6 DEF Hidden
  <2>2. \A v \in Viewers :
         /\ shown'[v].rgb > 0 => shown'[v].may
         /\ stage'[v] \in {"showing", "publishing", "publishing safety"} =>
              (image'[v].rgb > 0 => image'[v].may)
         /\ stage'[v] \in {"reading safety", "decoding"} => (image'[v].alpha => image'[v].may)
    BY <1>0, <1>1, <1>2, <1>3 DEF Hidden
  <2> QED BY <2>1, <2>2 DEF Hidden
<1>9. Fresher'
  BY <1>1, <1>3, SenderApart
<1> QED BY <1>3, <1>7, <1>8, <1>9

\* The link changes nothing of a payload.
LEMMA LinkDelivers == ASSUME ViewIInv, NEW p \in Ports, Deliver(p) PROVE ViewIInv'
<1> USE DEF ViewIInv
<1>1. /\ UNCHANGED <<gameConfig, maxM, stage, openVars, image, wire, seen, shown>>
      /\ inbox' = [inbox EXCEPT ![p] = wire[p]]
  BY DEF Deliver, Frame
<1>2. ImageTypes'
  BY <1>1 DEF ImageTypes
<1>3. Hidden'
  BY <1>1 DEF Hidden, ImageTypes
<1>4. ViewerTypes' /\ Known'
  BY <1>1 DEF ViewerTypes, Known, openVars
<1>5. Fresher'
  BY <1>1, SenderApart
<1> QED BY <1>2, <1>3, <1>4, <1>5

\* A payload taken is of its port, and newer than what was taken before.
LEMMA ReceiverTakes == ASSUME ViewIInv, TakeGame \/ TakeSafety PROVE ViewIInv'
<1> USE DEF ViewIInv
<1> DEFINE r == "receiver"
<1>1. /\ r \in Viewers /\ stage[r] \in {"reading", "reading safety"}
      /\ UNCHANGED openVars /\ maxM' = maxM /\ UNCHANGED <<wire, inbox, shown>>
      /\ UNCHANGED gameConfig
  BY DEF TakeGame, TakeSafety, Viewers, Frame
<1>2. PICK to \in Stages : Goes(r, to) /\ to \in {"reading safety", "decoding", "closing"}
  BY DEF TakeGame, TakeSafety, Stages
<1>3. /\ ViewerTypes' /\ Known' /\ stage'[r] = to
      /\ \A u \in Viewers \ {r} : stage'[u] = stage[u]
  <2>1. to \in Stages \ {"opening", "over"}
    BY <1>2
  <2> QED BY <1>1, <1>2, <2>1, Underway DEF ViewerTypes
<1>4. GamePort \in Ports /\ SafetyPort \in Ports /\ GamePort # SafetyPort
  BY DEF GamePort, SafetyPort, Ports
<1>5. GamePort' = GamePort /\ SafetyPort' = SafetyPort /\ publishes' = publishes
  BY <1>1 DEF GamePort, SafetyPort, gameConfig
<1>6. /\ image \in [Viewers -> Images] /\ inbox \in [Ports -> Images] /\ seen \in [Ports -> Nat]
      /\ shown[r].seq \in Nat /\ shown[r].safety \in Nat
  BY <1>1 DEF ImageTypes, Images
<1>7. CASE TakeGame
  <2> DEFINE taken == inbox[GamePort]
  <2>1. /\ seen' = [seen EXCEPT ![GamePort] = taken.seq] /\ taken.seq > seen[GamePort]
        /\ image' = [image EXCEPT ![r] = taken]
        /\ stage[r] = "reading"
        /\ ("safety" \in publishes => to = "reading safety") /\ to # "closing"
    <3>1. /\ seen' = [seen EXCEPT ![GamePort] = taken.seq] /\ taken.seq > seen[GamePort]
          /\ image' = [image EXCEPT ![r] = taken]
          /\ stage[r] = "reading"
          /\ Goes(r, IF "safety" \in publishes THEN "reading safety" ELSE "decoding")
      BY <1>7 DEF TakeGame, Fresh
    <3>2. stage'[r] = IF "safety" \in publishes THEN "reading safety" ELSE "decoding"
      BY <1>1, <3>1 DEF Goes, ViewerTypes
    <3> QED BY <1>3, <3>1, <3>2
  <2>2. taken \in Images /\ taken.seq \in Nat /\ (taken.alpha => taken.may)
    BY <1>4, <1>6 DEF Hidden, Images
  <2>3. /\ image' \in [Viewers -> Images] /\ image'[r] = taken
        /\ \A u \in Viewers \ {r} : image'[u] = image[u]
    BY <1>1, <1>6, <2>1, <2>2
  <2>4. /\ seen' \in [Ports -> Nat] /\ seen'[GamePort] = taken.seq
        /\ seen'[SafetyPort] = seen[SafetyPort]
    BY <1>4, <1>6, <2>1, <2>2
  <2>5. ImageTypes'
    BY <1>1, <2>3, <2>4 DEF ImageTypes
  <2>6. Hidden'
    BY <1>1, <1>2, <1>3, <2>2, <2>3 DEF Hidden
  <2>7. Fresher'
    <3>1. shown[r].seq <= seen[GamePort] /\ ("safety" \in publishes => shown[r].safety <= seen[SafetyPort])
      BY DEF Fresher
    <3>2. shown'[r] = shown[r]
      BY <1>1
    <3>3. seen[GamePort] \in Nat
      BY <1>4, <1>6
    <3>4. shown[r].seq <= taken.seq /\ shown[r].seq < taken.seq
      <4>1. taken.seq > seen[GamePort] /\ taken.seq \in Nat /\ shown[r].seq <= seen[GamePort]
        BY <2>1, <2>2, <3>1
      <4> QED BY <1>6, <3>3, <4>1
    <3>5. /\ stage'[r] \in {"reading safety", "decoding"} /\ image'[r].seq = taken.seq
          /\ stage'[r] = "decoding" => "safety" \notin publishes
      BY <1>2, <1>3, <2>1, <2>3
    <3> HIDE DEF taken
    <3> QED BY <1>5, <2>4, <3>1, <3>2, <3>4, <3>5 DEF Fresher
  <2> QED BY <1>3, <2>5, <2>6, <2>7
<1>8. CASE TakeSafety
  <2> DEFINE taken == inbox[SafetyPort]
  <2>1. /\ seen' = [seen EXCEPT ![SafetyPort] = taken.seq] /\ taken.seq > seen[SafetyPort]
        /\ image' = [image EXCEPT ![r].safety = taken.seq]
        /\ stage[r] = "reading safety" /\ to # "reading safety"
    <3>1. /\ seen' = [seen EXCEPT ![SafetyPort] = taken.seq] /\ taken.seq > seen[SafetyPort]
          /\ image' = [image EXCEPT ![r].safety = taken.seq]
          /\ stage[r] = "reading safety"
          /\ Goes(r, IF mixedUp THEN "closing" ELSE "decoding")
      BY <1>8 DEF TakeSafety, Fresh
    <3>2. stage'[r] = IF mixedUp THEN "closing" ELSE "decoding"
      BY <1>1, <3>1 DEF Goes, ViewerTypes
    <3> QED BY <1>3, <3>1, <3>2
  <2>2. taken.seq \in Nat /\ image[r] \in Images
    BY <1>1, <1>4, <1>6 DEF Images
  <2>3. /\ image' \in [Viewers -> Images] /\ image'[r] = [image[r] EXCEPT !.safety = taken.seq]
        /\ \A u \in Viewers \ {r} : image'[u] = image[u]
    <3>1. [image[r] EXCEPT !.safety = taken.seq] \in Images
      BY <2>2 DEF Images
    <3> QED BY <1>1, <1>6, <2>1, <3>1
  <2>4. /\ image'[r].seq = image[r].seq /\ image'[r].safety = taken.seq
        /\ image'[r].alpha = image[r].alpha /\ image'[r].may = image[r].may
    BY <2>2, <2>3 DEF Images
  <2>5. /\ seen' \in [Ports -> Nat] /\ seen'[SafetyPort] = taken.seq
        /\ seen'[GamePort] = seen[GamePort]
    BY <1>4, <1>6, <2>1, <2>2
  <2>6. ImageTypes'
    BY <1>1, <2>3, <2>5 DEF ImageTypes
  <2>7. Hidden'
    BY <1>1, <1>2, <1>3, <2>1, <2>3, <2>4 DEF Hidden
  <2>8. Fresher'
    <3>1. /\ shown[r].seq <= seen[GamePort]
          /\ "safety" \in publishes => shown[r].safety <= seen[SafetyPort]
          /\ image[r].seq = seen[GamePort] /\ shown[r].seq < image[r].seq
      BY <2>1 DEF Fresher
    <3>2. shown'[r] = shown[r]
      BY <1>1
    <3>3. seen[SafetyPort] \in Nat
      BY <1>4, <1>6
    <3>4. "safety" \in publishes => shown[r].safety <= taken.seq /\ shown[r].safety < taken.seq
      <4>1. taken.seq > seen[SafetyPort]
        BY <2>1
      <4>2. "safety" \in publishes => shown[r].safety <= seen[SafetyPort]
        BY <3>1
      <4> QED BY <1>6, <2>2, <3>3, <4>1, <4>2
    <3>5. stage'[r] \in {"decoding", "closing"}
      BY <1>2, <1>3, <2>1
    <3>6. /\ shown'[r] = shown[r] /\ image'[r].seq = seen'[GamePort] /\ seen'[GamePort] = seen[GamePort]
          /\ image'[r].safety = taken.seq /\ seen'[SafetyPort] = taken.seq
          /\ image'[r].seq = image[r].seq
      BY <2>4, <2>5, <3>1, <3>2
    <3> HIDE DEF taken
    <3> QED BY <1>5, <3>1, <3>4, <3>5, <3>6 DEF Fresher
  <2> QED BY <1>3, <2>6, <2>7, <2>8
<1> QED BY <1>7, <1>8

\* Decoding shows no more than the mask of the payload lets through.
LEMMA ReceiverDecodes == ASSUME ViewIInv, Decode PROVE ViewIInv'
<1> USE DEF ViewIInv
<1> DEFINE r == "receiver"
<1>1. /\ r \in Viewers /\ stage[r] = "decoding" /\ UNCHANGED openVars /\ UNCHANGED netVars
      /\ maxM' = maxM /\ shown' = shown /\ UNCHANGED gameConfig
  BY DEF Decode, Viewers, Frame
<1>2. PICK to \in {"closing", "showing"} :
        /\ Goes(r, to)
        /\ \/ to = "closing" /\ image' = image
           \/ image' = [image EXCEPT ![r].rgb = DecodeGame(image[r])]
  BY DEF Decode
<1>3. /\ ViewerTypes' /\ Known' /\ stage'[r] = to
      /\ \A u \in Viewers \ {r} : stage'[u] = stage[u]
  <2>1. to \in Stages \ {"opening", "over"}
    BY DEF Stages
  <2> QED BY <1>1, <1>2, <2>1, Underway DEF ViewerTypes
<1>4. /\ image[r] \in Images /\ image \in [Viewers -> Images]
      /\ image[r].alpha => image[r].may
      /\ image[r].rgb \in 0..2
  BY <1>1 DEF ImageTypes, Images, Hidden
<1>5. /\ DecodeGame(image[r]) \in 0..2
      /\ DecodeGame(image[r]) > 0 => image[r].may
  BY <1>4 DEF DecodeGame
<1>6. /\ image' \in [Viewers -> Images] /\ \A u \in Viewers \ {r} : image'[u] = image[u]
      /\ image'[r].seq = image[r].seq /\ image'[r].safety = image[r].safety
      /\ to # "closing" => (image'[r].rgb > 0 => image'[r].may)
  <2>1. CASE to = "closing" /\ image' = image
    BY <1>4, <2>1
  <2>2. CASE image' = [image EXCEPT ![r].rgb = DecodeGame(image[r])]
    <3> DEFINE new == [image[r] EXCEPT !.rgb = DecodeGame(image[r])]
    <3>1. /\ new \in Images /\ new.rgb = DecodeGame(image[r]) /\ new.may = image[r].may
          /\ new.seq = image[r].seq /\ new.safety = image[r].safety
      BY <1>4, <1>5 DEF Images
    <3>2. image' \in [Viewers -> Images] /\ image'[r] = new /\ \A u \in Viewers \ {r} : image'[u] = image[u]
      BY <1>1, <1>4, <2>2, <3>1
    <3> HIDE DEF new
    <3> QED BY <1>5, <3>1, <3>2
  <2> QED BY <1>2, <2>1, <2>2
<1>7. ImageTypes'
  BY <1>1, <1>6 DEF ImageTypes, netVars
<1>8. Hidden'
  BY <1>1, <1>2, <1>3, <1>6 DEF Hidden, netVars
<1>9. Fresher'
  <2>1. GamePort' = GamePort /\ SafetyPort' = SafetyPort /\ publishes' = publishes
    BY <1>1 DEF GamePort, SafetyPort, gameConfig
  <2>2. seen' = seen /\ shown' = shown
    BY <1>1 DEF netVars
  <2> QED BY <1>1, <1>2, <1>3, <1>6, <2>1, <2>2 DEF Fresher
<1> QED BY <1>3, <1>7, <1>8, <1>9

\* What is shown was in hand: filtered, decoded and newer than the display.
LEMMA ViewerShows == ASSUME ViewIInv, NEW v \in Viewers, Show(v) PROVE ViewIInv'
<1> USE DEF ViewIInv
<1>1. /\ stage[v] = "showing" /\ UNCHANGED openVars /\ UNCHANGED netVars /\ image' = image
      /\ shown' = [shown EXCEPT ![v] = image[v]] /\ UNCHANGED gameConfig
  BY DEF Show, Frame
<1>2. PICK to \in {"closing", "reading"} : Goes(v, to)
  BY DEF Show
<1>3. maxM' \in Nat /\ Clear < maxM'
  BY GameViewAssumption DEF GameViewAssumption, Show, ViewerTypes
<1>4. /\ ViewerTypes' /\ Known' /\ stage'[v] = to
      /\ \A u \in Viewers \ {v} : stage'[u] = stage[u]
  <2>1. to \in Stages \ {"opening", "over"}
    BY DEF Stages
  <2> QED BY <1>1, <1>2, <1>3, <2>1, Underway
<1>5. ImageTypes'
  BY <1>1 DEF ImageTypes, netVars
<1>6. /\ shown'[v] = image[v] /\ \A u \in Viewers \ {v} : shown'[u] = shown[u]
  BY <1>1 DEF ImageTypes
<1>7. Hidden'
  BY <1>1, <1>2, <1>4, <1>6 DEF Hidden, netVars
<1>8. Fresher'
  <2>1. GamePort' = GamePort /\ SafetyPort' = SafetyPort /\ publishes' = publishes
    BY <1>1 DEF GamePort, SafetyPort, gameConfig
  <2>2. seen' = seen /\ image' = image
    BY <1>1 DEF netVars
  <2>3. CASE v = "receiver"
    <3>1. GamePort \in Ports /\ SafetyPort \in Ports /\ seen \in [Ports -> Nat]
      BY DEF GamePort, SafetyPort, Ports, ImageTypes
    <3>2. /\ image["receiver"].seq = seen[GamePort]
          /\ "safety" \in publishes => image["receiver"].safety = seen[SafetyPort]
      BY <1>1, <2>3 DEF Fresher
    <3>3. seen[GamePort] <= seen[GamePort] /\ seen[SafetyPort] <= seen[SafetyPort]
      BY <3>1
    <3> QED BY <1>2, <1>4, <1>6, <2>1, <2>2, <2>3, <3>2, <3>3 DEF Fresher
  <2>4. CASE v # "receiver"
    <3>1. "receiver" \in Viewers \ {v}
      BY <2>4 DEF Viewers
    <3> QED BY <1>4, <1>6, <2>1, <2>2, <3>1 DEF Fresher
  <2> QED BY <2>3, <2>4
<1> QED BY <1>4, <1>5, <1>7, <1>8

\* Every step of the viewers, of the camera's loop and of the ports keeps the invariant.
LEMMA ViewNextInv == ViewIInv /\ [GameNext]_gameVars => ViewIInv'
<1> SUFFICES ASSUME ViewIInv, [GameNext]_gameVars PROVE ViewIInv'
  OBVIOUS
<1>1. ASSUME NEW v \in Viewers,
             OpenStage(v) \/ OpenFails(v) \/ OpenWindow(v) \/ NoFrame(v) \/ CloseViewer(v)
      PROVE  ViewIInv'
  BY <1>1, OpensAndCloses
<1>2. ASSUME NEW v \in Viewers, Show(v) PROVE ViewIInv'
  BY <1>2, ViewerShows
<1>3. CASE ReadFrame
  BY <1>3, SenderReads
<1>4. CASE Filter
  BY <1>4, SenderFilters
<1>5. CASE PublishGame \/ PublishSafety
  BY <1>5, SenderPublishes
<1>6. ASSUME NEW p \in Ports, Deliver(p) PROVE ViewIInv'
  BY <1>6, LinkDelivers
<1>7. CASE TakeGame \/ TakeSafety
  BY <1>7, ReceiverTakes
<1>8. CASE Decode
  BY <1>8, ReceiverDecodes
<1>9. CASE UNCHANGED gameVars
  <2>1. UNCHANGED <<gameConfig, maxM, stage, openVars, image, netVars, shown>>
    BY <1>9 DEF gameVars
  <2>2. GamePort' = GamePort /\ SafetyPort' = SafetyPort
    BY <2>1 DEF GamePort, SafetyPort, gameConfig
  <2> USE DEF openVars, netVars, gameConfig
  <2>3. ImageTypes' /\ ViewerTypes'
    BY <2>1 DEF ViewIInv, ImageTypes, ViewerTypes
  <2>4. Hidden' /\ Known'
    BY <2>1 DEF ViewIInv, Hidden, Known
  <2>5. Fresher'
    BY <2>1, <2>2 DEF ViewIInv, Fresher
  <2> QED BY <2>3, <2>4, <2>5 DEF ViewIInv
<1> QED BY <1>1, <1>2, <1>3, <1>4, <1>5, <1>6, <1>7, <1>8, <1>9 DEF GameNext

\* No display of the game shows what the sender's limits hide, whatever the codec does to
\* the colours and whichever port is read for which; a viewer that has ended holds nothing.
THEOREM ViewSafety == GameSpec => []NothingSlipsOut
<1>1. ViewIInv => NothingSlipsOut
  BY DEF ViewIInv, Hidden, Known, NothingSlipsOut, HiddenStaysHidden, NothingIsHeld
<1> QED BY <1>1, ViewInitInv, ViewNextInv, PTL DEF GameSpec

\* Every image the receiver puts on its display is newer than the one it replaces, and so
\* is the safety image beside it.
THEOREM NoReplay == GameSpec => NothingIsReplayed
<1>1. ASSUME ViewIInv, GameNext, ReceiverShows
      PROVE  /\ shown'["receiver"].seq > shown["receiver"].seq
             /\ "safety" \in publishes =>
                  shown'["receiver"].safety > shown["receiver"].safety
  <2> DEFINE r == "receiver"
  <2>1. stage[r] = "showing" /\ stage'[r] # "showing" /\ r \in Viewers
    BY <1>1 DEF ReceiverShows, Viewers
  <2>2. Show(r)
    <3>1. ASSUME NEW u \in Viewers, NEW to, Goes(u, to), u # r PROVE FALSE
      <4>1. stage'[r] = stage[r]
        BY <3>1, <1>1, <2>1 DEF Goes, ViewIInv, ViewerTypes
      <4> QED BY <2>1, <4>1
    <3>2. stage' # stage /\ "sender" # r /\ "sender" \in Viewers
      BY <2>1 DEF Viewers
    <3>3. ASSUME NEW u \in Viewers, OpenStage(u) \/ OpenFails(u) \/ OpenWindow(u) \/ NoFrame(u)
                                    \/ CloseViewer(u)
          PROVE  FALSE
      <4>1. u # r
        BY <3>3, <2>1, <3>2 DEF OpenStage, OpenFails, OpenWindow, NoFrame, CloseViewer
      <4>2. \E to : Goes(u, to)
        BY <3>3, <3>2 DEF OpenStage, OpenFails, OpenWindow, NoFrame, CloseViewer
      <4> QED BY <3>1, <4>1, <4>2
    <3>4. ASSUME NEW u \in Viewers, Show(u) PROVE u = r
      BY <3>1, <3>4 DEF Show
    <3>5. ~(ReadFrame \/ Filter \/ PublishGame \/ PublishSafety)
      BY <3>1, <3>2 DEF ReadFrame, Filter, PublishGame, PublishSafety
    <3>6. ~(TakeGame \/ TakeSafety \/ Decode) /\ \A p \in Ports : ~Deliver(p)
      BY <2>1, <3>2 DEF TakeGame, TakeSafety, Decode, Deliver
    <3> QED BY <1>1, <3>3, <3>4, <3>5, <3>6 DEF GameNext
  <2>3. shown'[r] = image[r]
    BY <1>1, <2>1, <2>2 DEF Show, ViewIInv, ImageTypes
  <2>4. shown[r].seq < image[r].seq /\ ("safety" \in publishes => shown[r].safety < image[r].safety)
    BY <1>1, <2>1 DEF ViewIInv, Fresher
  <2>5. /\ shown[r].seq \in Nat /\ image[r].seq \in Nat
        /\ shown[r].safety \in Nat /\ image[r].safety \in Nat
    BY <1>1, <2>1 DEF ViewIInv, ImageTypes, Images
  <2> QED BY <2>3, <2>4, <2>5
<1>2. ASSUME ViewIInv, [GameNext]_gameVars
      PROVE  [ReceiverShows =>
                /\ shown'["receiver"].seq > shown["receiver"].seq
                /\ "safety" \in publishes =>
                     shown'["receiver"].safety > shown["receiver"].safety]_gameVars
  BY <1>1, <1>2
<1> QED BY <1>2, ViewInitInv, ViewNextInv, PTL DEF GameSpec, NothingIsReplayed

\* A set of bounded numbers that is not empty has a largest.
LEMMA HasLargest ==
  ASSUME NEW n \in Nat, NEW A, A \subseteq 0..n, A # {}
  PROVE  \E x \in A : \A y \in A : y <= x
<1> DEFINE Above(x) == {y \in A : x < y}
           T == {Above(x) : x \in A}
           S == FiniteSubsetsOf(0..n)
           R == StrictSubsetOrdering(0..n)
<1>1. ASSUME NEW x \in A PROVE Above(x) \in S
  <2>1. IsFiniteSet(0..n)
    BY FS_Interval
  <2>2. Above(x) \in SUBSET (0..n)
    OBVIOUS
  <2> HIDE DEF Above
  <2> QED BY <2>1, <2>2, FS_Subset DEF FiniteSubsetsOf
<1>2. IsWellFoundedOn(R, S)
  BY FS_StrictSubsetOrderingWellFounded
<1>3. T \subseteq S /\ T # {}
  BY <1>1
<1>4. PICK F \in T : \A G \in T : <<G, F>> \notin R
  <2> HIDE DEF T, S, R
  <2> QED BY <1>2, <1>3, WFMin
<1>5. PICK x \in A : F = Above(x)
  OBVIOUS
<1>6. ASSUME NEW y \in A, x < y PROVE FALSE
  <2>1. Above(y) \in T
    OBVIOUS
  <2>2. Above(y) \subseteq Above(x) /\ y \in Above(x) /\ y \notin Above(y)
    <3>1. \A z \in A : z \in Int
      OBVIOUS
    <3>2. x \in Int /\ y \in Int /\ ~(y < y)
      BY <3>1
    <3>3. \A z \in A : y < z => x < z
      BY <1>6, <3>1, <3>2
    <3> QED BY <1>6, <3>2, <3>3
  <2>3. Above(y) \in SUBSET (0..n) /\ Above(x) \in SUBSET (0..n)
    BY <1>1 DEF FiniteSubsetsOf
  <2>4. <<Above(y), Above(x)>> \in R
    <3> HIDE DEF Above
    <3> QED BY <2>2, <2>3 DEF StrictSubsetOrdering
  <2> QED BY <1>4, <1>5, <2>1, <2>4
<1> QED BY <1>6
(***************************************************************************)
(* SlamSession: each request once, in order, from the pose of the save.    *)
(***************************************************************************)

Poses == [at : Nat, place : Nat]
Seeds == Poses \cup {NoSeed}
Requests == [action : SlamActions, seed : Seeds, at : Nat]
WorldTypes ==
    /\ uptime \in Nat /\ place \in Nat /\ startedAt \in Nat
    /\ poses \subseteq Poses /\ telemetry.samples \subseteq Poses
FileTypes ==
    /\ attempted \subseteq SlamActions /\ seed \in [SlamActions -> Seeds]
    /\ outcomes \in [SlamActions -> {"none", "bad", "ok"}] /\ sent \in Seq(Requests)
StepTypes ==
    /\ step \in [Operators -> {"idle", "asked", "tries", "called"}]
    /\ action \in [Operators -> SlamActions]

\* Until the clock starts again, what was heard was heard before now.
HeardBefore == ~rebooted => \A s \in poses \cup telemetry.samples : s.at <= uptime

\* One command at a time has the lock; its attempt is on the disk, its result is not, and
\* it has called the robot or has not.
WasSent(a) == \E i \in DOMAIN sent : sent[i].action = a
Calls(p) ==
    step[p] \in {"tries", "called"} =>
        /\ holder = p /\ action[p] \in attempted /\ outcomes[action[p]] = "none"
        /\ step[p] = "tries" => ~WasSent(action[p])
        /\ step[p] = "called" => WasSent(action[p])

\* What the files say of each other and of the requests.
Tried ==
    /\ \A i \in DOMAIN sent : sent[i].action \in attempted
    /\ \A a \in SlamActions : outcomes[a] # "none" => a \in attempted
    /\ \A a \in SlamActions : outcomes[a] = "ok" => WasSent(a)
    /\ \A a, b \in attempted : a # b => a \notin SameCall(b)
Follows ==
    /\ "save" \in attempted => outcomes["start"] # "none" /\ WasSent("start")
    /\ "relocate" \in attempted \/ "zero" \in attempted =>
         outcomes["save"] # "none" /\ WasSent("save")
    /\ "relocate" \in attempted => seed["relocate"] = seed["save"]

\* The pose of the save, once it is sent, and of the relocation from it.
SaveSeen ==
    \A k \in DOMAIN sent : sent[k].action = "save" =>
        /\ seed["save"] \in Poses /\ startedAt < seed["save"].at
        /\ seed["save"].at <= sent[k].at /\ sent[k].at <= seed["save"].at + PoseAge
SeedSent ==
    \A i \in DOMAIN sent : sent[i].action = "relocate" =>
        sent[i].seed = seed["save"] /\ sent[i].at <= seed["save"].at + SeedAge

SlamIInv ==
    /\ WorldTypes /\ FileTypes /\ StepTypes /\ HeardBefore
    /\ \A p \in Operators : Calls(p)
    /\ Tried /\ Follows /\ SaveSeen /\ SeedSent /\ SentOnce /\ InOrder

\* The two relocations are one call, the others each their own.
LEMMA CallsOfOne ==
  /\ \A a \in SlamActions : a \in SameCall(a)
  /\ \A a, b \in SlamActions : a \in SameCall(b) <=> b \in SameCall(a)
  BY DEF SlamActions, SameCall

\* One more request.
LEMMA Appended ==
  ASSUME NEW s \in Seq(Requests), NEW e \in Requests
  PROVE  /\ Append(s, e) \in Seq(Requests) /\ Len(s) \in Nat
         /\ DOMAIN s = 1..Len(s) /\ DOMAIN Append(s, e) = 1..(Len(s) + 1)
         /\ Append(s, e)[Len(s) + 1] = e
         /\ \A i \in 1..Len(s) : Append(s, e)[i] = s[i]
  BY AppendProperties

\* No session runs, and nothing has been recorded.
LEMMA SlamInitInv == SlamInit => SlamIInv
<1> SUFFICES ASSUME SlamInit PROVE SlamIInv
  OBVIOUS
<1> USE DEF SlamInit
<1>1. WorldTypes /\ HeardBefore
  BY DEF WorldTypes, HeardBefore
<1>2. FileTypes
  BY DEF FileTypes, SlamActions, Seeds
<1>3. StepTypes
  BY DEF StepTypes, SlamActions
<1>4. \A p \in Operators : Calls(p)
  BY DEF Calls
<1>5. DOMAIN sent = {}
  OBVIOUS
<1>6. Tried /\ Follows
  BY <1>5 DEF Tried, Follows
<1>7. SaveSeen /\ SeedSent /\ SentOnce /\ InOrder
  BY <1>5 DEF SaveSeen, SeedSent, SentOnce, InOrder
<1> QED BY <1>1, <1>2, <1>3, <1>4, <1>6, <1>7 DEF SlamIInv

\* While no file changes and nothing is sent, what the files say stays true.
LEMMA FilesStay ==
  ASSUME SlamIInv, UNCHANGED <<slamFiles, sent>>
  PROVE  /\ FileTypes' /\ Tried' /\ Follows' /\ SaveSeen' /\ SeedSent' /\ SentOnce' /\ InOrder'
         /\ \A a : WasSent(a)' = WasSent(a)
<1> USE DEF SlamIInv, slamFiles
<1>1. FileTypes'
  BY DEF FileTypes
<1>2. \A a : WasSent(a)' = WasSent(a)
  BY DEF WasSent
<1>3. Tried' /\ Follows'
  BY <1>2 DEF Tried, Follows
<1>4. SaveSeen' /\ SeedSent' /\ SentOnce' /\ InOrder'
  BY DEF SaveSeen, SeedSent, SentOnce, InOrder
<1> QED BY <1>1, <1>2, <1>3, <1>4

\* The robot, the clock and the recorder.
LEMMA WorldGoesOn ==
  ASSUME SlamIInv, Passes \/ IsMoved \/ WritePoses \/ RecorderEnds
  PROVE  SlamIInv'
<1>1. UNCHANGED <<slamFiles, sent>> /\ UNCHANGED <<step, action, holder, rebooted>>
  BY DEF Passes, IsMoved, WritePoses, RecorderEnds
<1>2. WorldTypes' /\ HeardBefore'
  <2>1. WorldTypes /\ HeardBefore /\ startedAt' = startedAt
    BY <1>1 DEF SlamIInv, slamFiles
  <2>2. CASE Passes
    BY <1>1, <2>1, <2>2 DEF Passes, WorldTypes, HeardBefore, Poses
  <2>3. CASE IsMoved
    BY <1>1, <2>1, <2>3 DEF IsMoved, WorldTypes, HeardBefore
  <2>4. CASE WritePoses
    <3>1. /\ ~rebooted /\ uptime' = uptime /\ place' = place
          /\ telemetry' = [at |-> uptime, samples |-> poses']
          /\ poses' \subseteq poses \cup {[at |-> uptime, place |-> place]}
      BY <2>4 DEF WritePoses
    <3>2. [at |-> uptime, place |-> place] \in Poses /\ telemetry'.samples = poses'
      BY <2>1, <3>1 DEF WorldTypes, Poses
    <3>3. \A s \in poses' : s \in Poses /\ s.at <= uptime
      <4>1. \A s \in poses : s \in Poses /\ s.at <= uptime
        BY <2>1, <3>1 DEF WorldTypes, HeardBefore
      <4>2. [at |-> uptime, place |-> place].at <= uptime
        BY <2>1 DEF WorldTypes
      <4> QED BY <3>1, <3>2, <4>1, <4>2
    <3>4. WorldTypes'
      BY <2>1, <3>1, <3>2, <3>3 DEF WorldTypes
    <3> QED BY <3>1, <3>2, <3>3, <3>4 DEF HeardBefore
  <2>5. CASE RecorderEnds
    BY <1>1, <2>1, <2>5 DEF RecorderEnds, WorldTypes, HeardBefore
  <2> QED BY <2>2, <2>3, <2>4, <2>5
       DEF Passes, IsMoved, WritePoses, RecorderEnds
<1>3. StepTypes'
  BY <1>1 DEF SlamIInv, StepTypes
<1>4. \A p \in Operators : Calls(p)'
  BY <1>1, FilesStay DEF SlamIInv, Calls, slamFiles
<1> QED BY <1>1, <1>2, <1>3, <1>4, FilesStay DEF SlamIInv

\* A command that asks, gives up or dies leaves the others and the files as they were.
LEMMA CommandTurns ==
  ASSUME SlamIInv,
         \/ \E p \in Operators : (\E a \in SlamActions : AskFor(p, a)) \/ FindsLocked(p) \/ Dies(p)
         \/ Reboot
  PROVE  SlamIInv'
<1>1. UNCHANGED <<slamFiles, sent, place, telemetry>>
  BY DEF AskFor, FindsLocked, Dies, Reboot, slamFiles
<1>2. StepTypes
  BY DEF SlamIInv
<1>3. /\ StepTypes'
      /\ \A q \in Operators : step'[q] \in {"tries", "called"} =>
           step'[q] = step[q] /\ action'[q] = action[q] /\ (holder = q => holder' = q)
  <2>1. ASSUME NEW p \in Operators, NEW a \in SlamActions, AskFor(p, a)
        PROVE  /\ StepTypes'
               /\ \A q \in Operators : step'[q] \in {"tries", "called"} =>
                    step'[q] = step[q] /\ action'[q] = action[q] /\ (holder = q => holder' = q)
    BY <1>2, <2>1 DEF AskFor, To, StepTypes
  <2>2. ASSUME NEW p \in Operators, FindsLocked(p) \/ Dies(p)
        PROVE  /\ StepTypes'
               /\ \A q \in Operators : step'[q] \in {"tries", "called"} =>
                    step'[q] = step[q] /\ action'[q] = action[q] /\ (holder = q => holder' = q)
    BY <1>2, <2>2 DEF FindsLocked, Dies, Over, To, StepTypes, SlamActions
  <2>3. CASE Reboot
    BY <1>2, <2>3 DEF Reboot, StepTypes, SlamActions
  <2> QED BY <2>1, <2>2, <2>3
<1>4. \A q \in Operators : Calls(q)'
  BY <1>1, <1>3, FilesStay DEF SlamIInv, Calls, slamFiles
<1>5. WorldTypes' /\ HeardBefore'
  <2>1. WorldTypes /\ HeardBefore /\ startedAt' = startedAt
    BY <1>1 DEF SlamIInv, slamFiles
  <2>2. CASE Reboot
    BY <1>1, <2>1, <2>2 DEF Reboot, WorldTypes, HeardBefore
  <2>3. CASE UNCHANGED <<uptime, poses, rebooted>>
    BY <1>1, <2>1, <2>3 DEF WorldTypes, HeardBefore
  <2>4. Reboot \/ UNCHANGED <<uptime, poses, rebooted>>
    BY DEF AskFor, FindsLocked, Dies
  <2> QED BY <2>2, <2>3, <2>4
<1> QED BY <1>1, <1>3, <1>4, <1>5, FilesStay DEF SlamIInv

\* What is stable has a newest pose, heard since the mapping was started and before now.
LEMMA NewestIsHeard ==
  ASSUME WorldTypes, HeardBefore, ~rebooted, Stable(startedAt)
  PROVE  LET n == Newest(After(startedAt)) IN
         n \in Poses /\ startedAt < n.at /\ n.at <= uptime /\ uptime <= n.at + PoseAge
<1> DEFINE samples == After(startedAt)
           ats == {s.at : s \in samples}
<1>1. \A s \in samples : s \in Poses /\ s.at \in Nat /\ s.at <= uptime /\ startedAt < s.at
  BY DEF WorldTypes, HeardBefore, After, Poses
<1>2. samples # {}
  <2>1. Cardinality(samples) >= MinSamples
    BY DEF Stable
  <2>2. Cardinality({}) = 0 /\ MinSamples \in Nat \ {0}
    BY FS_EmptySet, SlamAssumption DEF SlamAssumption
  <2> QED BY <2>1, <2>2
<1>3. PICK x \in ats : \A y \in ats : y <= x
  <2>1. ats # {} /\ ats \subseteq 0..uptime /\ uptime \in Nat
    BY <1>1, <1>2 DEF WorldTypes
  <2> HIDE DEF ats
  <2> QED BY <2>1, HasLargest
<1>4. PICK s \in samples : \A r \in samples : r.at <= s.at
  BY <1>3
<1>5. Newest(samples) \in samples
  BY <1>4 DEF Newest
<1>6. uptime <= Newest(samples).at + PoseAge
  BY DEF Stable
<1> QED BY <1>1, <1>5, <1>6

\* No other command calls while the lock is free, or another's.
LEMMA LockIsOnes ==
  ASSUME SlamIInv, NEW q \in Operators, step[q] \in {"tries", "called"}
  PROVE  holder = q /\ holder # "nobody"
  BY SlamAssumption DEF SlamAssumption, SlamIInv, Calls

\* The attempt is on the disk before the request.
LEMMA CommandTries ==
  ASSUME SlamIInv, NEW p \in Operators, Try(p)
  PROVE  SlamIInv'
<1>1. /\ step[p] = "asked" /\ holder = "nobody" /\ sent' = sent /\ outcomes' = outcomes
      /\ UNCHANGED <<uptime, place, poses, telemetry, startedAt, rebooted>>
  BY DEF Try
<1>2. WorldTypes' /\ HeardBefore'
  BY <1>1 DEF SlamIInv, WorldTypes, HeardBefore
<1>3. \A q \in Operators : step[q] \notin {"tries", "called"}
  BY <1>1, LockIsOnes
<1>4. \A a : WasSent(a)' = WasSent(a)
  BY <1>1 DEF WasSent
<1>5. StepTypes /\ p \in DOMAIN step
  BY DEF SlamIInv, StepTypes
<1>6. CASE Over(p) /\ UNCHANGED <<holder, attempted, seed>>
  <2>1. StepTypes' /\ \A q \in Operators : step'[q] \notin {"tries", "called"}
    BY <1>3, <1>5, <1>6 DEF Over, To, StepTypes, SlamActions
  <2>2. \A q \in Operators : Calls(q)'
    BY <2>1 DEF Calls
  <2>3. UNCHANGED <<slamFiles, sent>>
    BY <1>1, <1>6 DEF slamFiles
  <2> QED BY <1>2, <2>1, <2>2, <2>3, FilesStay DEF SlamIInv
<1>7. CASE /\ Prepared(action[p]) /\ holder' = p /\ To(p, "tries") /\ action' = action
           /\ attempted' = attempted \cup {action[p]}
           /\ seed' = [seed EXCEPT ![action[p]] = SeedOf(action[p])]
  <2> DEFINE a == action[p]
  <2>1. a \in SlamActions /\ FileTypes /\ Tried /\ Follows /\ SaveSeen /\ SeedSent
    BY <1>5 DEF SlamIInv, StepTypes
  <2>2. SameCall(a) \cap attempted = {} /\ a \notin attempted
    BY <1>7, <2>1, CallsOfOne DEF Prepared
  <2>3. StepTypes' /\ action' = action /\ step'[p] = "tries"
        /\ \A q \in Operators \ {p} : step'[q] \notin {"tries", "called"}
    BY <1>3, <1>5, <1>7 DEF To, StepTypes
  <2>4. outcomes[a] = "none" /\ ~WasSent(a)
    BY <2>1, <2>2 DEF Tried, WasSent
  <2>5. \A q \in Operators : Calls(q)'
    <3>1. Calls(p)'
      BY <1>1, <1>4, <1>7, <2>3, <2>4 DEF Calls
    <3> QED BY <2>3, <3>1 DEF Calls
  <2>6. SeedOf(a) \in Seeds
    <3>1. CASE a = "save"
      <4>1. ~rebooted /\ Stable(startedAt)
        BY <1>7, <3>1 DEF Prepared, TelemetryIsFresh
      <4> QED BY <3>1, <4>1, NewestIsHeard DEF SlamIInv, SeedOf, Seeds
    <3>2. CASE a # "save"
      BY <2>1, <3>2 DEF SeedOf, FileTypes, Seeds, SlamActions
    <3> QED BY <3>1, <3>2
  <2>7. /\ seed' \in [SlamActions -> Seeds] /\ seed'[a] = SeedOf(a)
        /\ \A b \in SlamActions \ {a} : seed'[b] = seed[b]
    BY <1>7, <2>1, <2>6 DEF FileTypes
  <2>8. FileTypes'
    BY <1>1, <1>7, <2>1, <2>7 DEF FileTypes
  <2>9. Tried'
    <3>1. \A b, c \in attempted' : b # c => b \notin SameCall(c)
      BY <1>7, <2>1, <2>2, CallsOfOne DEF Tried, FileTypes
    <3>2. \A i \in DOMAIN sent' : sent'[i].action \in attempted'
      BY <1>1, <1>7, <2>1 DEF Tried
    <3>3. \A b \in SlamActions : /\ outcomes'[b] # "none" => b \in attempted'
                                 /\ outcomes'[b] = "ok" => WasSent(b)'
      BY <1>1, <1>4, <1>7, <2>1 DEF Tried
    <3> QED BY <3>1, <3>2, <3>3 DEF Tried
  <2>10. /\ a = "save" => outcomes["start"] = "ok"
         /\ a \in {"relocate", "zero"} => outcomes["save"] = "ok"
    BY <1>7 DEF Prepared
  <2>11. /\ "save" \in SlamActions /\ "start" \in SlamActions /\ "relocate" \in SlamActions
    BY DEF SlamActions
  <2>12. a = "save" => "relocate" \notin attempted
    BY <2>1, <2>4 DEF Follows
  <2>13. Follows'
    <3>1. "save" \in attempted' => outcomes'["start"] # "none" /\ WasSent("start")'
      BY <1>1, <1>4, <1>7, <2>1, <2>10, <2>11 DEF Follows, Tried
    <3>2. "relocate" \in attempted' \/ "zero" \in attempted' =>
            outcomes'["save"] # "none" /\ WasSent("save")'
      BY <1>1, <1>4, <1>7, <2>1, <2>10, <2>11 DEF Follows, Tried
    <3>3. "relocate" \in attempted' => seed'["relocate"] = seed'["save"]
      <4>1. CASE a = "relocate"
        BY <2>7, <2>11, <4>1 DEF SeedOf
      <4>2. CASE a # "relocate"
        BY <1>7, <2>1, <2>7, <2>11, <2>12, <4>2 DEF Follows
      <4> QED BY <4>1, <4>2
    <3> QED BY <3>1, <3>2, <3>3 DEF Follows
  <2>14. SaveSeen'
    <3>1. a = "save" => \A k \in DOMAIN sent : sent[k].action # "save"
      BY <2>1, <2>2 DEF Tried
    <3> QED BY <1>1, <2>1, <2>7, <2>11, <3>1 DEF SaveSeen
  <2>15. SeedSent'
    <3>1. a = "save" => \A k \in DOMAIN sent : sent[k].action # "relocate"
      BY <2>1, <2>12 DEF Tried
    <3> QED BY <1>1, <2>1, <2>7, <2>11, <3>1 DEF SeedSent
  <2>16. SentOnce' /\ InOrder'
    BY <1>1 DEF SlamIInv, SentOnce, InOrder
  <2> QED BY <1>2, <2>3, <2>5, <2>8, <2>9, <2>13, <2>14, <2>15, <2>16 DEF SlamIInv
<1> QED BY <1>6, <1>7 DEF Try

\* The robot is called with what was written, a save with the pose seen last.
LEMMA CommandCalls ==
  ASSUME SlamIInv, NEW p \in Operators, CallRobot(p)
  PROVE  SlamIInv'
<1> DEFINE a == action[p]
           n == Len(sent)
           request == Request(a, seed'[a])
<1>1. /\ step[p] = "tries" /\ ~rebooted /\ sent' = Append(sent, request)
      /\ a = "save" => Stable(startedAt)
      /\ a = "relocate" => SeedIsYoung
      /\ seed' = IF a = "save" THEN [seed EXCEPT ![a] = SeedOf(a)] ELSE seed
      /\ To(p, "called") /\ outcomes' = outcomes /\ startedAt' = startedAt
      /\ attempted' = attempted /\ action' = action /\ holder' = holder
      /\ UNCHANGED <<uptime, place, poses, telemetry, rebooted>>
  BY DEF CallRobot, TelemetryIsFresh
<1>2. /\ FileTypes /\ StepTypes /\ WorldTypes /\ Tried /\ Follows /\ SaveSeen /\ SeedSent
      /\ SentOnce /\ InOrder /\ HeardBefore
  BY DEF SlamIInv
<1>3. /\ a \in SlamActions /\ holder = p /\ a \in attempted /\ outcomes[a] = "none"
      /\ ~WasSent(a)
  BY <1>1, <1>2 DEF SlamIInv, Calls, StepTypes
<1>4. \A q \in Operators \ {p} : step[q] \notin {"tries", "called"}
  BY <1>3, LockIsOnes
<1>5. WorldTypes' /\ HeardBefore'
  BY <1>1, <1>2 DEF WorldTypes, HeardBefore
<1>6. StepTypes' /\ step'[p] = "called" /\ \A q \in Operators \ {p} : step'[q] = step[q]
  BY <1>1, <1>2 DEF StepTypes, To
<1>7. /\ "save" \in SlamActions /\ "start" \in SlamActions /\ "relocate" \in SlamActions
  BY DEF SlamActions
<1>8. a = "save" => /\ SeedOf(a) \in Poses /\ startedAt < SeedOf(a).at
                    /\ SeedOf(a).at <= uptime /\ uptime <= SeedOf(a).at + PoseAge
  BY <1>1, <1>2, NewestIsHeard DEF SeedOf
<1>9. /\ seed' \in [SlamActions -> Seeds] /\ (a # "save" => seed' = seed)
      /\ a = "save" => seed'["save"] = SeedOf(a)
      /\ \A b \in SlamActions \ {"save"} : seed'[b] = seed[b]
  BY <1>1, <1>2, <1>7, <1>8 DEF FileTypes, Seeds
<1>10. request \in Requests /\ request.action = a /\ request.seed = seed'[a] /\ request.at = uptime
  <2>1. seed'[a] \in Seeds /\ uptime \in Nat
    BY <1>2, <1>3, <1>9 DEF WorldTypes
  <2> QED BY <1>3, <2>1 DEF Request, Requests
<1> HIDE DEF request
<1>11. /\ sent' \in Seq(Requests) /\ n \in Nat /\ DOMAIN sent = 1..n /\ DOMAIN sent' = 1..(n + 1)
       /\ sent'[n + 1] = request /\ \A i \in 1..n : sent'[i] = sent[i]
  <2>1. sent \in Seq(Requests)
    BY <1>2 DEF FileTypes
  <2> QED BY <1>1, <1>10, <2>1, Appended
<1> HIDE DEF n
<1>12. FileTypes'
  BY <1>1, <1>2, <1>9, <1>11 DEF FileTypes
<1>13. /\ WasSent(a)' /\ \A b : WasSent(b) => WasSent(b)'
  <2>1. n + 1 \in 1..(n + 1) /\ 1..n \subseteq 1..(n + 1)
    BY <1>11
  <2>2. WasSent(a)'
    BY <1>1, <1>10, <1>11, <2>1 DEF WasSent
  <2>3. ASSUME NEW b, WasSent(b) PROVE WasSent(b)'
    BY <1>11, <2>1, <2>3 DEF WasSent
  <2> QED BY <2>2, <2>3
<1>14. \A i \in DOMAIN sent' : i = n + 1 \/ i \in DOMAIN sent
  BY <1>11
<1>15. \A q \in Operators : Calls(q)'
  <2>1. Calls(p)'
    BY <1>1, <1>3, <1>6, <1>13 DEF Calls
  <2> QED BY <1>4, <1>6, <2>1 DEF Calls
<1>16. Tried'
  <2>1. \A i \in DOMAIN sent' : sent'[i].action \in attempted'
    BY <1>1, <1>2, <1>3, <1>10, <1>11, <1>14 DEF Tried
  <2>2. \A b \in SlamActions : /\ outcomes'[b] # "none" => b \in attempted'
                               /\ outcomes'[b] = "ok" => WasSent(b)'
    BY <1>1, <1>2, <1>13 DEF Tried
  <2>3. \A b, c \in attempted' : b # c => b \notin SameCall(c)
    BY <1>1, <1>2 DEF Tried
  <2> QED BY <2>1, <2>2, <2>3 DEF Tried
<1>17. a = "save" => "relocate" \notin attempted
  BY <1>2, <1>3 DEF Follows
<1>18. Follows'
  BY <1>1, <1>2, <1>7, <1>9, <1>13, <1>17 DEF Follows
<1>19. SaveSeen'
  <2>1. ASSUME NEW k \in DOMAIN sent, sent[k].action = "save"
        PROVE  /\ seed'["save"] \in Poses /\ startedAt < seed'["save"].at
               /\ seed'["save"].at <= sent[k].at /\ sent[k].at <= seed'["save"].at + PoseAge
    <3>1. a # "save"
      BY <1>3, <2>1 DEF WasSent
    <3> QED BY <1>2, <1>9, <2>1, <3>1 DEF SaveSeen
  <2>2. ASSUME a = "save"
        PROVE  /\ seed'["save"] \in Poses /\ startedAt < seed'["save"].at
               /\ seed'["save"].at <= uptime /\ uptime <= seed'["save"].at + PoseAge
    BY <1>8, <1>9, <2>2
  <2> QED BY <1>1, <1>10, <1>11, <1>14, <2>1, <2>2 DEF SaveSeen
<1>20. SeedSent'
  <2>1. ASSUME NEW k \in DOMAIN sent, sent[k].action = "relocate"
        PROVE  sent[k].seed = seed'["save"] /\ sent[k].at <= seed'["save"].at + SeedAge
    <3>1. a # "save"
      BY <1>2, <1>17, <2>1 DEF Tried
    <3> QED BY <1>2, <1>9, <2>1, <3>1 DEF SeedSent
  <2>2. ASSUME a = "relocate"
        PROVE  seed'[a] = seed'["save"] /\ uptime <= seed'["save"].at + SeedAge
    <3>1. seed' = seed /\ seed["relocate"] = seed["save"]
      BY <1>2, <1>3, <1>9, <2>2 DEF Follows
    <3>2. seed["save"].at \in uptime - SeedAge .. uptime
      BY <1>1, <2>2 DEF SeedIsYoung
    <3>3. uptime \in Int /\ SeedAge \in Int
      BY <1>2, SlamAssumption DEF WorldTypes, SlamAssumption
    <3>4. uptime <= seed["save"].at + SeedAge
      BY <3>2, <3>3
    <3> QED BY <2>2, <3>1, <3>4
  <2> QED BY <1>10, <1>11, <1>14, <2>1, <2>2 DEF SeedSent
<1>21. SentOnce'
  <2>1. \A i \in DOMAIN sent : sent[i].action # a /\ sent[i].action \in attempted
    BY <1>2, <1>3 DEF WasSent, Tried
  <2>2. \A i \in DOMAIN sent : sent[i].action \notin SameCall(a) /\ a \notin SameCall(sent[i].action)
    BY <1>2, <1>3, <2>1 DEF Tried
  <2> QED BY <1>2, <1>10, <1>11, <1>14, <2>2 DEF SentOnce
<1>22. InOrder'
  <2>1. ASSUME NEW i \in DOMAIN sent', i \in DOMAIN sent
        PROVE  /\ sent'[i].action = "save" => \E k \in 1..i-1 : sent'[k].action = "start"
               /\ sent'[i].action \in {"relocate", "zero"} => \E k \in 1..i-1 : sent'[k].action = "save"
    <3>1. \A k \in 1..i-1 : k \in 1..n
      BY <1>11, <2>1
    <3>2. \A k \in 1..i-1 : sent'[k] = sent[k]
      BY <1>11, <3>1
    <3>3. sent'[i] = sent[i]
      BY <1>11, <2>1
    <3> QED BY <1>2, <2>1, <3>2, <3>3 DEF InOrder
  <2>2. /\ a = "save" => \E k \in 1..n : sent'[k].action = "start"
        /\ a \in {"relocate", "zero"} => \E k \in 1..n : sent'[k].action = "save"
    <3>1. /\ a = "save" => WasSent("start")
          /\ a \in {"relocate", "zero"} => WasSent("save")
      BY <1>2, <1>3 DEF Follows
    <3> QED BY <1>11, <3>1 DEF WasSent
  <2>3. (n + 1) - 1 = n
    BY <1>11
  <2> QED BY <1>10, <1>11, <1>14, <2>1, <2>2, <2>3 DEF InOrder
<1> QED BY <1>5, <1>6, <1>12, <1>15, <1>16, <1>18, <1>19, <1>20, <1>21, <1>22 DEF SlamIInv

\* The result is on the disk before the lock is free.
LEMMA CommandFinishes ==
  ASSUME SlamIInv, NEW p \in Operators, NEW outcome \in {"ok", "bad"}, Finish(p, outcome)
  PROVE  SlamIInv'
<1> DEFINE a == action[p]
<1>1. /\ step[p] = "called" \/ (step[p] = "tries" /\ outcome = "bad")
      /\ outcomes' = [outcomes EXCEPT ![a] = outcome]
      /\ startedAt' = IF a = "start" THEN uptime ELSE startedAt
      /\ Over(p) /\ sent' = sent /\ attempted' = attempted /\ seed' = seed
      /\ UNCHANGED <<uptime, place, poses, telemetry, rebooted>>
  BY DEF Finish
<1>2. /\ FileTypes /\ StepTypes /\ WorldTypes /\ Tried /\ Follows /\ SaveSeen /\ SeedSent
      /\ SentOnce /\ InOrder /\ HeardBefore
  BY DEF SlamIInv
<1>3. /\ a \in SlamActions /\ holder = p /\ a \in attempted /\ outcomes[a] = "none"
      /\ step[p] = "called" => WasSent(a)
  BY <1>1, <1>2 DEF SlamIInv, Calls, StepTypes
<1>4. \A q \in Operators \ {p} : step[q] \notin {"tries", "called"}
  BY <1>3, LockIsOnes
<1>5. WorldTypes' /\ HeardBefore'
  BY <1>1, <1>2 DEF WorldTypes, HeardBefore
<1>6. StepTypes' /\ \A q \in Operators : step'[q] \notin {"tries", "called"}
  BY <1>1, <1>2, <1>4 DEF StepTypes, Over, To, SlamActions
<1>7. \A b : WasSent(b)' = WasSent(b)
  BY <1>1 DEF WasSent
<1>8. FileTypes' /\ outcomes'[a] = outcome /\ \A b \in SlamActions \ {a} : outcomes'[b] = outcomes[b]
  BY <1>1, <1>2, <1>3 DEF FileTypes
<1>9. Tried'
  <2>1. \A b \in SlamActions : /\ outcomes'[b] # "none" => b \in attempted
                               /\ outcomes'[b] = "ok" => WasSent(b)
    BY <1>1, <1>2, <1>3, <1>8 DEF Tried
  <2> QED BY <1>1, <1>2, <1>7, <2>1 DEF Tried
<1>10. Follows'
  <2>1. "save" \in SlamActions /\ "start" \in SlamActions /\ outcome # "none"
    BY DEF SlamActions
  <2> QED BY <1>1, <1>2, <1>7, <1>8, <2>1 DEF Follows
<1>11. SaveSeen'
  <2>1. a = "start" => \A k \in DOMAIN sent : sent[k].action # "save"
    BY <1>2, <1>3 DEF Follows, Tried
  <2> QED BY <1>1, <1>2, <2>1 DEF SaveSeen
<1>12. SeedSent' /\ SentOnce' /\ InOrder'
  BY <1>1, <1>2 DEF SeedSent, SentOnce, InOrder
<1>13. \A q \in Operators : Calls(q)'
  BY <1>6 DEF Calls
<1> QED BY <1>5, <1>6, <1>8, <1>9, <1>10, <1>11, <1>12, <1>13 DEF SlamIInv

\* Every step of the sessions, of the recorder and of the operators keeps the invariant.
LEMMA SlamNextInv == SlamIInv /\ [SlamNext]_slamVars => SlamIInv'
<1> SUFFICES ASSUME SlamIInv, [SlamNext]_slamVars PROVE SlamIInv'
  OBVIOUS
<1>1. CASE Passes \/ IsMoved \/ WritePoses \/ RecorderEnds
  BY <1>1, WorldGoesOn
<1>2. CASE \/ \E p \in Operators : (\E a \in SlamActions : AskFor(p, a)) \/ FindsLocked(p) \/ Dies(p)
           \/ Reboot
  BY <1>2, CommandTurns
<1>3. ASSUME NEW p \in Operators, Try(p) PROVE SlamIInv'
  BY <1>3, CommandTries
<1>4. ASSUME NEW p \in Operators, CallRobot(p) PROVE SlamIInv'
  BY <1>4, CommandCalls
<1>5. ASSUME NEW p \in Operators, NEW outcome \in {"ok", "bad"}, Finish(p, outcome) PROVE SlamIInv'
  BY <1>5, CommandFinishes
<1>6. CASE UNCHANGED slamVars
  <2>1. /\ UNCHANGED <<slamFiles, sent>> /\ UNCHANGED <<step, action, holder>>
        /\ UNCHANGED <<uptime, place, poses, telemetry, rebooted>>
    BY <1>6 DEF slamVars
  <2>2. WorldTypes' /\ HeardBefore' /\ StepTypes'
    BY <2>1 DEF SlamIInv, WorldTypes, HeardBefore, StepTypes, slamFiles
  <2>3. \A p \in Operators : Calls(p)'
    BY <2>1, FilesStay DEF SlamIInv, Calls, slamFiles
  <2> QED BY <2>1, <2>2, <2>3, FilesStay DEF SlamIInv
<1> QED BY <1>1, <1>2, <1>3, <1>4, <1>5, <1>6 DEF SlamNext

(* Whoever runs, dies or hurries, and over a reboot: each request reaches  *)
(* the robot at most once and in its order, and a relocation starts from   *)
(* the pose seen as its map was saved (scripts/g1-slam-session.py).        *)
THEOREM SlamSafety == SlamSpec => []SlamSound
<1>1. SlamIInv => SlamSound
  <2> SUFFICES ASSUME SlamIInv PROVE SlamSound
    OBVIOUS
  <2>1. ASSUME NEW i \in DOMAIN sent, NEW k \in DOMAIN sent,
               sent[i].action = "relocate", sent[k].action = "save"
        PROVE  LET pose == sent[i].seed IN
               /\ pose.at <= sent[k].at /\ sent[k].at <= pose.at + PoseAge
               /\ startedAt < pose.at
               /\ sent[i].at <= pose.at + SeedAge
    BY <2>1 DEF SlamIInv, SaveSeen, SeedSent
  <2> QED BY <2>1 DEF SlamIInv, SlamSound, SeedIsOfSave
<1> QED BY <1>1, SlamInitInv, SlamNextInv, PTL DEF SlamSpec

================================================================================
