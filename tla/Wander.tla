-------------------------------- MODULE Wander --------------------------------
(***************************************************************************)
(* The live shadow of Mapless Wander: a source on the robot reduces point  *)
(* clouds to sectors and prints one JSON line each; the lines come through *)
(* a pipe to a reader thread with a bounded queue, and a loop shows for    *)
(* each of them the action the fail-closed core chooses, and STOP when     *)
(* nothing comes, when a line is no good and when the pipe ends.  The loop *)
(* may be held up in its output.                                           *)
(*                                                                         *)
(* Ranges are 0 (a hard stop), 1 (blocked) and 2 (clear).  What the scores *)
(* prefer (clearance, trail, soft leash, a random bias) is a choice.       *)
(***************************************************************************)
EXTENDS Integers, Sequences, FiniteSetsExt

CONSTANTS Points,      \* the points a cloud may have, <<sector, range>>
          MinPoints,   \* minimum_valid_points
          StaleLimit,  \* stale_after_s and odom_stale_after_s
          MinDuration, \* minimum_action_duration_s
          QueueSize,   \* maxsize of the queue
          PipeSize,    \* bound: lines the pipe and a blocked print hold
          MaxTime      \* bound on the clock

ASSUME WanderAssumption ==
    /\ \A p \in Points : p[1] \in {"left", "front", "right", "diagonal"} /\ p[2] \in 0..2
    /\ MinPoints \in Nat \ {0} /\ StaleLimit \in Nat \ {0} /\ MinDuration \in Nat \ {0}
    /\ QueueSize \in Nat \ {0} /\ PipeSize \in Nat \ {0} /\ MaxTime \in Nat \ {0}

VARIABLES now,     \* both monotonic clocks
          cloudAt, \* when the cloud's source stamp last changed
          odomAt,  \* when that of the odometry did, -1 when there was none
          pipe,    \* lines the source has printed
          ended,   \* the source has ended
          inHand,  \* the line the reader's put() is blocked with
          lines,   \* the queue, with the time the reader took each line
          loop,    \* "get", "output" (held up) or "over"
          gotAt,   \* when the loop last went to get a line
          reported, \* timeout_reported
          printed,   \* what the display says, since when, on how old a view
          lastAction, \* _last_action
          lastAt   \* _last_action_at

sourceVars == <<cloudAt, odomAt, pipe, ended>>
readerVars == <<inHand, lines>>
loopVars == <<loop, gotAt, reported, printed, lastAction, lastAt>>
wanderVars == <<now, sourceVars, readerVars, loopVars>>

Sectors == {"left", "front", "right", "diagonal"}
Toward == [FORWARD |-> "front", TURN_LEFT |-> "left", TURN_RIGHT |-> "right"]
Eof == [kind |-> "eof"]
NoLine == [kind |-> "none"]
Stop == [action |-> "STOP", at |-> now, age |-> 0, unread |-> 0]

WanderInit ==
    /\ now = 0 /\ cloudAt = -1 /\ odomAt = -1 /\ pipe = <<>> /\ ended = FALSE
    /\ inHand = NoLine /\ lines = <<>>
    /\ loop = "get" /\ gotAt = 0 /\ reported = FALSE /\ lastAction = "STOP" /\ lastAt = -1
    /\ printed = [action |-> "STOP", at |-> 0, age |-> 0, unread |-> 0]

(* reduce_points: the nearest point of every sector, the full range where  *)
(* there is none; the diagonals only ever stop the robot.                  *)
Nearest(cloud) == [s \in Sectors |-> Min({2} \cup {p[2] : p \in {q \in cloud : q[1] = s}})]
Enough(cloud) == Cardinality(cloud) >= MinPoints

(* One round of the source: odometry and cloud, each new, with the stamp   *)
(* it had before, or none; a cloud that cannot be decoded is a bad line.   *)
Aged(since) == Min({now - since, StaleLimit + 1})
Record(cloud) ==
    IF ~Enough(cloud) \/ odomAt' = -1 THEN [kind |-> "bad"]
    ELSE [kind |-> "good", nearest |-> Nearest(cloud), sentAt |-> now,
          cloudAge |-> Aged(cloudAt'), odomAge |-> Aged(odomAt')]
PrintLine(line) == pipe' = Append(pipe, line)

TakeOdom(new) == odomAt' = IF new THEN now ELSE odomAt
TakeCloud(cloud, new) ==
    /\ cloudAt' = IF new \/ cloudAt = -1 THEN now ELSE cloudAt
    /\ PrintLine(Record(cloud))

SourceRound ==
    /\ ~ended /\ Len(pipe) < PipeSize
    /\ \/ /\ \E newOdom, newCloud \in BOOLEAN, cloud \in SUBSET Points :
               TakeOdom(newOdom) /\ TakeCloud(cloud, newCloud)
          /\ UNCHANGED ended
       \/ PrintLine(Eof) /\ ended' = TRUE /\ UNCHANGED <<cloudAt, odomAt>>
    /\ UNCHANGED <<now, readerVars, loopVars>>

(* _read_lines: the clock is read before put() blocks on a full queue; an  *)
(* end of file goes through the same queue.                                *)
Taken(line) == [line |-> line, receivedAt |-> now]
ReadLine ==
    /\ inHand = NoLine /\ pipe # <<>>
    /\ pipe' = Tail(pipe)
    /\ IF Len(lines) < QueueSize
       THEN lines' = Append(lines, Taken(Head(pipe))) /\ UNCHANGED inHand
       ELSE inHand' = Taken(Head(pipe)) /\ UNCHANGED lines
    /\ UNCHANGED <<now, cloudAt, odomAt, ended, loopVars>>

PutLine ==
    /\ inHand # NoLine /\ Len(lines) < QueueSize
    /\ lines' = Append(lines, inHand) /\ inHand' = NoLine
    /\ UNCHANGED <<now, sourceVars, loopVars>>

\* Mutant: the age of the odometry is not looked at.
RecentCloud(line, transport) == line.cloudAge + transport <= StaleLimit

(* SafetySupervisor.evaluate, and the directions the policy may choose.    *)
Recent(line, transport) ==
    /\ line.cloudAge + transport <= StaleLimit
    /\ line.odomAge + transport <= StaleLimit
HardStop(line, far) == far \/ \E s \in Sectors : line.nearest[s] = 0
Candidates(line) == {a \in DOMAIN Toward : line.nearest[Toward[a]] = 2}

\* choose(): an action is kept for its minimum duration while it is open.
Chosen(line) ==
    IF Candidates(line) = {} THEN {"STOP"}
    ELSE IF lastAction \in Candidates(line) /\ lastAt # -1 /\ now - lastAt < MinDuration
    THEN {lastAction} ELSE Candidates(line)

(* LiveShadowSession.process of one line; a safety stop is not remembered. *)
Report(what) == printed' = what /\ gotAt' = now /\ loop' \in {"get", "output"}
Forget == UNCHANGED <<lastAction, lastAt>>
Handle(item) ==
    LET line == item.line
        transport == now - item.receivedAt
    IN \/ line = Eof /\ printed' = Stop /\ loop' = "over" /\ Forget /\ UNCHANGED gotAt
       \/ line.kind = "bad" /\ Report(Stop) /\ Forget
       \/ /\ line.kind = "good"
          /\ \E far \in BOOLEAN :
               IF ~Recent(line, transport) \/ HardStop(line, far)
               THEN Report(Stop) /\ Forget
               ELSE \E a \in Chosen(line) :
                      /\ Report([action |-> a, at |-> now,
                               age |-> now - line.sentAt + Max({line.cloudAge, line.odomAge}),
                               unread |-> item.receivedAt - line.sentAt])
                      /\ lastAction' = a /\ lastAt' = IF a # lastAction THEN now ELSE lastAt

GetLine ==
    /\ loop = "get" /\ lines # <<>>
    /\ lines' = Tail(lines) /\ Handle(Head(lines)) /\ reported' = FALSE
    /\ UNCHANGED <<now, sourceVars, inHand>>

\* get() has waited for stale_after_s; the STOP line is printed once.
GetTimeout ==
    /\ loop = "get" /\ lines = <<>> /\ now - gotAt >= StaleLimit
    /\ printed' = IF reported THEN printed ELSE Stop
    /\ reported' = TRUE /\ gotAt' = now
    /\ UNCHANGED <<now, sourceVars, readerVars, loop, lastAction, lastAt>>

OutputDone ==
    /\ loop = "output" /\ loop' = "get"
    /\ gotAt' = now /\ printed' = [printed EXCEPT !.at = now]
    /\ UNCHANGED <<now, sourceVars, readerVars, reported, lastAction, lastAt>>

(* Time passes while threads that can go on have gone on.                  *)
WanderTick ==
    /\ now < MaxTime /\ now' = now + 1
    /\ pipe = <<>> \/ inHand # NoLine
    /\ inHand = NoLine \/ Len(lines) = QueueSize
    /\ loop = "get" => lines = <<>> /\ now - gotAt < StaleLimit
    /\ UNCHANGED <<sourceVars, readerVars, loopVars>>

WanderNext ==
    \/ SourceRound \/ ReadLine \/ PutLine \/ GetLine \/ GetTimeout \/ OutputDone
    \/ WanderTick
WanderSpec == WanderInit /\ [][WanderNext]_wanderVars
-----------------------------------------------------------------------------
(* A move on the display was decided on a cloud and an odometry both of    *)
(* which changed at the robot at most stale_after_s before, but for the    *)
(* time the line lay unread in the pipe; a frozen sensor, a slow queue and *)
(* a silent pipe end in STOP.                                              *)
MoveIsFresh ==
    printed.action # "STOP" =>
        /\ printed.age <= StaleLimit + printed.unread
        /\ loop # "over"
        /\ loop = "get" => now - printed.at <= StaleLimit
=============================================================================
