----------------------------- MODULE WatchersProofs -----------------------------
(***************************************************************************)
(* The parts that watch: for any times, thresholds and numbers of frames,  *)
(* what the camera and the microphone bring is reported neither early, nor *)
(* late, nor in the place of something else.                               *)
(***************************************************************************)
EXTENDS StealthGame, Trackers, PersonWorker, AudioMonitor, SequenceTheorems, TLAPS

(***************************************************************************)
(* The process that detects persons.                                       *)
(***************************************************************************)

\* The frame in hand was taken after the coordinator last read the generation.
DetectorIInv ==
    /\ generation \in Nat /\ read \in Nat /\ shot \in Nat /\ enabled \in BOOLEAN
    /\ coordinator \in {"looking", "sending", "receiving"} => read <= generation
    /\ coordinator \in {"sending", "receiving"} => read <= shot /\ shot <= generation
    /\ DetectionIsOfNow

\* Nothing is running yet.
LEMMA DetectorInitInv == WorkerInit => DetectorIInv
BY DEF WorkerInit, DetectorIInv, DetectionIsOfNow, Status

\* Every step keeps the invariant.
LEMMA DetectorNextInv == DetectorIInv /\ [WorkerNext]_workerVars => DetectorIInv'
<1> SUFFICES ASSUME DetectorIInv, [WorkerNext]_workerVars PROVE DetectorIInv'
  OBVIOUS
<1> USE DEF DetectorIInv, DetectionIsOfNow, closeVars, Status, Dies
<1>1. CASE ChildStep
  BY <1>1 DEF ChildStep
<1>2. CASE Ready
  <2>1. UNCHANGED << enabled, generation, read, shot >> /\ coordinator' \in {"over", "waiting"}
    BY <1>2 DEF Ready
  <2>2. \/ detection' = detection
        \/ detection' = [status |-> "ERROR", shot |-> 0]
        \/ detection' = [status |-> "WAITING CAMERA", shot |-> 0]
    <3>1. CASE Failed
      BY <1>2, <3>1 DEF Ready
    <3>2. CASE ~Failed
      BY <1>2, <3>2 DEF Ready
    <3> QED BY <3>1, <3>2
  <2>3. detection' = detection \/ detection'.status # "RUNNING"
    <3>1. ASSUME detection' = [status |-> "ERROR", shot |-> 0] PROVE detection'.status = "ERROR"
      BY <3>1
    <3>2. ASSUME detection' = [status |-> "WAITING CAMERA", shot |-> 0]
          PROVE  detection'.status = "WAITING CAMERA"
      BY <3>2
    <3> QED BY <2>2, <3>1, <3>2
  <2> QED BY <2>1, <2>3
<1>3. CASE Wait
  BY <1>3 DEF Wait
<1>4. CASE Look
  BY <1>4 DEF Look
<1>5. CASE SendFrame
  BY <1>5 DEF SendFrame
<1>6. CASE Publish
  BY <1>6 DEF Publish
<1>7. CASE NoAnswer
  BY <1>7 DEF NoAnswer
<1>8. CASE Toggle
  BY <1>8 DEF Toggle
<1>9. CASE CloseWorker \/ CloseStep \/ UNCHANGED workerVars
  BY <1>9 DEF CloseWorker, CloseStep, Terminated, Killed, Joined, workerVars
<1> QED BY <1>1, <1>2, <1>3, <1>4, <1>5, <1>6, <1>7, <1>8, <1>9 DEF WorkerNext, CoordinatorStep

(* A detection the camera loop takes comes from a frame that was picked up *)
(* since detection was last switched on, however often it is switched      *)
(* (PersonWorker._run, set_enabled).                                       *)
THEOREM DetectorSafety == WorkerSpec => []DetectionIsOfNow
<1>1. DetectorIInv => DetectionIsOfNow
  BY DEF DetectorIInv
<1> QED BY DetectorInitInv, DetectorNextInv, <1>1, PTL DEF WorkerSpec

(***************************************************************************)
(* The audio monitor.                                                      *)
(***************************************************************************)

MonitorTypes ==
    /\ captured \in Nat /\ inWork \in Nat /\ chunks \in Seq(Nat) /\ order = TRUE
    /\ Len(chunks) <= QueueMax

\* Chunks wait in the order of their numbers, all of them later than the one at work; a chunk
\* still in the callback's hands is later than all that wait.
InOrder ==
    /\ \A i, k \in 1..Len(chunks) : i < k => chunks[k] = Sentinel \/ chunks[i] < chunks[k]
    /\ \A i \in 1..Len(chunks) : chunks[i] = Sentinel \/ inWork < chunks[i]
    /\ callback # "idle" => inWork < captured /\ \A i \in 1..Len(chunks) : chunks[i] < captured
    /\ \A i \in 1..Len(chunks) : chunks[i] <= captured
    /\ inWork <= captured

\* Only the callback fills the queue while the source runs, so its retry finds the room it
\* has made.
Live == {"starting", "running", "stopping"}
CallbackAlone ==
    /\ program \notin Live => callback = "idle" /\ stream # "started"
    /\ program = "new" => captured = 0
    /\ callback = "retrying" => Len(chunks) < QueueMax
    /\ callback \in {"idle", "putting", "full", "retrying"}

MonitorIInv == MonitorTypes /\ InOrder /\ CallbackAlone /\ NewestIsKept

\* Nothing has been captured.
LEMMA MonitorInitInv == MonitorInit => MonitorIInv
<1> SUFFICES ASSUME MonitorInit PROVE MonitorIInv
  OBVIOUS
<1> USE MonitorAssumption DEF MonitorAssumption, MonitorInit
<1>1. chunks \in Seq(Nat) /\ Len(chunks) = 0
  BY EmptySeq
<1> QED BY <1>1 DEF MonitorIInv, MonitorTypes, InOrder, CallbackAlone, NewestIsKept, Live

\* A step that leaves the queue and the work alone.
LEMMA OthersGoOn ==
  ASSUME MonitorIInv, UNCHANGED << chunks, captured, callback, inWork, order >>,
         program' \in Live => program \in Live \/ captured = 0,
         program' \notin Live => callback = "idle" /\ stream' # "started",
         program' = "new" => program = "new"
  PROVE  MonitorIInv'
<1>1. MonitorTypes' /\ InOrder'
  BY DEF MonitorIInv, MonitorTypes, InOrder
<1>2. CallbackAlone'
  BY DEF MonitorIInv, CallbackAlone
<1>3. NewestIsKept'
  BY DEF MonitorIInv, MonitorTypes, NewestIsKept, Live
<1> QED BY <1>1, <1>2, <1>3 DEF MonitorIInv

\* A queue that has lost its head.
LEMMA HeadIsLost ==
  ASSUME MonitorIInv, chunks # << >>, chunks' = Tail(chunks),
         UNCHANGED << captured, inWork, order >>, callback' # "idle" => callback # "idle"
  PROVE  /\ MonitorTypes' /\ InOrder' /\ Len(chunks') < QueueMax
         /\ Len(chunks') = Len(chunks) - 1
         /\ \A i \in 1..Len(chunks') : chunks'[i] = chunks[i + 1]
<1>1. /\ Len(chunks) \in Nat \ {0} /\ Len(chunks') = Len(chunks) - 1
      /\ chunks' \in Seq(Nat) /\ \A i \in 1..Len(chunks') : chunks'[i] = chunks[i + 1]
  BY HeadTailProperties DEF MonitorIInv, MonitorTypes
<1>2. \A i \in 1..Len(chunks') : i + 1 \in 1..Len(chunks)
  BY <1>1
<1>3. Len(chunks') < QueueMax /\ MonitorTypes'
  BY <1>1, MonitorAssumption DEF MonitorAssumption, MonitorIInv, MonitorTypes
<1>4. ASSUME NEW i \in 1..Len(chunks'), NEW k \in 1..Len(chunks'), i < k
      PROVE  chunks'[k] = Sentinel \/ chunks'[i] < chunks'[k]
  <2>1. i + 1 \in 1..Len(chunks) /\ k + 1 \in 1..Len(chunks) /\ i + 1 < k + 1
    BY <1>1, <1>4
  <2> QED BY <1>1, <1>4, <2>1 DEF MonitorIInv, InOrder
<1>5. InOrder'
  BY <1>1, <1>2, <1>4 DEF MonitorIInv, InOrder
<1> QED BY <1>1, <1>3, <1>5

\* The callback puts its chunk into the queue, or makes room for it.
LEMMA CallbackGoesOn == ASSUME MonitorIInv, Capture \/ Submit PROVE MonitorIInv'
<1> USE MonitorAssumption DEF MonitorAssumption, sourceVars, workVars
<1>1. CASE Capture
  <2>1. callback = "idle" /\ captured' = captured + 1 /\ callback' = "putting" /\ stream = "started"
        /\ UNCHANGED << program, stream, chunks, inWork, order >>
    BY <1>1 DEF Capture
  <2>2. Len(chunks) \in Nat /\ \A i \in 1..Len(chunks) : chunks[i] \in Nat
    BY LenProperties, ElementOfSeq DEF MonitorIInv, MonitorTypes
  <2>3. MonitorTypes' /\ CallbackAlone' /\ NewestIsKept'
    BY <2>1 DEF MonitorIInv, MonitorTypes, CallbackAlone, NewestIsKept, Live
  <2>4. InOrder'
    BY <2>1, <2>2 DEF MonitorIInv, MonitorTypes, InOrder
  <2> QED BY <2>3, <2>4 DEF MonitorIInv
<1>2. CASE callback \in {"putting", "retrying"} /\ Room /\ Submit
  <2>1. chunks' = Append(chunks, captured) /\ callback' = "idle"
        /\ UNCHANGED << program, stream, captured, inWork, order >>
    BY <1>2 DEF Submit
  <2>2. /\ Len(chunks) \in Nat /\ chunks' \in Seq(Nat) /\ Len(chunks') = Len(chunks) + 1
        /\ \A i \in 1..Len(chunks) : chunks'[i] = chunks[i]
        /\ chunks'[Len(chunks) + 1] = captured
    BY <2>1, AppendProperties, LenProperties DEF MonitorIInv, MonitorTypes
  <2>3. MonitorTypes' /\ CallbackAlone' /\ NewestIsKept'
    <3>1. MonitorTypes'
      BY <1>2, <2>1, <2>2 DEF MonitorIInv, MonitorTypes, Room
    <3>2. CallbackAlone'
      BY <2>1 DEF MonitorIInv, CallbackAlone
    <3>3. NewestIsKept'
      BY <2>1, <2>2, <3>1, EmptySeq DEF NewestIsKept, MonitorTypes
    <3> QED BY <3>1, <3>2, <3>3
  <2>4. \A i \in 1..Len(chunks') : i \in 1..Len(chunks) \/ i = Len(chunks) + 1
    BY <2>2
  <2>5. InOrder'
    BY <1>2, <2>1, <2>2, <2>4 DEF MonitorIInv, MonitorTypes, InOrder
  <2> QED BY <2>3, <2>5 DEF MonitorIInv
<1>3. CASE callback \in {"putting", "retrying"} /\ ~Room /\ Submit
  <2>1. callback = "putting" /\ callback' = "full"
        /\ UNCHANGED << program, stream, captured, chunks, inWork, order >>
    BY <1>3 DEF Submit, Room, MonitorIInv, CallbackAlone
  <2> QED BY <2>1 DEF MonitorIInv, MonitorTypes, InOrder, CallbackAlone, NewestIsKept
<1>4. CASE callback = "full" /\ Submit
  <2>1. callback' = "retrying" /\ chunks' = (IF chunks = << >> THEN chunks ELSE Tail(chunks))
        /\ UNCHANGED << program, stream, captured, inWork, order >>
    BY <1>4 DEF Submit
  <2>2. CASE chunks = << >>
    BY <1>4, <2>1, <2>2, EmptySeq DEF MonitorIInv, MonitorTypes, InOrder, CallbackAlone, NewestIsKept
  <2>3. CASE chunks # << >>
    <3>1. MonitorTypes' /\ InOrder' /\ Len(chunks') < QueueMax
      BY <1>4, <2>1, <2>3, HeadIsLost
    <3> QED BY <1>4, <2>1, <3>1 DEF MonitorIInv, MonitorTypes, CallbackAlone, NewestIsKept
  <2> QED BY <2>2, <2>3
<1> QED BY <1>1, <1>2, <1>3, <1>4 DEF Submit

\* The worker takes the head of the queue.
LEMMA WorkerGoesOn == ASSUME MonitorIInv, WorkerStep PROVE MonitorIInv'
<1> USE DEF sourceVars, queueVars
<1>1. CASE ProcessChunk
  <2>1. UNCHANGED << chunks, captured, callback, inWork, order, program, stream >>
    BY <1>1 DEF ProcessChunk
  <2> QED BY <2>1 DEF MonitorIInv, MonitorTypes, InOrder, CallbackAlone, NewestIsKept
<1>2. CASE GetChunk
  <2>1. chunks # << >> /\ chunks' = Tail(chunks) /\ UNCHANGED << program, stream, callback, captured >>
    BY <1>2 DEF GetChunk
  <2>2. /\ Len(chunks) \in Nat \ {0} /\ Head(chunks) = chunks[1] /\ Head(chunks) \in Nat
        /\ Len(chunks') = Len(chunks) - 1 /\ chunks' \in Seq(Nat)
        /\ \A i \in 1..Len(chunks') : chunks'[i] = chunks[i + 1]
    BY <2>1, HeadTailProperties DEF MonitorIInv, MonitorTypes
  <2>3. 1 \in 1..Len(chunks) /\ Len(chunks) \in 1..Len(chunks)
    BY <2>2
  <2>4. CallbackAlone'
    BY <2>1, <2>2, MonitorAssumption DEF MonitorAssumption, MonitorIInv, MonitorTypes, CallbackAlone
  <2>5. chunks' # << >> => Len(chunks') > 0 /\ chunks'[Len(chunks')] = chunks[Len(chunks)]
    BY <2>2, EmptySeq
  <2>6. CASE Head(chunks) = Sentinel
    <3>1. UNCHANGED << inWork, order >>
      BY <1>2, <2>6 DEF GetChunk
    <3>2. MonitorTypes' /\ InOrder'
      BY <2>1, <3>1, HeadIsLost
    <3>3. chunks[Len(chunks)] = captured /\ captured > 0 => chunks' # << >>
      BY <2>2, <2>6, EmptySeq DEF Sentinel
    <3>4. NewestIsKept'
      BY <2>1, <2>5, <3>1, <3>3 DEF MonitorIInv, NewestIsKept
    <3> QED BY <2>4, <3>2, <3>4 DEF MonitorIInv
  <2>7. CASE Head(chunks) # Sentinel
    <3>1. inWork' = Head(chunks) /\ order' = (order /\ Head(chunks) > inWork)
      BY <1>2, <2>7 DEF GetChunk
    <3>2. inWork < Head(chunks) /\ Head(chunks) <= captured
          /\ (callback # "idle" => Head(chunks) < captured)
      BY <2>2, <2>3, <2>7 DEF MonitorIInv, InOrder
    <3>3. MonitorTypes'
      <4>1. order' = TRUE
        BY <3>1, <3>2 DEF MonitorIInv, MonitorTypes
      <4>2. inWork' \in Nat
        BY <2>2, <3>1
      <4> QED BY <2>1, <2>2, <4>1, <4>2, MonitorAssumption DEF MonitorAssumption, MonitorIInv, MonitorTypes
    <3>4. \A i \in 1..Len(chunks') : i + 1 \in 1..Len(chunks) /\ 1 < i + 1
      BY <2>2
    <3>5. \A i \in 1..Len(chunks') : chunks'[i] = Sentinel \/ Head(chunks) < chunks'[i]
      BY <2>2, <2>3, <3>4 DEF MonitorIInv, InOrder
    <3>6. ASSUME NEW i \in 1..Len(chunks'), NEW k \in 1..Len(chunks'), i < k
          PROVE  chunks'[k] = Sentinel \/ chunks'[i] < chunks'[k]
      <4>1. i + 1 \in 1..Len(chunks) /\ k + 1 \in 1..Len(chunks) /\ i + 1 < k + 1
        BY <2>2, <3>6
      <4> QED BY <2>2, <3>6, <4>1 DEF MonitorIInv, InOrder
    <3>7. InOrder'
      BY <2>1, <2>2, <3>1, <3>2, <3>4, <3>5, <3>6 DEF MonitorIInv, InOrder
    <3>8. NewestIsKept'
      <4>1. chunks[Len(chunks)] = captured => inWork' = captured \/ chunks' # << >>
        BY <2>2, <3>1, EmptySeq
      <4>2. captured # inWork \/ inWork' = captured
        BY <2>2, <3>1, <3>2 DEF MonitorIInv, MonitorTypes
      <4> QED BY <2>1, <2>5, <3>3, <4>1, <4>2 DEF MonitorIInv, NewestIsKept, MonitorTypes
    <3> QED BY <2>4, <3>3, <3>7, <3>8 DEF MonitorIInv
  <2> QED BY <2>6, <2>7
<1> QED BY <1>1, <1>2 DEF WorkerStep

\* The main thread starts the source, stops it, and tells the worker.
LEMMA MainGoesOn == ASSUME MonitorIInv, StartMonitor \/ StopMonitor \/ MainStep PROVE MonitorIInv'
<1> USE DEF sourceVars, queueVars, workVars
<1>1. CASE StartMonitor \/ StopMonitor \/ OpenStream \/ StartStream \/ Started
  <2>1. /\ UNCHANGED << chunks, captured, callback, inWork, order >>
        /\ program' \in Live /\ (program \in Live \/ program = "new")
    BY <1>1 DEF StartMonitor, StopMonitor, OpenStream, StartStream, Started, Live
  <2>2. program' # "new" /\ (program = "new" => captured = 0)
    BY <2>1 DEF Live, MonitorIInv, CallbackAlone
  <2> QED BY <2>1, <2>2, OthersGoOn
<1>2. CASE SourceFails \/ StopSource \/ JoinMonitor
  <2>1. /\ UNCHANGED << chunks, captured, callback, inWork, order >> /\ program' # "new"
        /\ program' \in Live => program \in Live
    BY <1>2 DEF SourceFails, StopSource, JoinMonitor, Live
  <2>2. callback = "idle" /\ stream' # "started"
    BY <1>2 DEF SourceFails, StopSource, JoinMonitor, MonitorIInv, CallbackAlone, Live
  <2> QED BY <2>1, <2>2, OthersGoOn
<1>3. CASE MakeRoom
  <2>1. /\ program = "making room" /\ program' = "ending"
        /\ chunks' = (IF chunks = << >> THEN chunks ELSE Tail(chunks))
        /\ UNCHANGED << stream, callback, captured, inWork, order >>
    BY <1>3 DEF MakeRoom
  <2>2. callback = "idle" /\ stream # "started"
    BY <2>1 DEF MonitorIInv, CallbackAlone, Live
  <2>3. MonitorTypes' /\ InOrder'
    <3>1. CASE chunks = << >>
      BY <2>1, <3>1 DEF MonitorIInv, MonitorTypes, InOrder
    <3>2. CASE chunks # << >>
      BY <2>1, <3>2, HeadIsLost
    <3> QED BY <3>1, <3>2
  <2> QED BY <2>1, <2>2, <2>3 DEF MonitorIInv, CallbackAlone, NewestIsKept, MonitorTypes
<1>4. CASE PutSentinel
  <2>1. /\ program = "ending" /\ program' \in {"joining", "making room"}
        /\ chunks' = (IF Room THEN Append(chunks, Sentinel) ELSE chunks)
        /\ UNCHANGED << stream, callback, captured, inWork, order >>
    BY <1>4 DEF PutSentinel
  <2>2. callback = "idle" /\ stream # "started"
    BY <2>1 DEF MonitorIInv, CallbackAlone, Live
  <2>3. MonitorTypes' /\ InOrder'
    <3>1. CASE ~Room
      BY <2>1, <3>1 DEF MonitorIInv, MonitorTypes, InOrder
    <3>2. CASE Room
      <4>1. /\ Len(chunks) \in Nat /\ chunks' \in Seq(Nat) /\ Len(chunks') = Len(chunks) + 1
            /\ \A i \in 1..Len(chunks) : chunks'[i] = chunks[i]
            /\ chunks'[Len(chunks) + 1] = 0
        <5>1. chunks' = Append(chunks, 0)
          BY <2>1, <3>2 DEF Sentinel
        <5> QED BY <5>1, AppendProperties, LenProperties DEF MonitorIInv, MonitorTypes
      <4>2. \A i \in 1..Len(chunks') : i \in 1..Len(chunks) \/ i = Len(chunks) + 1
        BY <4>1
      <4>3. MonitorTypes'
        <5>1. Len(chunks') <= QueueMax
          BY <3>2, <4>1, MonitorAssumption DEF MonitorAssumption, Room
        <5> QED BY <2>1, <4>1, <5>1 DEF MonitorIInv, MonitorTypes
      <4>4. InOrder'
        <5>1. \A i \in 1..Len(chunks') : chunks'[i] = Sentinel \/ i \in 1..Len(chunks)
          BY <4>1, <4>2 DEF Sentinel
        <5>2. ASSUME NEW i \in 1..Len(chunks'), NEW k \in 1..Len(chunks'), i < k
              PROVE  chunks'[k] = Sentinel \/ chunks'[i] < chunks'[k]
          <6>1. chunks'[k] = Sentinel \/ (k \in 1..Len(chunks) /\ i \in 1..Len(chunks))
            BY <4>1, <5>1, <5>2
          <6> QED BY <4>1, <5>2, <6>1 DEF MonitorIInv, InOrder
        <5>3. \A i \in 1..Len(chunks') : chunks'[i] = Sentinel \/ inWork < chunks'[i]
          BY <4>1, <5>1 DEF MonitorIInv, InOrder
        <5>4. ASSUME NEW i \in 1..Len(chunks') PROVE chunks'[i] <= captured
          <6>1. CASE chunks'[i] = Sentinel
            BY <6>1 DEF MonitorIInv, MonitorTypes, Sentinel
          <6>2. CASE i \in 1..Len(chunks)
            BY <4>1, <6>2 DEF MonitorIInv, InOrder
          <6> QED BY <5>1, <6>1, <6>2
        <5>5. inWork' = inWork /\ captured' = captured /\ callback' = "idle"
          BY <2>1, <2>2
        <5>6. inWork <= captured
          BY DEF MonitorIInv, InOrder
        <5>7. \A i, k \in 1..Len(chunks') :
                i < k => chunks'[k] = Sentinel \/ chunks'[i] < chunks'[k]
          BY <5>2
        <5> QED BY <5>3, <5>4, <5>5, <5>6, <5>7 DEF InOrder
      <4> QED BY <4>3, <4>4
    <3> QED BY <3>1, <3>2
  <2> QED BY <2>1, <2>2, <2>3 DEF MonitorIInv, CallbackAlone, NewestIsKept, MonitorTypes
<1> QED BY <1>1, <1>2, <1>3, <1>4 DEF MainStep

\* Every step keeps the invariant.
LEMMA MonitorNextInv == MonitorIInv /\ [MonitorNext]_monitorVars => MonitorIInv'
<1> SUFFICES ASSUME MonitorIInv, [MonitorNext]_monitorVars PROVE MonitorIInv'
  OBVIOUS
<1>1. CASE UNCHANGED monitorVars
  BY <1>1 DEF monitorVars, sourceVars, queueVars, workVars, MonitorIInv, MonitorTypes, InOrder,
              CallbackAlone, NewestIsKept
<1> QED BY <1>1, MainGoesOn, CallbackGoesOn, WorkerGoesOn DEF MonitorNext

(* Between captures the newest chunk is never the one that was dropped,    *)
(* and chunks come to the worker in order, for a queue of any length       *)
(* (AudioMonitor.submit, _run, _stop_worker).                              *)
THEOREM MonitorSafety == MonitorSpec => []NewestIsKept
<1>1. MonitorIInv => NewestIsKept
  BY DEF MonitorIInv
<1> QED BY MonitorInitInv, MonitorNextInv, <1>1, PTL DEF MonitorSpec

(***************************************************************************)
(* The trackers of the bottle and of the music.                            *)
(***************************************************************************)

\* The smaller of two integers, and an age that has gone on.
LEMMA MinIs ==
  ASSUME NEW x \in Int, NEW y \in Int
  PROVE  Min({x, y}) = IF x <= y THEN x ELSE y
<1>1. \E m \in {x, y} : \A z \in {x, y} : m =< z
  <2>1. CASE x <= y
    BY <2>1
  <2>2. CASE y <= x
    BY <2>2
  <2> QED BY <2>1, <2>2
<1>2. Min({x, y}) \in {x, y} /\ Min({x, y}) <= x /\ Min({x, y}) <= y
  BY <1>1 DEF Min
<1> QED BY <1>2

Times(limit) == (0..limit) \cup {-1}

\* An age stays an age, within its limit.
LEMMA AgeGoesOn ==
  ASSUME NEW limit \in Nat, NEW dt \in Nat, NEW a \in Int, a >= -1
  PROVE  /\ Elapsed(a, dt, limit) = IF a = -1 THEN -1 ELSE IF a + dt <= limit THEN a + dt ELSE limit
         /\ Begun(a, dt, limit) = IF a = -1 THEN 0 ELSE IF a + dt <= limit THEN a + dt ELSE limit
<1>1. CASE a = -1
  BY <1>1 DEF Elapsed, Begun, NoTime
<1>2. CASE a # -1
  <2>1. a + dt \in Int /\ limit \in Int
    OBVIOUS
  <2>2. Min({a + dt, limit}) = IF a + dt <= limit THEN a + dt ELSE limit
    BY <2>1, MinIs
  <2> QED BY <1>2, <2>2 DEF Elapsed, Begun, NoTime
<1> QED BY <1>1, <1>2

\* No state of the bottle is older than the reports that all say so, and a bottle that is not
\* too close has left the margin since it was.
BottleStates == Visible \cup {"NO_BOTTLE", "LOST"}
BottleTimed ==
    /\ bottle \in BottleStates
    /\ detectedFor \in Times(BottleConfirm) /\ inSight \in Times(BottleConfirm) /\ detectedFor <= inSight
    /\ missingFor \in Times(BottleLost) /\ outOfSight \in Times(BottleLost) /\ missingFor <= outOfSight
    /\ farthest \in 0..4 /\ (bottle # "TOO_CLOSE" => farthest <= 2)
    /\ bottle \notin Visible => farthest = 0

\* A candidate, and the quiet of music that may be over, are not older than the scores that
\* all say so, and a candidate is a rest and its own time away from the last music.
MusicStates == {"QUIET", "MUSIC_CANDIDATE", "MUSIC_PLAYING", "COOLDOWN"}
RestedFor(t) == musicRest = -1 \/ musicRest >= t
MusicTimed ==
    /\ music \in MusicStates
    /\ candidateFor \in Int /\ candidateFor >= -1
    /\ quietFor \in Times(MusicLost) /\ loudFor \in Times(MusicConfirm) /\ softFor \in Times(MusicLost)
    /\ coolingFor \in Int /\ coolingFor >= -1 /\ musicRest \in Times(MusicCooldown + MusicConfirm)
    /\ music = "QUIET" => RestedFor(MusicCooldown)
    /\ music = "MUSIC_CANDIDATE" => candidateFor >= 0 /\ candidateFor < MusicConfirm
         /\ candidateFor <= loudFor /\ RestedFor(MusicCooldown + candidateFor)
    /\ music = "MUSIC_PLAYING" => quietFor <= softFor
    /\ music # "MUSIC_PLAYING" => quietFor = -1
    /\ music = "COOLDOWN" => coolingFor >= 0 /\ coolingFor < MusicCooldown /\ musicRest >= coolingFor

\* Nothing has been reported.
LEMMA TrackersInitInv == TrackersInit => BottleTimed /\ MusicTimed
<1> USE TrackersAssumption DEF TrackersAssumption, TrackersInit, NoTime, Times
<1>1. TrackersInit => BottleTimed
  BY DEF BottleTimed, BottleStates, Visible
<1>2. TrackersInit => MusicTimed
  BY DEF MusicTimed, MusicStates, RestedFor
<1> QED BY <1>1, <1>2

\* What a report does to the bottle, and that it is earned.
BottleEarned ==
    /\ Becomes(<<bottle, bottle'>>, {"NO_BOTTLE", "LOST"}, Visible) => inSight' >= BottleConfirm
    /\ Becomes(<<bottle, bottle'>>, Visible, {"LOST"}) => outOfSight' >= BottleLost
    /\ Becomes(<<bottle, bottle'>>, {"FAR", "NEAR"}, {"TOO_CLOSE"}) => farthest <= 2

\* A step of the bottle's tracker keeps its timing, and reports what it has earned.
LEMMA BottleReported ==
  ASSUME BottleTimed, NEW seen \in BOOLEAN, NEW n \in Nearness, NEW dt \in 0..MaxStep,
         BottleReport(seen, n, dt)
  PROVE  BottleTimed' /\ BottleEarned
<1> USE TrackersAssumption DEF TrackersAssumption, Times, NoTime
<1>1. dt \in Nat
  OBVIOUS
<1>2. /\ Begun(detectedFor, dt, BottleConfirm) \in 0..BottleConfirm
      /\ Begun(inSight, dt, BottleConfirm) \in 0..BottleConfirm
      /\ Begun(detectedFor, dt, BottleConfirm) <= Begun(inSight, dt, BottleConfirm)
  BY <1>1, AgeGoesOn DEF BottleTimed
<1>3. /\ Begun(missingFor, dt, BottleLost) \in 0..BottleLost
      /\ Begun(outOfSight, dt, BottleLost) \in 0..BottleLost
      /\ Begun(missingFor, dt, BottleLost) <= Begun(outOfSight, dt, BottleLost)
  BY <1>1, AgeGoesOn DEF BottleTimed
<1>4. Min({farthest, n}) = IF farthest <= n THEN farthest ELSE n
  BY MinIs DEF BottleTimed, Nearness
<1>5. CASE seen /\ Appears(n, dt)
  <2>1. /\ bottle \notin Visible /\ missingFor' = -1 /\ outOfSight' = -1
        /\ inSight' = Begun(inSight, dt, BottleConfirm)
    BY <1>5 DEF BottleReport, Appears
  <2>2. \/ /\ detectedFor' = Begun(detectedFor, dt, BottleConfirm) /\ bottle' = bottle
        \/ /\ Begun(detectedFor, dt, BottleConfirm) >= BottleConfirm /\ detectedFor' = -1
           /\ bottle' = FirstNearness(n)
    BY <1>2, <1>5 DEF Appears
  <2>3. /\ bottle' = "LOST" => farthest' = 0
        /\ bottle' = "TOO_CLOSE" => farthest' = 4
        /\ bottle' \notin {"LOST", "TOO_CLOSE"} => farthest' = 0
    BY <1>4, <1>5, <2>1 DEF BottleReport, BottleTimed, Visible, Nearness
  <2>4. bottle' \in BottleStates
    BY <2>2 DEF BottleTimed, BottleStates, FirstNearness, Visible
  <2>5. BottleTimed'
    BY <1>2, <2>1, <2>2, <2>3, <2>4 DEF BottleTimed, Visible
  <2>6. BottleEarned
    BY <1>2, <2>1, <2>2 DEF BottleEarned, Becomes, Visible
  <2> QED BY <2>5, <2>6
<1>6. CASE seen /\ Moves(n, dt)
  <2>1. /\ bottle \in Visible /\ bottle' = Moved(n) /\ detectedFor' = -1 /\ missingFor' = -1
        /\ outOfSight' = -1 /\ inSight' = Begun(inSight, dt, BottleConfirm)
    BY <1>6 DEF BottleReport, Moves
  <2>2. /\ bottle' \in Visible
        /\ bottle = "TOO_CLOSE" /\ bottle' # "TOO_CLOSE" => n <= 2
    BY <2>1 DEF Moved, Visible, Nearness
  <2>3. farthest' = IF bottle' = "TOO_CLOSE" /\ bottle # "TOO_CLOSE" THEN 4
                    ELSE IF farthest <= n THEN farthest ELSE n
    BY <1>4, <1>6, <2>2 DEF BottleReport, Visible
  <2>4. farthest' \in 0..4 /\ (bottle' # "TOO_CLOSE" => farthest' <= 2)
    BY <2>2, <2>3 DEF BottleTimed, Nearness
  <2>5. BottleTimed'
    BY <1>2, <2>1, <2>2, <2>4 DEF BottleTimed, BottleStates
  <2>6. BottleEarned
    BY <2>1, <2>2 DEF BottleEarned, Becomes, Visible, BottleTimed
  <2> QED BY <2>5, <2>6
<1>7. CASE ~seen
  <2> DEFINE lost == bottle \in Visible /\ Begun(missingFor, dt, BottleLost) >= BottleLost
  <2>1. /\ detectedFor' = -1 /\ inSight' = -1 /\ outOfSight' = Begun(outOfSight, dt, BottleLost)
        /\ missingFor' = IF bottle \notin Visible \/ lost THEN -1
                         ELSE Begun(missingFor, dt, BottleLost)
        /\ bottle' = IF lost THEN "LOST" ELSE bottle
    BY <1>7 DEF BottleReport, Vanishes
  <2>2. farthest' = IF bottle' = "LOST" THEN 0 ELSE farthest
    BY <1>7, <2>1 DEF BottleReport
  <2>3. bottle' \in BottleStates /\ (bottle' \notin Visible => farthest' = 0)
    BY <2>1, <2>2 DEF BottleTimed, BottleStates
  <2>4. BottleTimed'
    BY <1>3, <2>1, <2>2, <2>3 DEF BottleTimed
  <2>5. BottleEarned
    BY <1>3, <2>1 DEF BottleEarned, Becomes, Visible
  <2> QED BY <2>4, <2>5
<1> QED BY <1>5, <1>6, <1>7 DEF BottleReport

\* What a score does to the music, and that it is earned.
MusicEarned ==
    /\ Becomes(<<music, music'>>, {"MUSIC_CANDIDATE"}, {"MUSIC_PLAYING"}) =>
         loudFor' >= MusicConfirm /\ musicRest' \in {NoTime, MusicCooldown + MusicConfirm}
    /\ Becomes(<<music, music'>>, {"MUSIC_PLAYING"}, {"COOLDOWN"}) => softFor' >= MusicLost

\* A step of the music's tracker does so as well.
LEMMA MusicReported ==
  ASSUME MusicTimed, NEW score \in Scores, NEW dt \in 0..MaxStep, MusicReport(score, dt)
  PROVE  MusicTimed' /\ MusicEarned
<1> USE TrackersAssumption DEF TrackersAssumption, Times, NoTime
<1>1. dt \in Nat /\ MusicCooldown + MusicConfirm \in Nat
  OBVIOUS
<1>2. /\ loudFor' = IF score = "loud" THEN Begun(loudFor, dt, MusicConfirm) ELSE -1
      /\ softFor' = IF score = "soft" THEN Begun(softFor, dt, MusicLost) ELSE -1
      /\ musicRest' = IF musicEvent' = "MUSIC_STOPPED" THEN 0
                      ELSE Elapsed(musicRest, dt, MusicCooldown + MusicConfirm)
  BY DEF MusicReport
<1>3. /\ Begun(loudFor, dt, MusicConfirm) =
           IF loudFor = -1 THEN 0 ELSE IF loudFor + dt <= MusicConfirm THEN loudFor + dt ELSE MusicConfirm
      /\ Begun(softFor, dt, MusicLost) =
           IF softFor = -1 THEN 0 ELSE IF softFor + dt <= MusicLost THEN softFor + dt ELSE MusicLost
      /\ Begun(quietFor, dt, MusicLost) =
           IF quietFor = -1 THEN 0 ELSE IF quietFor + dt <= MusicLost THEN quietFor + dt ELSE MusicLost
      /\ Elapsed(musicRest, dt, MusicCooldown + MusicConfirm) =
           IF musicRest = -1 THEN -1
           ELSE IF musicRest + dt <= MusicCooldown + MusicConfirm THEN musicRest + dt
           ELSE MusicCooldown + MusicConfirm
  BY <1>1, AgeGoesOn DEF MusicTimed
<1>4. /\ loudFor' \in Times(MusicConfirm) /\ softFor' \in Times(MusicLost)
      /\ musicRest' \in Times(MusicCooldown + MusicConfirm)
      /\ score = "loud" => loudFor' >= 0
  BY <1>2, <1>3 DEF MusicTimed
<1>5. musicEvent' # "MUSIC_STOPPED" =>
        musicRest' = IF musicRest = -1 THEN -1
                     ELSE IF musicRest + dt <= MusicCooldown + MusicConfirm THEN musicRest + dt
                     ELSE MusicCooldown + MusicConfirm
  BY <1>2, <1>3
<1>6. CASE Quiet(score)
  <2>1. /\ music = "QUIET" /\ musicEvent' # "MUSIC_STOPPED" /\ UNCHANGED <<quietFor, coolingFor>>
        /\ \/ score = "loud" /\ music' = "MUSIC_CANDIDATE" /\ candidateFor' = 0
           \/ music' = "QUIET" /\ candidateFor' = candidateFor
    BY <1>6 DEF Quiet, NoEvent
  <2>2. RestedFor(MusicCooldown)'
    BY <1>5, <2>1 DEF MusicTimed, RestedFor
  <2>3. candidateFor' = 0 => RestedFor(MusicCooldown + candidateFor)'
    BY <2>2 DEF RestedFor
  <2>4. MusicTimed'
    BY <1>4, <2>1, <2>2, <2>3 DEF MusicTimed, MusicStates
  <2> QED BY <2>1, <2>4 DEF MusicEarned, Becomes
<1>7. CASE Candidate(score, dt)
  <2>1. /\ music = "MUSIC_CANDIDATE" /\ musicEvent' # "MUSIC_STOPPED" /\ UNCHANGED <<quietFor, coolingFor>>
        /\ \/ music' = "QUIET" /\ candidateFor' = -1
           \/ /\ score = "loud" /\ candidateFor + dt >= MusicConfirm
              /\ music' = "MUSIC_PLAYING" /\ candidateFor' = -1
           \/ /\ score = "loud" /\ candidateFor + dt < MusicConfirm
              /\ music' = music /\ candidateFor' = candidateFor + dt
    <3>1. candidateFor + dt \in Int
      BY DEF MusicTimed
    <3>2. CASE score # "loud"
      BY <1>7, <3>2 DEF Candidate, NoEvent
    <3>3. CASE score = "loud" /\ candidateFor + dt >= MusicConfirm
      BY <1>7, <3>3 DEF Candidate, NoEvent
    <3>4. CASE score = "loud" /\ ~(candidateFor + dt >= MusicConfirm)
      BY <1>7, <3>1, <3>4 DEF Candidate, NoEvent
    <3> QED BY <3>2, <3>3, <3>4
  <2>2. /\ candidateFor >= 0 /\ candidateFor < MusicConfirm /\ candidateFor <= loudFor
        /\ musicRest = -1 \/ musicRest >= MusicCooldown + candidateFor
    BY <2>1 DEF MusicTimed, RestedFor
  <2>3. CASE music' = "QUIET" /\ candidateFor' = -1
    <3>1. RestedFor(MusicCooldown)'
      BY <1>5, <2>1, <2>2 DEF MusicTimed, RestedFor
    <3> QED BY <1>4, <2>1, <2>3, <3>1 DEF MusicTimed, MusicStates, MusicEarned, Becomes
  <2>4. CASE /\ score = "loud" /\ candidateFor + dt >= MusicConfirm
             /\ music' = "MUSIC_PLAYING" /\ candidateFor' = -1
    <3>1. loudFor' >= MusicConfirm
      BY <1>2, <1>3, <2>2, <2>4 DEF MusicTimed
    <3>2. musicRest' = -1 \/ musicRest' = MusicCooldown + MusicConfirm
      BY <1>5, <2>1, <2>2, <2>4 DEF MusicTimed
    <3>3. MusicTimed'
      BY <1>4, <2>1, <2>4 DEF MusicTimed, MusicStates
    <3> QED BY <2>1, <2>4, <3>1, <3>2, <3>3 DEF MusicEarned, Becomes
  <2>5. CASE /\ score = "loud" /\ candidateFor + dt < MusicConfirm
             /\ music' = music /\ candidateFor' = candidateFor + dt
    <3>1. candidateFor' <= loudFor'
      BY <1>2, <1>3, <2>2, <2>5 DEF MusicTimed
    <3>2. RestedFor(MusicCooldown + candidateFor)'
      BY <1>5, <2>1, <2>2, <2>5 DEF MusicTimed, RestedFor
    <3>3. MusicTimed'
      BY <1>4, <2>1, <2>2, <2>5, <3>1, <3>2 DEF MusicTimed, MusicStates
    <3> QED BY <2>1, <2>5, <3>3 DEF MusicEarned, Becomes
  <2> QED BY <2>1, <2>3, <2>4, <2>5
<1>8. CASE Playing(score, dt)
  <2> DEFINE lost == score = "soft" /\ quietFor # NoTime /\ quietFor + dt >= MusicLost
  <2>1. /\ music = "MUSIC_PLAYING" /\ music' = (IF lost THEN "COOLDOWN" ELSE music)
        /\ coolingFor' = (IF lost THEN 0 ELSE coolingFor)
        /\ quietFor' = (IF lost \/ score # "soft" THEN -1 ELSE Begun(quietFor, dt, MusicLost))
        /\ musicEvent' = (IF lost THEN "MUSIC_STOPPED" ELSE "-")
        /\ candidateFor' = candidateFor
    BY <1>8 DEF Playing, NoEvent
  <2>2. quietFor <= softFor
    BY <2>1 DEF MusicTimed
  <2>3. CASE lost
    <3>1. softFor' >= MusicLost
      BY <1>2, <1>3, <2>2, <2>3 DEF MusicTimed
    <3>2. musicRest' = 0
      BY <1>2, <2>1, <2>3
    <3>3. MusicTimed'
      BY <1>4, <2>1, <2>3, <3>2 DEF MusicTimed, MusicStates
    <3> QED BY <2>1, <2>3, <3>1, <3>3 DEF MusicEarned, Becomes
  <2>4. CASE ~lost
    <3>1. quietFor' \in Times(MusicLost) /\ quietFor' <= softFor'
      BY <1>2, <1>3, <2>1, <2>2, <2>4 DEF MusicTimed
    <3>2. MusicTimed'
      BY <1>4, <2>1, <2>4, <3>1 DEF MusicTimed, MusicStates
    <3> QED BY <2>1, <2>4, <3>2 DEF MusicEarned, Becomes
  <2> QED BY <2>3, <2>4
<1>9. CASE Cooling(score, dt)
  <2>1. /\ music = "COOLDOWN" /\ musicEvent' # "MUSIC_STOPPED" /\ quietFor' = quietFor
        /\ \/ /\ coolingFor + dt < MusicCooldown /\ coolingFor' = coolingFor + dt
              /\ music' = music /\ candidateFor' = candidateFor
           \/ /\ coolingFor + dt >= MusicCooldown /\ coolingFor' = -1
              /\ \/ score = "loud" /\ music' = "MUSIC_CANDIDATE" /\ candidateFor' = 0
                 \/ music' = "QUIET" /\ candidateFor' = candidateFor
    <3>1. coolingFor + dt \in Int
      BY DEF MusicTimed
    <3>2. CASE coolingFor + dt < MusicCooldown
      BY <1>9, <3>2 DEF Cooling, NoEvent
    <3>3. CASE ~(coolingFor + dt < MusicCooldown)
      BY <1>9, <3>1, <3>3 DEF Cooling, NoEvent
    <3> QED BY <3>2, <3>3
  <2>2. coolingFor >= 0 /\ coolingFor < MusicCooldown /\ musicRest >= coolingFor /\ musicRest # -1
    BY <2>1 DEF MusicTimed
  <2>3. CASE coolingFor + dt < MusicCooldown /\ coolingFor' = coolingFor + dt
             /\ music' = music /\ candidateFor' = candidateFor
    <3>1. musicRest' >= coolingFor'
      BY <1>5, <2>1, <2>2, <2>3 DEF MusicTimed
    <3> QED BY <1>4, <2>1, <2>2, <2>3, <3>1 DEF MusicTimed, MusicStates, MusicEarned, Becomes
  <2>4. CASE coolingFor + dt >= MusicCooldown /\ coolingFor' = -1
             /\ \/ score = "loud" /\ music' = "MUSIC_CANDIDATE" /\ candidateFor' = 0
                \/ music' = "QUIET" /\ candidateFor' = candidateFor
    <3>1. musicRest' >= MusicCooldown
      BY <1>5, <2>1, <2>2, <2>4 DEF MusicTimed
    <3>2. RestedFor(MusicCooldown)' /\ (candidateFor' = 0 => RestedFor(MusicCooldown + candidateFor)')
      BY <3>1 DEF RestedFor
    <3> QED BY <1>4, <2>1, <2>4, <3>2 DEF MusicTimed, MusicStates, MusicEarned, Becomes
  <2> QED BY <2>1, <2>3, <2>4
<1> QED BY <1>6, <1>7, <1>8, <1>9 DEF MusicReport

\* Every report keeps both, and each is earned.
TrackersIInv == BottleTimed /\ MusicTimed

\* Every step keeps both timings.
LEMMA TrackersNextInv ==
  TrackersIInv /\ [TrackersNext]_trackerVars => TrackersIInv' /\ [BottleEarned /\ MusicEarned]_trackerVars
<1> SUFFICES ASSUME TrackersIInv, [TrackersNext]_trackerVars
             PROVE  TrackersIInv' /\ [BottleEarned /\ MusicEarned]_trackerVars
  OBVIOUS
<1>1. UNCHANGED bottleVars => BottleTimed' /\ BottleEarned
  BY DEF bottleVars, TrackersIInv, BottleTimed, BottleEarned, Becomes, Visible
<1>2. UNCHANGED musicVars => MusicTimed' /\ MusicEarned
  BY DEF musicVars, TrackersIInv, MusicTimed, RestedFor, MusicEarned, Becomes
<1>3. ASSUME NEW dt \in 0..MaxStep, NEW seen \in BOOLEAN, NEW n \in Nearness, BottleReport(seen, n, dt)
      PROVE  TrackersIInv' /\ BottleEarned /\ MusicEarned
  <2>1. UNCHANGED musicVars
    BY <1>3 DEF BottleReport
  <2> QED BY <1>2, <1>3, <2>1, BottleReported DEF TrackersIInv
<1>4. ASSUME NEW dt \in 0..MaxStep, NEW score \in Scores, MusicReport(score, dt)
      PROVE  TrackersIInv' /\ BottleEarned /\ MusicEarned
  <2>1. UNCHANGED bottleVars
    BY <1>4 DEF MusicReport
  <2> QED BY <1>1, <1>4, <2>1, MusicReported DEF TrackersIInv
<1>5. CASE UNCHANGED trackerVars
  BY <1>1, <1>2, <1>5 DEF trackerVars, TrackersIInv
<1> QED BY <1>3, <1>4, <1>5 DEF TrackersNext

(* Events are earned over time and not by a flicker, for any thresholds    *)
(* and however the reports come: a bottle is found and lost, and music     *)
(* starts and stops, only after reports that all say so for long enough,   *)
(* and starts again only after its rest (BottleTracker,                    *)
(* MusicStateTracker).                                                     *)
THEOREM TrackersEarn == TrackersSpec => EventsAreEarned
<1>1. TrackersIInv /\ [TrackersNext]_trackerVars
        => [/\ Becomes(<<bottle, bottle'>>, {"NO_BOTTLE", "LOST"}, Visible) => inSight' >= BottleConfirm
            /\ Becomes(<<bottle, bottle'>>, Visible, {"LOST"}) => outOfSight' >= BottleLost
            /\ Becomes(<<bottle, bottle'>>, {"FAR", "NEAR"}, {"TOO_CLOSE"}) => farthest <= 2
            /\ Becomes(<<music, music'>>, {"MUSIC_CANDIDATE"}, {"MUSIC_PLAYING"}) =>
                 loudFor' >= MusicConfirm /\ musicRest' \in {NoTime, MusicCooldown + MusicConfirm}
            /\ Becomes(<<music, music'>>, {"MUSIC_PLAYING"}, {"COOLDOWN"}) => softFor' >= MusicLost
           ]_trackerVars
  BY TrackersNextInv DEF BottleEarned, MusicEarned
<1>2. TrackersInit => TrackersIInv
  BY TrackersInitInv DEF TrackersIInv
<1>3. TrackersIInv /\ [TrackersNext]_trackerVars => TrackersIInv'
  BY TrackersNextInv
<1> QED BY <1>1, <1>2, <1>3, PTL DEF TrackersSpec, EventsAreEarned

(***************************************************************************)
(* The stealth game.                                                       *)
(***************************************************************************)

\* The largest gain, and what it bounds.
Most == Max(Gains)

\* Gains have a largest, and none is zero.
LEMMA MostGains == Most \in Nat \ {0} /\ \A g \in Gains : g \in Nat /\ g <= Most
<1> USE StealthAssumption DEF StealthAssumption
<1>1. \E most \in Gains : \A g \in Gains : most >= g
  OBVIOUS
<1>2. Max(Gains) \in Gains /\ \A g \in Gains : Max(Gains) >= g
  BY <1>1 DEF Max
<1> QED BY <1>2 DEF Most

\* The larger of two integers, and a value held between 0 and a bound.
LEMMA MaxIs ==
  ASSUME NEW x \in Int, NEW y \in Int
  PROVE  Max({x, y}) = IF x >= y THEN x ELSE y
<1>1. \E m \in {x, y} : \A z \in {x, y} : m >= z
  <2>1. CASE x >= y
    BY <2>1
  <2>2. CASE y >= x
    BY <2>2
  <2> QED BY <2>1, <2>2
<1>2. Max({x, y}) \in {x, y} /\ Max({x, y}) >= x /\ Max({x, y}) >= y
  BY <1>1 DEF Max
<1> QED BY <1>2

\* A value held between 0 and a bound.
LEMMA WithinIs ==
  ASSUME NEW x \in Int, NEW hi \in Nat
  PROVE  Within(x, hi) = IF x >= hi THEN hi ELSE IF x >= 0 THEN x ELSE 0
<1>1. PICK m \in Int : m = Min({x, hi}) /\ m = (IF x <= hi THEN x ELSE hi)
  BY MinIs
<1>2. Max({0, m}) = IF 0 >= m THEN 0 ELSE m
  BY MaxIs
<1> QED BY <1>1, <1>2 DEF Within

\* A product grows with each of its factors.
LEMMA ProductGrows ==
  ASSUME NEW a \in Nat, NEW b \in Nat, NEW x \in Nat, NEW y \in Nat, a <= b, x <= y
  PROVE  a * x <= b * y
<1>1. a * x <= b * x
  OBVIOUS
<1>2. b * x <= b * y
  OBVIOUS
<1> QED BY <1>1, <1>2

\* Suspicion is paid for by the time in view; the time of a confirmation that has not ended
\* is still to be paid out.
Owing == IF candidate = -1 THEN 0 ELSE candidate
Paid ==
    /\ suspicion \in 0..Found /\ inView \in 0..Found /\ candidate \in Int /\ candidate >= -1
    /\ candidate = -1 \/ candidate < Confirm
    /\ confirmed \in BOOLEAN /\ (confirmed => candidate = -1)
    /\ inView = Found \/ suspicion + Most * Owing <= Most * inView

\* A sure frame confirms, or the candidate grows.
LEMMA SureFrame ==
  ASSUME Paid, NEW dt \in Nat, See(dt)
  PROVE  /\ confirmed' \in BOOLEAN /\ candidate' \in Int /\ candidate' >= -1
         /\ candidate' = -1 \/ candidate' < Confirm
         /\ confirmed' => candidate' = -1
         /\ Exposure(dt) \in Nat
         /\ confirmed' => Exposure(dt) <= Owing + dt
         /\ ~confirmed' => Owing' <= Owing + dt
<1> USE StealthAssumption DEF StealthAssumption, None
<1>1. CASE confirmed
  BY <1>1 DEF Paid, See, Exposure, Owing
<1>2. CASE ~confirmed
  <2> DEFINE since == IF candidate = -1 THEN 0 ELSE Age(candidate, dt, Confirm)
  <2>1. /\ confirmed' \in BOOLEAN /\ (confirmed' <=> since >= Confirm)
        /\ confirmed' => candidate' = -1
        /\ ~confirmed' => candidate' = since
    <3>1. confirmed' = (since >= Confirm) /\ candidate' = (IF confirmed' THEN -1 ELSE since)
      BY <1>2 DEF See
    <3>2. confirmed' \in BOOLEAN
      BY <3>1
    <3>3. confirmed' <=> since >= Confirm
      BY <3>1
    <3> QED BY <3>1, <3>2, <3>3
  <2>2. candidate # -1 => Age(candidate, dt, Confirm)
                            = IF candidate + dt <= Confirm THEN candidate + dt ELSE Confirm
    <3>1. candidate + dt \in Int /\ Confirm \in Int
      BY DEF Paid
    <3>2. Min({candidate + dt, Confirm}) = IF candidate + dt <= Confirm THEN candidate + dt ELSE Confirm
      BY <3>1, MinIs
    <3> QED BY <3>2 DEF Age
  <2>3. CASE candidate = -1
    <3>1. Max({dt, 0}) = dt
      BY MaxIs
    <3>2. Exposure(dt) = dt
      BY <1>2, <2>3, <3>1 DEF Exposure
    <3>3. since = 0
      BY <2>3
    <3>4. candidate' = -1 \/ (candidate' = 0 /\ 0 < Confirm)
      <4>1. 0 >= Confirm \/ 0 < Confirm
        OBVIOUS
      <4>2. confirmed' <=> 0 >= Confirm
        BY <2>1, <3>3
      <4>3. ~confirmed' => candidate' = 0
        BY <2>1, <3>3
      <4> QED BY <2>1, <4>1, <4>2, <4>3
    <3> QED BY <2>1, <2>3, <3>2, <3>4 DEF Owing
  <2>4. CASE candidate # -1
    <3>1. candidate \in Nat /\ candidate + dt \in Nat
      BY <2>4 DEF Paid
    <3>2. Max({dt, candidate + dt}) = candidate + dt
      BY <3>1, MaxIs
    <3>3. Exposure(dt) = candidate + dt
      BY <1>2, <2>4, <3>2 DEF Exposure
    <3>4. since = IF candidate + dt <= Confirm THEN candidate + dt ELSE Confirm
      BY <2>2, <2>4
    <3>5. candidate' = -1 \/ (candidate' = candidate + dt /\ candidate + dt < Confirm)
      <4>1. CASE candidate + dt < Confirm
        <5>1. since = candidate + dt /\ ~(since >= Confirm)
          BY <3>1, <3>4, <4>1
        <5> QED BY <2>1, <4>1, <5>1
      <4>2. CASE ~(candidate + dt < Confirm)
        <5>1. since = Confirm
          BY <3>1, <3>4, <4>2
        <5>2. since >= Confirm
          BY <5>1
        <5> QED BY <2>1, <5>2
      <4> QED BY <4>1, <4>2
    <3>6. candidate' \in Int /\ candidate' >= -1 /\ (candidate' = -1 \/ candidate' < Confirm)
      BY <3>1, <3>5
    <3>7. Exposure(dt) = Owing + dt /\ Exposure(dt) \in Nat
      BY <2>4, <3>1, <3>3 DEF Owing
    <3>8. Owing' <= Owing + dt
      <4>1. Owing = candidate
        BY <2>4 DEF Owing
      <4>2. Owing' = 0 \/ Owing' = candidate + dt
        BY <3>5 DEF Owing
      <4> QED BY <3>1, <4>1, <4>2
    <3>9. Owing + dt \in Nat
      BY <3>7
    <3> QED BY <2>1, <3>6, <3>7, <3>8, <3>9
  <2> QED BY <2>3, <2>4
<1> QED BY <1>1, <1>2 DEF Paid

\* Only a sure frame raises the suspicion.
LEMMA OnlySureFramesRaise ==
  ASSUME Paid, NEW o \in Observations, NEW dt \in Nat, Sneaking(o, dt), ~o.sure
  PROVE  suspicion' \in 0..suspicion
<1> USE StealthAssumption DEF StealthAssumption
<1>1. PICK gain \in Gains :
        suspicion' = Within(IF o.sure /\ confirmed' THEN suspicion + gain * Exposure(dt)
                            ELSE IF ~confirmed' THEN suspicion - Decay * dt
                            ELSE suspicion, Found)
  BY DEF Sneaking, Suspect
<1>2. Decay * dt \in Nat /\ suspicion \in 0..Found
  BY DEF Paid
<1>3. CASE confirmed'
  <2>1. Within(suspicion, Found) = suspicion
    BY <1>2, WithinIs
  <2> QED BY <1>1, <1>2, <1>3, <2>1
<1>4. CASE ~confirmed'
  <2>1. suspicion - Decay * dt \in Int /\ suspicion - Decay * dt <= suspicion
    BY <1>2
  <2>2. suspicion' = Within(suspicion - Decay * dt, Found)
    BY <1>1, <1>4
  <2> QED BY <1>2, <2>1, <2>2, WithinIs
<1> QED BY <1>3, <1>4

\* What a frame adds to the suspicion is paid for.
LEMMA SuspicionIsPaid ==
  ASSUME Paid, NEW o \in Observations, NEW dt \in Nat, Sneaking(o, dt)
  PROVE  Paid'
<1> USE StealthAssumption, MostGains DEF StealthAssumption
<1>1. PICK gain \in Gains :
        suspicion' = Within(IF o.sure /\ confirmed' THEN suspicion + gain * Exposure(dt)
                            ELSE IF ~confirmed' THEN suspicion - Decay * dt
                            ELSE suspicion, Found)
  BY DEF Sneaking, Suspect
<1>2. /\ confirmed' \in BOOLEAN /\ candidate' \in Int /\ candidate' >= -1
      /\ candidate' = -1 \/ candidate' < Confirm
      /\ confirmed' => candidate' = -1
  <2>1. CASE o.sure
    BY <2>1, SureFrame DEF Sneaking
  <2>2. CASE ~o.sure
    <3>1. Miss(dt)
      BY <2>2 DEF Sneaking
    <3>2. candidate' = -1
      BY <3>1 DEF Miss, None
    <3>3. confirmed' \in BOOLEAN
      <4>1. CASE confirmed
        <5> DEFINE for == IF gone = None THEN 0 ELSE Age(gone, dt, LostGrace)
        <5>1. confirmed' = (for < LostGrace)
          BY <3>1, <4>1 DEF Miss
        <5> QED BY <5>1
      <4>2. CASE ~confirmed
        BY <3>1, <4>2 DEF Miss, Paid
      <4> QED BY <4>1, <4>2
    <3> QED BY <3>2, <3>3
  <2> QED BY <2>1, <2>2
<1>3. Within(suspicion, Found) = suspicion
  BY WithinIs DEF Paid
<1>4. ASSUME NEW s \in Int, NEW t \in 0..Found, s <= t PROVE Within(s, Found) \in 0..t
  BY <1>4, WithinIs
<1>5. inView' = Min({inView + (IF o.sure THEN dt ELSE 0), Found})
  BY DEF Sneaking, Suspect
<1>6. CASE ~o.sure
  <2>1. inView' = inView
    <3>1. inView + 0 \in Int /\ inView + 0 = inView /\ Found \in Int
      BY DEF Paid
    <3>2. inView' = Min({inView + 0, Found})
      BY <1>5, <1>6
    <3>3. Min({inView + 0, Found}) = IF inView + 0 <= Found THEN inView + 0 ELSE Found
      BY <3>1, MinIs
    <3> QED BY <3>1, <3>2, <3>3 DEF Paid
  <2>2. candidate' = -1
    BY <1>6 DEF Sneaking, Miss, None
  <2>3. suspicion' \in 0..suspicion
    BY <1>6, OnlySureFramesRaise
  <2>4. PICK m \in Nat : m = Most
    OBVIOUS
  <2>5. Owing' = 0 /\ Owing >= 0
    BY <2>2 DEF Owing, Paid
  <2>6. Most * Owing >= 0 /\ Most * Owing' = 0 /\ Most * Owing \in Int
    <3>1. Owing \in Nat
      BY DEF Owing, Paid
    <3> QED BY <2>5, <3>1
  <2>7. inView' = Found \/ suspicion' + Most * Owing' <= Most * inView'
    BY <2>1, <2>3, <2>6 DEF Paid
  <2>8. suspicion' \in 0..Found
    BY <2>3 DEF Paid
  <2> QED BY <1>2, <2>1, <2>7, <2>8 DEF Paid
<1>7. CASE o.sure
  <2>1. See(dt)
    BY <1>7 DEF Sneaking
  <2>2. PICK m \in Nat, s \in Nat, v \in Nat, w \in Nat, f \in Nat, e \in Nat, g \in Nat :
          /\ m = Most /\ s = suspicion /\ v = inView /\ w = Owing /\ f = Found /\ e = Exposure(dt)
          /\ g = gain /\ g <= m /\ s <= f /\ v <= f /\ (v = f \/ s + m * w <= m * v) /\ m >= 1
    <3>1. Exposure(dt) \in Nat
      BY <2>1, SureFrame
    <3>2. Owing \in Nat
      BY DEF Owing, Paid
    <3>3. /\ suspicion \in Nat /\ suspicion <= Found /\ inView \in Nat /\ inView <= Found
          /\ inView = Found \/ suspicion + Most * Owing <= Most * inView
      BY DEF Paid
    <3>4. gain \in Nat /\ gain <= Most /\ Most \in Nat /\ Most >= 1 /\ Found \in Nat
      OBVIOUS
    <3> QED BY ONLY <3>1, <3>2, <3>3, <3>4
  <2>3. inView' = IF v + dt <= f THEN v + dt ELSE f
    <3>1. v + dt \in Int
      OBVIOUS
    <3> QED BY ONLY <1>5, <1>7, <2>2, <3>1, MinIs
  <2>4. m * (v + dt) = m * v + m * dt /\ m * (w + dt) = m * w + m * dt
    OBVIOUS
  <2>5. v + dt >= f \/ s + m * (w + dt) <= m * (v + dt)
    BY ONLY <2>2, <2>4, dt \in Nat
  <2>6. CASE confirmed'
    <3>1. e <= w + dt
      BY <2>1, <2>2, <2>6, SureFrame
    <3>2. g * e \in Nat /\ g * e <= m * (w + dt)
      BY <2>2, <3>1, ProductGrows
    <3>3. PICK n \in Nat : n = s + g * e
      BY <3>2
    <3>4. suspicion' = IF n >= f THEN f ELSE n
      <4>1. suspicion' = Within(n, f)
        BY <1>1, <1>7, <2>2, <2>6, <3>3
      <4> QED BY <4>1, WithinIs
    <3>5. Owing' = 0
      BY <1>2, <2>6 DEF Owing
    <3>6. suspicion' \in 0..f /\ inView' \in 0..f /\ m * 0 = 0
      BY <2>2, <2>3, <3>4
    <3>7. inView' = f \/ n <= m * (v + dt)
      BY <2>3, <2>5, <3>2, <3>3
    <3>8. inView' = f \/ (inView' = v + dt /\ suspicion' <= m * (v + dt))
      BY <2>3, <3>4, <3>7
    <3>9. inView' = Found \/ suspicion' + Most * Owing' <= Most * inView'
      <4>1. Most * Owing' = 0
        BY <2>2, <3>5, <3>6
      <4>2. PICK k \in Nat : k = suspicion'
        <5>1. suspicion' \in 0..f
          BY ONLY <3>6
        <5> QED BY ONLY <5>1, f \in Nat
      <4>3. inView' = v + dt => Most * inView' = m * (v + dt)
        BY <2>2
      <4> QED BY <2>2, <3>8, <4>1, <4>2, <4>3
    <3> QED BY <1>2, <2>2, <3>6, <3>9 DEF Paid
  <2>7. CASE ~confirmed'
    <3>1. PICK u \in Nat : u = Owing' /\ u <= w + dt
      BY <1>2, <2>1, <2>2, <2>7, SureFrame DEF Owing
    <3>2. PICK n \in Nat : n = suspicion' /\ n <= s /\ n <= f
      <4>1. Decay * dt \in Nat
        OBVIOUS
      <4>2. s - Decay * dt \in Int /\ s - Decay * dt <= s /\ s \in 0..Found
        BY <2>2, <4>1
      <4>3. suspicion' = Within(s - Decay * dt, Found)
        BY <1>1, <2>2, <2>7
      <4>4. suspicion' \in 0..s
        BY <1>4, <4>2, <4>3
      <4> QED BY <2>2, <4>4
    <3>3. m * u <= m * (w + dt)
      <4>1. w + dt \in Nat /\ m <= m /\ u \in Nat /\ m \in Nat
        OBVIOUS
      <4>2. u <= w + dt
        BY <3>1
      <4> QED BY ONLY <4>1, <4>2, ProductGrows
    <3>4. inView' = f \/ (inView' = v + dt /\ n + m * u <= m * (v + dt))
      <4>1. PICK p \in Nat, q \in Nat, r \in Nat : p = m * u /\ q = m * (w + dt) /\ r = m * (v + dt)
        OBVIOUS
      <4>2. (v + dt >= f \/ s + q <= r) /\ p <= q
        BY ONLY <2>5, <3>3, <4>1
      <4>3. n <= s
        BY <3>2
      <4>4. v + dt >= f \/ n + p <= r
        BY ONLY <4>2, <4>3, n \in Nat, s \in Nat, p \in Nat, q \in Nat, r \in Nat
      <4>5. inView' = f \/ (inView' = v + dt /\ n + p <= r)
        BY ONLY <2>3, <4>4, v \in Nat, f \in Nat, dt \in Nat
      <4> QED BY ONLY <4>1, <4>5
    <3>5. inView' \in 0..f
      BY <2>2, <2>3
    <3>6. inView' = Found \/ suspicion' + Most * Owing' <= Most * inView'
      BY <2>2, <3>1, <3>2, <3>4
    <3> QED BY <1>2, <2>2, <3>2, <3>5, <3>6 DEF Paid
  <2> QED BY <2>6, <2>7
<1> QED BY <1>6, <1>7

\* The engine and the controller agree on the state; while the game is over the robot's look
\* is locked where the player was found, and before that nobody has been found.
Looks ==
    /\ game \in {"UNAWARE", "SUSPICIOUS", "ALERT"} \cup Over /\ tracked = game
    /\ game \notin Over => suspicion < Found
    /\ follows \in BOOLEAN
    /\ follows /\ game \in Over => locked = foundAt /\ aim = foundAt /\ status = "LOCKED"
StealthIInv == Paid /\ Looks

\* The game starts in the invariant.
LEMMA StealthInitInv == StealthInit => StealthIInv
<1> SUFFICES ASSUME StealthInit PROVE StealthIInv
  OBVIOUS
<1> USE StealthAssumption, MostGains DEF StealthAssumption, StealthInit
<1>1. PICK m \in Nat : m = Most
  OBVIOUS
<1>2. Owing = 0 /\ m * 0 = 0
  BY <1>1 DEF Owing, None
<1>3. suspicion \in 0..Found /\ inView \in 0..Found /\ candidate = -1 /\ confirmed = FALSE
  BY DEF None
<1>4. suspicion + Most * Owing <= Most * inView
  BY <1>1, <1>2
<1>5. Paid
  <2>1. confirmed \in BOOLEAN /\ (confirmed => candidate = -1)
    BY ONLY <1>3
  <2>2. candidate \in Int /\ candidate >= -1
    BY ONLY <1>3
  <2> QED BY ONLY <1>3, <1>4, <2>1, <2>2 DEF Paid
<1>6. Looks
  BY DEF Looks, Over
<1> QED BY <1>5, <1>6 DEF StealthIInv

\* A sure observation shows the player.
LEMMA Observed ==
  ASSUME NEW o \in Observations
  PROVE  o.sure \in BOOLEAN /\ (o.sure => o.visible /\ o.yaw \in Yaws)
<1>1. CASE o = Missing
  <2>1. o.sure = FALSE
    BY <1>1 DEF Missing
  <2> QED BY <2>1
<1>2. CASE o \in [visible : {TRUE}, sure : BOOLEAN, yaw : Yaws]
  <2>1. o.visible = TRUE
    BY <1>2
  <2>2. o.sure \in BOOLEAN
    BY <1>2
  <2>3. o.yaw \in Yaws
    BY <1>2
  <2> QED BY <2>1, <2>2, <2>3
<1> QED BY <1>1, <1>2 DEF Observations

\* Frames of a game that goes on, with the controller that follows it.
LEMMA SneakingLooks ==
  ASSUME StealthIInv, NEW o \in Observations, NEW dt \in Nat, Sneaking(o, dt), Track(o, dt),
         follows' = follows
  PROVE  Looks'
<1> USE StealthAssumption DEF StealthAssumption, StealthIInv
<1>1. suspicion' \in 0..Found
  BY SuspicionIsPaid DEF Paid
<1>2. game' = StateOf(suspicion')
  BY DEF Sneaking, Suspect
<1>3. game' \in {"UNAWARE", "SUSPICIOUS", "ALERT", "FOUND"}
  BY <1>2 DEF StateOf
<1>4. game' = "FOUND" <=> suspicion' >= Found
  BY <1>2 DEF StateOf
<1>5. tracked' = game'
  BY DEF Track
<1>6. game' \notin Over => suspicion' < Found
  BY <1>1, <1>4 DEF Over
<1>7. ASSUME game' \in Over, follows PROVE locked' = foundAt' /\ aim' = foundAt' /\ status' = "LOCKED"
  <2>1. game' = "FOUND" /\ tracked \notin Over /\ suspicion \in 0..Found /\ suspicion < Found
    BY <1>3, <1>7 DEF Over, Sneaking, Looks, Paid
  <2>2. o.sure
    <3>1. CASE ~o.sure
      <4>1. suspicion' \in 0..suspicion
        BY <3>1, OnlySureFramesRaise
      <4> QED BY <1>4, <2>1, <4>1
    <3> QED BY <3>1
  <2>3. o.visible /\ o.yaw \in Yaws
    BY <2>2, Observed
  <2>4. foundAt' = o.yaw
    BY <2>1 DEF Sneaking, Suspect
  <2>5. Seen(o)
    BY <1>7, <2>1, <2>3 DEF Seen
  <2>6. lastSeen' = o.yaw /\ lastSeen' # NoYaw
    BY <2>3, <2>5 DEF Track, Yaws, NoYaw
  <2>7. status' = "LOCKED" /\ locked' = lastSeen' /\ aim' = locked'
    BY <1>7, <2>1, <2>6 DEF Track
  <2> QED BY <2>4, <2>6, <2>7
<1>8. follows' \in BOOLEAN
  BY DEF Looks
<1> QED BY <1>3, <1>5, <1>6, <1>7, <1>8 DEF Looks, Over

\* Frames of a game that is over.
LEMMA OverLooks ==
  ASSUME StealthIInv, NEW o \in Observations, NEW dt \in Nat, FoundWaits(dt) \/ GameIsOver(dt),
         Track(o, dt), follows' = follows
  PROVE  StealthIInv'
<1>1. game \in Over /\ game' \in Over /\ tracked \in Over
  BY DEF FoundWaits, GameIsOver, Over, StealthIInv, Looks
<1>2. UNCHANGED <<suspicion, candidate, gone, confirmed, inView, foundAt>>
  BY DEF FoundWaits, GameIsOver
<1>3. Paid'
  BY <1>2 DEF StealthIInv, Paid, Owing
<1>4. tracked' = game' /\ (follows => status' = "LOCKED" /\ locked' = locked /\ aim' = locked')
  BY <1>1 DEF Track, Over
<1> QED BY <1>1, <1>2, <1>3, <1>4 DEF StealthIInv, Looks

\* A new round owes nothing and has found nobody.
LEMMA RestartLooks ==
  ASSUME StealthIInv, follows' = follows,
         game' = "UNAWARE", tracked' = "UNAWARE", suspicion' = 0, inView' = 0,
         confirmed' \in BOOLEAN, confirmed' => candidate' = -1,
         candidate' = -1 \/ (candidate' = 0 /\ 0 < Confirm)
  PROVE  StealthIInv'
<1> USE StealthAssumption, MostGains DEF StealthAssumption
<1>1. PICK m \in Nat : m = Most
  OBVIOUS
<1>2. Owing' = 0 /\ m * 0 = 0
  BY <1>1 DEF Owing
<1>3. Paid'
  BY <1>1, <1>2 DEF Paid
<1>4. Looks'
  BY DEF StealthIInv, Looks, Over
<1> QED BY <1>3, <1>4 DEF StealthIInv

\* Every frame, and the reset, keep the invariant.
LEMMA StealthNextInv == StealthIInv /\ [StealthNext]_stealthVars => StealthIInv'
<1> SUFFICES ASSUME StealthIInv, [StealthNext]_stealthVars PROVE StealthIInv'
  OBVIOUS
<1>1. ASSUME NEW o \in Observations, NEW dt \in 0..MaxGap, ProcessTarget(o, dt) PROVE StealthIInv'
  <2>1. dt \in Nat /\ Track(o, dt) /\ follows' = follows
    BY <1>1, StealthAssumption DEF StealthAssumption, ProcessTarget, stealthConfig
  <2>2. CASE Sneaking(o, dt)
    BY <2>1, <2>2, SneakingLooks, SuspicionIsPaid DEF StealthIInv
  <2>3. CASE FoundWaits(dt) \/ GameIsOver(dt)
    BY <2>1, <2>3, OverLooks
  <2>4. CASE ResetsItself(o, dt)
    <3>1. game' = "UNAWARE" /\ suspicion' = 0 /\ inView' = 0 /\ tracked' = "UNAWARE"
      BY <2>1, <2>4 DEF ResetsItself, Track
    <3>2. o.sure \in BOOLEAN
      BY Observed
    <3>3. confirmed' \in BOOLEAN /\ (confirmed' <=> o.sure /\ Confirm = 0)
      BY <2>4, <3>2 DEF ResetsItself
    <3>4. candidate' = IF o.sure /\ ~confirmed' THEN 0 ELSE -1
      BY <2>4 DEF ResetsItself, None
    <3>5. Confirm = 0 \/ 0 < Confirm
      BY StealthAssumption DEF StealthAssumption
    <3>6. candidate' = -1 \/ (candidate' = 0 /\ 0 < Confirm)
      BY <3>3, <3>4, <3>5
    <3>7. confirmed' => candidate' = -1
      BY <3>4
    <3> QED BY <2>1, <3>1, <3>3, <3>6, <3>7, RestartLooks
  <2> QED BY <1>1, <2>2, <2>3, <2>4 DEF ProcessTarget
<1>2. CASE ResetGame
  BY <1>2, RestartLooks DEF ResetGame, NewRound, None, stealthConfig
<1>3. CASE UNCHANGED stealthVars
  BY <1>3 DEF stealthVars, stealthConfig, StealthIInv, Paid, Owing, Looks
<1> QED BY <1>1, <1>2, <1>3 DEF StealthNext

\* Nobody is found but by the time the frames of the round had the player in view, and a
\* game that is over keeps the look of a robot that follows where the player was found.
THEOREM StealthSafety == StealthSpec => []FoundIsEarned
<1>1. StealthIInv => FoundIsEarned
  <2> SUFFICES ASSUME StealthIInv PROVE FoundIsEarned
    OBVIOUS
  <2> USE StealthAssumption, MostGains DEF StealthAssumption, StealthIInv
  <2>1. PICK m \in Nat, s \in Nat, v \in Nat, w \in Nat, f \in Nat :
          /\ m = Most /\ s = suspicion /\ v = inView /\ w = Owing /\ f = Found
          /\ m >= 1 /\ s <= f /\ (v = f \/ s + m * w <= m * v)
    BY DEF Paid, Owing
  <2>2. s <= v * m
    <3>1. CASE v = f
      <4>1. 1 * v <= m * v
        BY <2>1, ProductGrows
      <4> QED BY <2>1, <3>1, <4>1
    <3>2. CASE s + m * w <= m * v
      <4>1. m * w \in Nat /\ m * v \in Nat /\ m * v = v * m
        OBVIOUS
      <4> QED BY ONLY <3>2, <4>1, s \in Nat
    <3> QED BY <2>1, <3>1, <3>2
  <2>3. suspicion <= inView * Max(Gains)
    BY <2>1, <2>2 DEF Most
  <2> QED BY <2>3 DEF Looks, FoundIsEarned
<1> QED BY <1>1, StealthInitInv, StealthNextInv, PTL DEF StealthSpec

================================================================================
