------------------------ MODULE PatrolControllerProofs ------------------------
EXTENDS PatrolInvariant, SequenceTheorems, TLAPS

USE DEF Goto, At, Runner, Control

\* The controller starts within its types.
LEMMA InitType == Init => TypeOK
<1> SUFFICES ASSUME Init PROVE TypeOK
  OBVIOUS
<1>1. ControlStateOK
  BY DEF Init, ControlStateOK, Labels, RunnerLabels, ControlLabels, Threads
<1>2. FramesOK
  <2>1. ret = NoFrame /\ DOMAIN NoFrame = Procs
    BY DEF Init, NoFrame, Procs
  <2>2. \A p \in Procs : NoFrame[p] \in Returns[p] /\ NoFrame[p] \in Labels
    BY DEF NoFrame, Procs, Returns, Labels, RunnerLabels, ControlLabels
  <2>3. NoFrame = [p \in Procs |-> NoFrame[p]]
    BY DEF NoFrame, Procs
  <2> QED BY <2>1, <2>2, <2>3 DEF FramesOK
<1>3. FlagsOK
  BY ModeAssumption DEF Init, FlagsOK
<1>4. DataOK
  <2>1. Len(Route) \in Nat /\ Len(Route) # 0
    BY RouteAssumption, EmptySeq, LenProperties
  <2>2. /\ stage \in 1..Len(Route) /\ cycle \in 1..Cycles
        /\ ops \in 0..MaxOps /\ late \in 0..2
    BY <2>1, CyclesAssumption, MaxOpsAssumption DEF Init
  <2>3. state \in {"STAGE", "PAUSED", "STOPPED"} /\ owner \in {"nobody", "operator"}
    BY DEF Init
  <2> QED BY <2>2, <2>3 DEF Init, DataOK
<1> QED BY <1>1, <1>2, <1>3, <1>4 DEF TypeOK

\* Every step keeps the types.
LEMMA NextType == ASSUME TypeOK, [Next]_vars PROVE TypeOK'
<1> USE DEF TypeOK, vars, flags, route, local, serve, Threads, SendStop, Raise, Quiet
<1>1. ControlStateOK'
  <2> USE DEF ControlStateOK, FramesOK, Return, CallActivate,
          Procs, Returns, Labels, RunnerLabels, ControlLabels, SharedLabels
  <2>1. ASSUME NEW t \in Threads, Shared(t) PROVE ControlStateOK'
    BY <2>1 DEF Shared, ActivateLock, ActivateHalt, ActivateAck, RecordError, RecordStop
  <2>2. CASE EnterStage \/ Checkpoint \/ Hold \/ Begin \/ Loop
    BY <2>2 DEF EnterStage, Checkpoint, Hold, Begin, Loop
  <2>3. ASSUME NEW l \in {"odom", "imu", "imuEnd"}, Sample(l) PROVE ControlStateOK'
    BY <2>3 DEF Sample, AfterSample
  <2>4. CASE Judge \/ Look \/ Lidar \/ Decide \/ SendMove \/ Halt
    BY <2>4 DEF Judge, Look, Lidar, OnReading, Decide, SendMove, Halt
  <2>5. CASE TurnStop \/ StageStop \/ NextStage
    BY <2>5 DEF TurnStop, StageStop, NextStage
  <2>6. CASE RecoverStop \/ RecoverSet \/ RecoverWait \/ RecoverClear \/ RecoverDeadline
    BY <2>6 DEF RecoverStop, RecoverSet, RecoverWait, RecoverClear, RecoverDeadline
  <2>7. CASE RecoverCheck
    BY <2>7 DEF RecoverCheck, DataOK
  <2>8. CASE BlockedStop \/ BlockedSet \/ Blocked \/ BlockedFresh \/ BlockedAgain
             \/ BlockedClear \/ BlockedDeadline
    BY <2>8 DEF BlockedStop, BlockedSet, Blocked, BlockedFresh, BlockedAgain,
                BlockedClear, BlockedDeadline
  <2>9. CASE Unwind \/ FinalStop \/ FinalFlags \/ Interrupt
    BY <2>9 DEF Unwind, FinalStop, FinalFlags, Interrupt
  <2>10. CASE RequestLock \/ RequestRead \/ RequestWait \/ RequestStatus
    BY <2>10 DEF RequestLock, RequestRead, RequestWait, RequestStatus, Reply
  <2>11. CASE FreshCheck \/ Fresh \/ ResumeLock \/ ResumeClear
    BY <2>11 DEF FreshCheck, Fresh, ResumeLock, ResumeClear, Reply
  <2>12. CASE StopSet \/ StopPause \/ StopSend \/ StopState
    BY <2>12 DEF StopSet, StopPause, StopSend, StopState, Reply
  <2>13. ASSUME NEW o \in Ops, Receive(o) PROVE ControlStateOK'
    BY <2>13 DEF Receive
  <2>14. CASE UNCHANGED vars
    BY <2>14
  <2> QED
    BY <2>1, <2>2, <2>3, <2>4, <2>5, <2>6, <2>7, <2>8, <2>9, <2>10, <2>11, <2>12,
       <2>13, <2>14 DEF Next, RunnerNext, Serve, Deadlines
<1>2. FramesOK'
  <2> USE DEF FramesOK, DataOK, Return, CallActivate, Procs, Returns, Labels,
          RunnerLabels, ControlLabels, NoFrame
  <2>1. ASSUME NEW t \in Threads, Shared(t) PROVE FramesOK'
    BY <2>1 DEF Shared, ActivateLock, ActivateHalt, ActivateAck, RecordError, RecordStop
  <2>2. ASSUME NEW l \in {"odom", "imu", "imuEnd"}, Sample(l) PROVE FramesOK'
    BY <2>2 DEF Sample, AfterSample
  <2>3. CASE EnterStage \/ Checkpoint \/ Hold \/ Begin \/ Loop
    BY <2>3 DEF EnterStage, Checkpoint, Hold, Begin, Loop
  <2>4. CASE Judge \/ Look \/ Lidar \/ Decide \/ SendMove \/ Halt
    BY <2>4 DEF Judge, Look, Lidar, OnReading, Decide, SendMove, Halt
  <2>5. CASE TurnStop \/ StageStop \/ NextStage
    BY <2>5 DEF TurnStop, StageStop, NextStage
  <2>6. CASE RecoverStop \/ RecoverSet \/ RecoverWait \/ RecoverClear \/ RecoverDeadline
    BY <2>6 DEF RecoverStop, RecoverSet, RecoverWait, RecoverClear, RecoverDeadline
  <2>7. CASE RecoverCheck
    BY <2>7 DEF RecoverCheck
  <2>8. CASE BlockedStop \/ BlockedSet \/ Blocked \/ BlockedFresh \/ BlockedAgain
             \/ BlockedClear \/ BlockedDeadline
    BY <2>8 DEF BlockedStop, BlockedSet, Blocked, BlockedFresh, BlockedAgain,
                BlockedClear, BlockedDeadline
  <2>9. CASE Unwind \/ FinalStop \/ FinalFlags \/ Interrupt
    BY <2>9 DEF Unwind, FinalStop, FinalFlags, Interrupt
  <2>10. CASE RequestLock \/ RequestRead \/ RequestWait \/ RequestStatus
    BY <2>10 DEF RequestLock, RequestRead, RequestWait, RequestStatus, Reply
  <2>11. CASE FreshCheck \/ Fresh \/ ResumeLock \/ ResumeClear
    BY <2>11 DEF FreshCheck, Fresh, ResumeLock, ResumeClear, Reply
  <2>12. CASE StopSet \/ StopPause \/ StopSend \/ StopState
    BY <2>12 DEF StopSet, StopPause, StopSend, StopState, Reply
  <2>13. ASSUME NEW o \in Ops, Receive(o) PROVE FramesOK'
    BY <2>13 DEF Receive
  <2>14. CASE UNCHANGED vars
    BY <2>14
  <2> QED
    BY <2>1, <2>2, <2>3, <2>4, <2>5, <2>6, <2>7, <2>8, <2>9,
       <2>10, <2>11, <2>12, <2>13, <2>14
    DEF Next, RunnerNext, Serve, Deadlines
<1>3. FlagsOK'
  <2> USE DEF FlagsOK, Return, CallActivate
  <2>1. ASSUME NEW t \in Threads, Shared(t) PROVE FlagsOK'
    BY <2>1 DEF Shared, ActivateLock, ActivateHalt, ActivateAck, RecordError, RecordStop
  <2>2. ASSUME NEW l \in {"odom", "imu", "imuEnd"}, Sample(l) PROVE FlagsOK'
    BY <2>2 DEF Sample, AfterSample
  <2>3. CASE EnterStage \/ Checkpoint \/ Hold \/ Begin \/ Loop
    BY <2>3 DEF EnterStage, Checkpoint, Hold, Begin, Loop
  <2>4. CASE Judge \/ Look \/ Lidar \/ Decide \/ SendMove \/ Halt
    BY <2>4 DEF Judge, Look, Lidar, OnReading, Decide, SendMove, Halt
  <2>5. CASE TurnStop \/ StageStop \/ NextStage
    BY <2>5 DEF TurnStop, StageStop, NextStage
  <2>6. CASE RecoverStop \/ RecoverSet \/ RecoverWait \/ RecoverClear \/ RecoverDeadline
    BY <2>6 DEF RecoverStop, RecoverSet, RecoverWait, RecoverClear, RecoverDeadline
  <2>7. CASE RecoverCheck
    BY <2>7 DEF RecoverCheck
  <2>8. CASE BlockedStop \/ BlockedSet \/ Blocked \/ BlockedFresh \/ BlockedAgain
             \/ BlockedClear \/ BlockedDeadline
    BY <2>8 DEF BlockedStop, BlockedSet, Blocked, BlockedFresh, BlockedAgain,
                BlockedClear, BlockedDeadline
  <2>9. CASE Unwind \/ FinalStop \/ FinalFlags \/ Interrupt
    BY <2>9 DEF Unwind, FinalStop, FinalFlags, Interrupt
  <2>10. CASE RequestLock \/ RequestRead \/ RequestWait \/ RequestStatus
    BY <2>10 DEF RequestLock, RequestRead, RequestWait, RequestStatus, Reply
  <2>11. CASE FreshCheck \/ Fresh \/ ResumeLock \/ ResumeClear
    BY <2>11 DEF FreshCheck, Fresh, ResumeLock, ResumeClear, Reply
  <2>12. CASE StopSet \/ StopPause \/ StopSend \/ StopState
    BY <2>12 DEF StopSet, StopPause, StopSend, StopState, Reply
  <2>13. ASSUME NEW o \in Ops, Receive(o) PROVE FlagsOK'
    BY <2>13 DEF Receive
  <2>14. CASE UNCHANGED vars
    BY <2>14
  <2> QED
    BY <2>1, <2>2, <2>3, <2>4, <2>5, <2>6, <2>7, <2>8, <2>9,
       <2>10, <2>11, <2>12, <2>13, <2>14
    DEF Next, RunnerNext, Serve, Deadlines
<1>4. DataOK'
  <2> USE RouteAssumption, MaxOpsAssumption, CyclesAssumption
          DEF DataOK, FramesOK, Procs, Returns, Return, CallActivate
  <2>1. ASSUME NEW t \in Threads, Shared(t) PROVE DataOK'
    BY <2>1 DEF Shared, ActivateLock, ActivateHalt, ActivateAck, RecordError, RecordStop
  <2>2. ASSUME NEW l \in {"odom", "imu", "imuEnd"}, Sample(l) PROVE DataOK'
    BY <2>2 DEF Sample, AfterSample
  <2>3. CASE EnterStage \/ Checkpoint \/ Hold \/ Begin \/ Loop
    BY <2>3 DEF EnterStage, Checkpoint, Hold, Begin, Loop
  <2>4. CASE Judge \/ Look \/ Lidar \/ Decide \/ Halt
    BY <2>4 DEF Judge, Look, Lidar, OnReading, Decide, Halt
  <2>15. CASE SendMove
    <3>1. late' \in 0..2
      BY <2>15 DEF SendMove
    <3> QED BY <2>15, <3>1 DEF SendMove
  <2>5. CASE TurnStop \/ StageStop \/ NextStage
    BY <2>5 DEF TurnStop, StageStop, NextStage
  <2>6. CASE RecoverStop \/ RecoverSet \/ RecoverWait \/ RecoverClear \/ RecoverDeadline
    BY <2>6 DEF RecoverStop, RecoverSet, RecoverWait, RecoverClear, RecoverDeadline
  <2>7. CASE RecoverCheck
    BY <2>7 DEF RecoverCheck
  <2>8. CASE BlockedStop \/ BlockedSet \/ Blocked \/ BlockedFresh \/ BlockedAgain
             \/ BlockedClear \/ BlockedDeadline
    BY <2>8 DEF BlockedStop, BlockedSet, Blocked, BlockedFresh, BlockedAgain,
                BlockedClear, BlockedDeadline
  <2>9. CASE Unwind \/ FinalStop \/ FinalFlags \/ Interrupt
    BY <2>9 DEF Unwind, FinalStop, FinalFlags, Interrupt
  <2>10. CASE RequestLock \/ RequestRead \/ RequestWait \/ RequestStatus
    BY <2>10 DEF RequestLock, RequestRead, RequestWait, RequestStatus, Reply
  <2>11. CASE FreshCheck \/ Fresh \/ ResumeLock \/ ResumeClear
    BY <2>11 DEF FreshCheck, Fresh, ResumeLock, ResumeClear, Reply
  <2>12. CASE StopSet \/ StopPause \/ StopSend \/ StopState
    BY <2>12 DEF StopSet, StopPause, StopSend, StopState, Reply
  <2>13. ASSUME NEW o \in Ops, Receive(o) PROVE DataOK'
    BY <2>13 DEF Receive
  <2>14. CASE UNCHANGED vars
    BY <2>14
  <2> QED
    BY <2>1, <2>2, <2>3, <2>4, <2>5, <2>6, <2>7, <2>8, <2>9,
       <2>10, <2>11, <2>12, <2>13, <2>14, <2>15
    DEF Next, RunnerNext, Serve, Deadlines
<1> QED BY <1>1, <1>2, <1>3, <1>4

\* Every thread is at one of its steps, every flag and clock in its range: each location,
\* register and flag of PatrolController keeps its type, whatever the threads do.
THEOREM TypeCorrect == Spec => []TypeOK
  BY InitType, NextType, PTL DEF Spec


\* Every step keeps the safe states.
LEMMA NextSafe == ASSUME IInv, [Next]_vars PROVE Safe'
<1> USE DEF IInv, Safe, ActivationOK, PauseIsHalting, AckMeansHalted, OwnershipOK,
        RecoveryOK, EndingOK, StopIsFollowed, Acting, Requesting, Recovering,
        TypeOK, ControlStateOK, FramesOK, FlagsOK, Procs, Returns, NoFrame, Threads,
        Return, CallActivate, vars, flags, route, local, serve, SendStop, Raise, Quiet
<1>1. ASSUME NEW t \in Threads, Shared(t) PROVE Safe'
  BY <1>1 DEF Shared, ActivateLock, ActivateHalt, ActivateAck, RecordError, RecordStop
<1>2. ASSUME NEW l \in {"odom", "imu", "imuEnd"}, Sample(l) PROVE Safe'
  BY <1>2 DEF Sample, AfterSample
<1>3. CASE EnterStage \/ Checkpoint \/ Hold \/ Begin \/ Loop
  BY <1>3 DEF EnterStage, Checkpoint, Hold, Begin, Loop
<1>4. CASE Judge \/ Look \/ Lidar \/ Decide \/ Halt
  BY <1>4 DEF Judge, Look, Lidar, OnReading, Decide, Halt
<1>5. CASE SendMove
  BY <1>5 DEF SendMove
<1>6. CASE TurnStop \/ StageStop \/ NextStage
  BY <1>6 DEF TurnStop, StageStop, NextStage
<1>7. CASE RecoverStop \/ RecoverSet \/ RecoverWait \/ RecoverClear \/ RecoverDeadline
  BY <1>7 DEF RecoverStop, RecoverSet, RecoverWait, RecoverClear, RecoverDeadline
<1>8. CASE RecoverCheck
  BY <1>8 DEF RecoverCheck, DataOK
<1>9. CASE BlockedStop \/ BlockedSet \/ Blocked \/ BlockedFresh \/ BlockedAgain
          \/ BlockedClear \/ BlockedDeadline
  BY <1>9 DEF BlockedStop, BlockedSet, Blocked, BlockedFresh, BlockedAgain,
              BlockedClear, BlockedDeadline
<1>10. CASE Unwind \/ FinalStop \/ FinalFlags \/ Interrupt
  BY <1>10 DEF Unwind, FinalStop, FinalFlags, Interrupt, Ending
<1>11. CASE RequestLock \/ RequestRead \/ RequestWait \/ RequestStatus
  <2>1. CASE RequestLock
    BY <2>1 DEF RequestLock, Reply
  <2>2. CASE RequestRead
    BY <2>2 DEF RequestRead
  <2>3. CASE RequestWait
    BY <2>3 DEF RequestWait
  <2>4. CASE RequestStatus
    BY <2>4 DEF RequestStatus, Reply
  <2> QED BY <1>11, <2>1, <2>2, <2>3, <2>4
<1>12. CASE FreshCheck \/ Fresh \/ ResumeLock \/ ResumeClear
  BY <1>12 DEF FreshCheck, Fresh, ResumeLock, ResumeClear, Reply
<1>13. CASE StopSet \/ StopPause \/ StopSend \/ StopState
  BY <1>13 DEF StopSet, StopPause, StopSend, StopState, Reply
<1>14. ASSUME NEW o \in Ops, Receive(o) PROVE Safe'
  <2>1. CASE o = "pause"
    BY <1>14, <2>1 DEF Receive
  <2>2. CASE o = "stop"
    BY <1>14, <2>2 DEF Receive
  <2>3. CASE o \in {"resume", "reaction_ready"}
    BY <1>14, <2>3 DEF Receive
  <2> QED BY <2>1, <2>2, <2>3 DEF Ops
<1>15. CASE UNCHANGED vars
  BY <1>15
<1> QED
  BY <1>1, <1>2, <1>3, <1>4, <1>5, <1>6, <1>7, <1>8, <1>9,
     <1>10, <1>11, <1>12, <1>13, <1>14, <1>15
  DEF Next, RunnerNext, Serve, Deadlines

\* The controller starts safe.
LEMMA InitSafe == Init => Safe
  BY ModeAssumption
  DEF Init, Safe, ActivationOK, PauseIsHalting, AckMeansHalted, OwnershipOK,
      RecoveryOK, EndingOK, StopIsFollowed, Acting, Requesting, Recovering

\* The inductive invariant holds of every behaviour.
THEOREM Invariance == Spec => []IInv
<1>1. Init => IInv
  BY InitType, InitSafe DEF IInv
<1>2. IInv /\ [Next]_vars => IInv'
  BY NextType, NextSafe DEF IInv
<1> QED BY <1>1, <1>2, PTL DEF Spec

\* A confirmed pause holds until its owner's resume takes effect, whatever the
\* runner and the control thread do in between (PatrolController.request_reaction_
\* pause, resume, stop and _send_move).
THEOREM PauseHolds == Spec => []ConfirmedPauseHolds
<1>1. IInv => ConfirmedPauseHolds
  BY DEF IInv, Safe, OwnershipOK, ConfirmedPauseHolds
<1> QED BY <1>1, Invariance, PTL

\* The robot stands still throughout a telemetry or obstacle recovery
\* (_recover_odom_source, _recover_transport, _recover_lidar_blocked ...).
THEOREM RecoveryStill == Spec => []RecoveryStandsStill
<1>1. IInv => RecoveryStandsStill
  BY DEF IInv, Safe, RecoveryOK, RecoveryStandsStill
<1> QED BY <1>1, Invariance, PTL

\* A stop flag is followed by the stop command (stop, _record_failure and the
\* finally clause of run).
THEOREM StopFollows == Spec => []StopIsFollowed
<1>1. IInv => StopIsFollowed
  BY DEF IInv, Safe
<1> QED BY <1>1, Invariance, PTL

\* A run that is over has stopped the robot (the finally clause of run).
THEOREM EndsStopped == Spec => []RunEndsStopped
<1>1. IInv => RunEndsStopped
  BY DEF IInv, Safe, EndingOK, RecoveryOK, Recovering, RunEndsStopped
<1> QED BY <1>1, Invariance, PTL

\* The steps that send a move, confirm or release a pause or end the run are four;
\* every other step leaves the command alone or stops.
Quietly == /\ cmd' \in {cmd, "STOP"} /\ owner' = owner
           /\ Runner("done")' <=> Runner("done")
           /\ ~(Runner("move") /\ Runner("loop")')
Telling == SendMove \/ RequestStatus \/ ResumeClear \/ FinalFlags

\* A step of the run is one of those four or a quiet one.
LEMMA StepKinds == ASSUME IInv, [Next]_vars PROVE Telling \/ Quietly
<1> SUFFICES ASSUME ~Telling PROVE Quietly
  OBVIOUS
<1> USE DEF IInv, TypeOK, ControlStateOK, FramesOK, Procs, Returns, Threads, Quietly, Telling,
        Return, CallActivate, vars, flags, route, local, serve, SendStop, Raise, Quiet
<1>1. ASSUME NEW t \in Threads, Shared(t) PROVE Quietly
  BY <1>1 DEF Shared, ActivateLock, ActivateHalt, ActivateAck, RecordError, RecordStop
<1>2. ASSUME NEW l \in {"odom", "imu", "imuEnd"}, Sample(l) PROVE Quietly
  BY <1>2 DEF Sample, AfterSample
<1>3. CASE EnterStage \/ Checkpoint \/ Hold \/ Begin \/ Loop
  BY <1>3 DEF EnterStage, Checkpoint, Hold, Begin, Loop
<1>4. CASE Judge \/ Look \/ Lidar \/ Decide \/ Halt
  BY <1>4 DEF Judge, Look, Lidar, OnReading, Decide, Halt
<1>5. CASE TurnStop \/ StageStop \/ NextStage
  BY <1>5 DEF TurnStop, StageStop, NextStage
<1>6. CASE RecoverStop \/ RecoverSet \/ RecoverWait \/ RecoverClear \/ RecoverDeadline
  BY <1>6 DEF RecoverStop, RecoverSet, RecoverWait, RecoverClear, RecoverDeadline
<1>7. CASE RecoverCheck
  BY <1>7 DEF RecoverCheck, DataOK
<1>8. CASE BlockedStop \/ BlockedSet \/ Blocked \/ BlockedFresh \/ BlockedAgain
          \/ BlockedClear \/ BlockedDeadline
  BY <1>8 DEF BlockedStop, BlockedSet, Blocked, BlockedFresh, BlockedAgain,
              BlockedClear, BlockedDeadline
<1>9. CASE Unwind \/ FinalStop \/ Interrupt
  BY <1>9 DEF Unwind, FinalStop, Interrupt, Ending
<1>10. CASE RequestLock \/ RequestRead \/ RequestWait
  BY <1>10 DEF RequestLock, RequestRead, RequestWait, Reply
<1>11. CASE FreshCheck \/ Fresh \/ ResumeLock
  BY <1>11 DEF FreshCheck, Fresh, ResumeLock, Reply
<1>12. CASE StopSet \/ StopPause \/ StopSend \/ StopState
  BY <1>12 DEF StopSet, StopPause, StopSend, StopState, Reply
<1>13. ASSUME NEW o \in Ops, Receive(o) PROVE Quietly
  BY <1>13 DEF Receive
<1>14. CASE UNCHANGED vars
  BY <1>14
<1> QED
  BY <1>1, <1>2, <1>3, <1>4, <1>5, <1>6, <1>7, <1>8, <1>9,
     <1>10, <1>11, <1>12, <1>13, <1>14
  DEF Next, RunnerNext, Serve, Deadlines

\* No move is sent once the stop flag is set or a failure is recorded (_send_move
\* reads the flags under the motion lock).
THEOREM NoMoveOnceStopped == Spec => NoMoveAfterStop
<1>1. ASSUME IInv, [Next]_vars, stopped \/ error
      PROVE  ~(Runner("move") /\ Runner("loop")' /\ moving')
  <2>1. CASE Quietly
    BY <2>1 DEF Quietly
  <2>2. CASE SendMove
    <3>1. Runner("move") => stopped \/ paused
      BY <1>1 DEF IInv, Safe, EndingOK, OwnershipOK
    <3> QED BY <2>2, <3>1 DEF SendMove
  <2>3. CASE RequestStatus \/ ResumeClear \/ FinalFlags
    BY <1>1, <2>3 DEF RequestStatus, ResumeClear, FinalFlags, Reply, IInv, TypeOK,
       ControlStateOK, Threads
  <2> QED BY <1>1, <2>1, <2>2, <2>3, StepKinds DEF Telling
<1> QED BY <1>1, Invariance, PTL DEF Spec, NoMoveAfterStop

\* The controller implements the promise of PauseService: what the reaction process
\* may rely on while it moves the arms.
THEOREM KeepsPromise == Spec => ServiceSpec
<1> DEFINE mode == IF Runner("done") THEN "over"
                   ELSE IF owner # "nobody" THEN "held" ELSE "free"
<1>1. Init => Service!Init
  BY ModeAssumption DEF Init, Service!Init
<1>2. ASSUME IInv, IInv', [Next]_vars PROVE [Service!Next]_<<mode, cmd>>
  <2> USE DEF Service!Next, Service!Move, Service!Stop, Service!Confirm,
              Service!Release, Service!Finish
  <2>1. CASE Quietly
    BY <1>2, <2>1 DEF Quietly
  <2>2. CASE SendMove
    BY <1>2, <2>2 DEF SendMove, IInv, TypeOK, ControlStateOK, Safe, OwnershipOK, Threads,
       serve
  <2>3. CASE RequestStatus
    BY <1>2, <2>3 DEF RequestStatus, Reply, IInv, TypeOK, ControlStateOK, Safe,
       OwnershipOK, EndingOK, Requesting, Threads
  <2>4. CASE ResumeClear
    BY <1>2, <2>4 DEF ResumeClear, Reply, IInv, TypeOK, ControlStateOK, Safe,
       OwnershipOK, Threads
  <2>5. CASE FinalFlags
    BY <1>2, <2>5 DEF FinalFlags, IInv, TypeOK, ControlStateOK, Safe, EndingOK, Threads,
       serve
  <2> QED BY <1>2, <2>1, <2>2, <2>3, <2>4, <2>5, StepKinds DEF Telling
<1> QED BY <1>1, <1>2, Invariance, PTL DEF Spec, ServiceSpec, Service!Spec

===============================================================================
