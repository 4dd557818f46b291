--------------------------- MODULE PatrolController ---------------------------
(***************************************************************************)
(* The patrol process of the integrated demo: the thread that drives the   *)
(* robot along its stages (PatrolController.run) and the thread that       *)
(* serves the control socket (PatrolControlServer._serve), which pauses,   *)
(* resumes and stops the first one.  They share six flags, two locks and   *)
(* the command last handed to the locomotion adapter.                      *)
(*                                                                         *)
(* One action per atomic section: the body of a lock, one Event.set or     *)
(* clear, one sample of a sensor.  A deadline is a nondeterministic        *)
(* choice: a loop that waits until one may end by either outcome.          *)
(***************************************************************************)
EXTENDS Naturals, Sequences

CONSTANTS Route,        \* the stages of a cycle, in order
          Cycles,       \* how many times run() goes round its stages
          MaxOps,       \* bound: operations the control socket receives
          Hackathon,    \* PatrolConfig.hackathon_runtime
          StartPaused   \* run_patrol --start-paused: pause() before run()

ForwardStages == {"FORWARD_OUT", "FORWARD_RETURN", "FORWARD_HOME"}
TurnStages == {"TURN_BACK", "TURN_HOME"}

ASSUME RouteAssumption ==
    Route \in Seq(ForwardStages \cup TurnStages) /\ Route # <<>>
ASSUME CyclesAssumption == Cycles \in Nat \ {0}
ASSUME MaxOpsAssumption == MaxOps \in Nat
ASSUME ModeAssumption == Hackathon \in BOOLEAN /\ StartPaused \in BOOLEAN

VARIABLES pc,          \* where each thread is
          ret,         \* where each procedure returns to
          paused, requested, acked, stopped, recovering, error,
          state,       \* PatrolController.state, the stages' names as one
          stage, cycle,        \* run(): position in the list of stages
          moving,      \* was_moving, local to _run_forward
          frame,       \* the recovery the runner is in: of a source or a transport
          cmd,         \* the command last handed to the locomotion adapter
          ops,         \* how many control operations have begun
          owner,       \* whose confirmed pause is in force
          late         \* moves sent since a pause request began to wait

flags == <<paused, requested, acked, stopped, recovering, error>>
route == <<stage, cycle>>
local == <<moving, frame>>
serve == <<ops, owner>>
vars  == <<pc, ret, flags, state, route, local, cmd, serve, late>>

Threads == {"runner", "control"}
Ops == {"pause", "resume", "reaction_ready", "stop"}

\* The runner is in _run_forward rather than in _run_turn.
GoingForward == Route[stage] \in ForwardStages

RunnerLabels == {"enter", "check", "hold", "begin", "loop", "odom", "imu", "judge",
                 "look", "lidar", "blockStop", "blockSet", "blocked", "blockedFresh",
                 "blockedAgain", "blockClear", "decide", "move", "halt", "turnStop",
                 "imuEnd", "stageStop", "next", "recStop", "recSet", "recWait",
                 "recClear", "recCheck", "unwind", "finalStop", "finalFlags", "done"}
ControlLabels == {"idle", "reqLock", "reqRead", "reqWait", "reqStatus", "freshCheck",
                  "fresh", "resumeLock", "resumeClear", "stopSet", "stopPause",
                  "stopSend", "stopState"}
SharedLabels == {"actLock", "actHalt", "actAck", "record", "recordStop"}
Labels == RunnerLabels \cup ControlLabels \cup SharedLabels

\* The labels each procedure can return to: _activate_pause of either thread, the
\* checkpoint, the two kinds of recovery, _recover_lidar_guard and the freshness
\* barrier.  A procedure that is not running holds the one named in NoFrame.
Returns == [runner     |-> {"hold", "imu", "judge", "stageStop", "recClear"},
            control    |-> {"reqWait"},
            checkpoint |-> {"begin", "odom", "imu", "next"},
            source     |-> {"imu", "judge", "stageStop", "recClear"},
            transport  |-> {"imu", "judge", "stageStop"},
            lidar      |-> {"look", "hold", "blocked"},
            fresh      |-> {"resumeLock", "idle"}]
NoFrame == [runner |-> "hold", control |-> "reqWait", checkpoint |-> "begin",
            source |-> "imu", transport |-> "imu", lidar |-> "look", fresh |-> "idle"]
Procs == {"runner", "control", "checkpoint", "source", "transport", "lidar", "fresh"}

Goto(t, label) == pc' = [pc EXCEPT ![t] = label]

\* A return from procedure p of thread t, whose frame is gone.
Return(t, p) == Goto(t, ret[p]) /\ ret' = [ret EXCEPT ![p] = NoFrame[p]]

At(t, label) == pc[t] = label
Runner(label) == At("runner", label)
Control(label) == At("control", label)

\* run_patrol.main: the controller is built, pause() is called before run()
\* when --start-paused is given, and the socket is served from then on.
Init ==
    /\ pc = [runner |-> "enter", control |-> "idle"]
    /\ ret = NoFrame
    /\ paused = StartPaused /\ requested = StartPaused /\ acked = StartPaused
    /\ stopped = FALSE /\ recovering = FALSE /\ error = FALSE
    /\ state = IF StartPaused THEN "PAUSED" ELSE "STOPPED"
    /\ stage = 1 /\ cycle = 1
    /\ moving = FALSE /\ frame = "source"
    /\ cmd = "STOP"
    /\ ops = 0
    /\ owner = IF StartPaused THEN "operator" ELSE "nobody"
    /\ late = 0

-----------------------------------------------------------------------------
(* Shared procedures: _activate_pause and _record_failure. *)

\* A call of _activate_pause by thread t that continues at label back.
CallActivate(t, back) ==
    /\ Goto(t, "actLock")
    /\ ret' = [ret EXCEPT ![t] = back]

\* _activate_pause, the section under _control_lock: already paused returns at
\* once, without a stop and without an acknowledgement.
ActivateLock(t) ==
    /\ At(t, "actLock")
    /\ \/ /\ paused
          /\ Return(t, t)
          /\ UNCHANGED <<paused, state>>
       \/ /\ ~paused
          /\ paused' = TRUE
          /\ state' = "PAUSED"
          /\ Goto(t, "actHalt")
          /\ UNCHANGED ret
    /\ UNCHANGED <<requested, acked, stopped, recovering, error, route, local,
                   cmd, serve, late>>

ActivateWithoutStop(t) ==
    /\ At(t, "actHalt")
    /\ Goto(t, "actAck")
    /\ UNCHANGED <<ret, flags, state, route, local, cmd, serve, late>>

ActivateHalt(t) ==
    /\ At(t, "actHalt")
    /\ cmd' = "STOP"
    /\ Goto(t, "actAck")
    /\ UNCHANGED <<ret, flags, state, route, local, serve, late>>

ActivateAck(t) ==
    /\ At(t, "actAck")
    /\ acked' = TRUE
    /\ Return(t, t)
    /\ UNCHANGED <<paused, requested, stopped, recovering, error, state, route,
                   local, cmd, serve, late>>

\* _record_failure: the error under the lock, then the stop flag, then the
\* acknowledgement that frees a waiting request.
RecordError(t) ==
    /\ At(t, "record")
    /\ error' = TRUE
    /\ Goto(t, "recordStop")
    /\ UNCHANGED <<ret, paused, requested, acked, stopped, recovering, state, route,
                   local, cmd, serve, late>>

RecordStop(t) ==
    /\ At(t, "recordStop")
    /\ stopped' = TRUE
    /\ acked' = TRUE
    /\ Goto(t, IF t = "runner" THEN "finalStop" ELSE "stopSet")
    /\ UNCHANGED <<ret, paused, requested, recovering, error, state, route, local,
                   cmd, serve, late>>

Shared(t) == \/ ActivateLock(t) \/ ActivateHalt(t) \/ ActivateAck(t)
             \/ RecordError(t) \/ RecordStop(t)

-----------------------------------------------------------------------------
(* The runner: run, _run_forward, _run_turn and what they call. *)

\* An exception leaves every enclosing frame; the recoveries' finally clauses
\* clear the recovering flag on the way (Unwind).
Raise == Goto("runner", "unwind")

\* A step of the runner that touches no flag and sends nothing.
Quiet == UNCHANGED <<flags, state, route, cmd, serve, late>>

SendStop == cmd' = "STOP"

\* The first lines of _run_forward and _run_turn.
EnterStage ==
    /\ Runner("enter")
    /\ state' = "STAGE"
    /\ Goto("runner", "check")
    /\ ret' = [ret EXCEPT !["checkpoint"] = "begin"]
    /\ moving' = FALSE
    /\ UNCHANGED <<flags, route, frame, cmd, serve, late>>

CheckpointIgnoresRequest ==
    /\ Runner("check")
    /\ Goto("runner", "hold")
    /\ UNCHANGED ret /\ Quiet /\ UNCHANGED local

\* _checkpoint_reaction_pause: a requested pause that is not active is activated.
Checkpoint ==
    /\ Runner("check")
    /\ IF requested /\ ~paused
       THEN CallActivate("runner", "hold")
       ELSE Goto("runner", "hold") /\ UNCHANGED ret
    /\ Quiet /\ UNCHANGED local

\* The loop of _checkpoint_reaction_pause: held while paused, left by a resume,
\* failed by a stop, and the front guard supervised meanwhile.
Hold ==
    /\ Runner("hold")
    /\ \/ ~paused /\ Return("runner", "checkpoint")
       \/ /\ paused /\ stopped
          /\ Raise
          /\ UNCHANGED ret
       \/ /\ paused /\ ~stopped
          /\ Goto("runner", "lidar")
          /\ ret' = [ret EXCEPT !["lidar"] = "hold"]
    /\ UNCHANGED local
    /\ UNCHANGED <<flags, state, route, serve, late>>
    /\ IF paused /\ ~stopped THEN SendStop ELSE UNCHANGED cmd

\* _wait_for_odom and _wait_for_imu before the first move of a stage: two
\* seconds, with no look at the stop flag.
Begin ==
    /\ Runner("begin")
    /\ \/ Goto("runner", "loop") /\ UNCHANGED cmd
       \/ Raise /\ SendStop
    /\ UNCHANGED <<ret, flags, state, route, local, serve, late>>

\* The head of the loop.  A turn whose angle is reached leaves it here.
Loop ==
    /\ Runner("loop")
    /\ \/ /\ ~GoingForward
          /\ Goto("runner", "turnStop")
          /\ UNCHANGED ret
       \/ /\ stopped
          /\ Raise
          /\ UNCHANGED ret
       \/ /\ ~stopped
          /\ Goto("runner", "check")
          /\ ret' = [ret EXCEPT !["checkpoint"] = IF GoingForward THEN "odom"
                                                                     ELSE "imu"]
    /\ Quiet /\ UNCHANGED local

\* Where a sample taken at label leads once it is good.
AfterSample(label) == CASE label = "odom" -> "imu"
                        [] label = "imu" -> "judge"
                        [] OTHER -> "stageStop"

\* _require_odom and _require_imu: a good sample, a stale source, or a stale
\* transport.  Outside the hackathon profile a stale IMU source is final.
Sample(label) ==
    /\ Runner(label)
    /\ \/ Goto("runner", AfterSample(label)) /\ UNCHANGED <<ret, frame, cmd>>
       \/ /\ label # "odom" /\ ~Hackathon
          /\ Raise /\ SendStop /\ UNCHANGED <<ret, frame>>
       \/ \E f \in {"source", "transport"} :
            /\ f = "source" => label = "odom" \/ Hackathon
            /\ frame' = f
            /\ ret' = [ret EXCEPT ![f] = AfterSample(label)]
            /\ Goto("runner", "recStop")
            /\ UNCHANGED cmd
    /\ UNCHANGED <<flags, state, route, moving, serve, late>>

\* The checks on the samples (jump, yaw jump, lateral drift) fail the stage; a
\* forward stage whose distance is reached ends; otherwise the guard is read.
Judge ==
    /\ Runner("judge")
    /\ \/ Raise /\ SendStop
       \/ GoingForward /\ Goto("runner", "stageStop") /\ SendStop
       \/ Goto("runner", "look") /\ UNCHANGED cmd
    /\ UNCHANGED <<ret, flags, state, route, local, serve, late>>

\* What the loop does with a reading of the guard that is not STALE: BLOCKED is
\* final, or recovered in the hackathon profile; a turn asks to move whatever else
\* is read, and a forward stage only when CLEAR.
OnReading(g) ==
    IF g # "BLOCKED"
    THEN /\ Goto("runner", IF g = "CLEAR" \/ ~GoingForward THEN "decide" ELSE "halt")
         /\ UNCHANGED cmd
    ELSE IF Hackathon THEN Goto("runner", "blockStop") /\ UNCHANGED cmd
                      ELSE Raise /\ SendStop

\* One reading of the LiDAR guard.  STALE enters _recover_lidar_guard, whose first
\* act is a stop.
Look ==
    /\ Runner("look")
    /\ \/ /\ \E g \in {"CLEAR", "CONFIRMING", "BLOCKED"} : OnReading(g)
          /\ UNCHANGED ret
       \/ /\ Goto("runner", "lidar") /\ SendStop
          /\ ret' = [ret EXCEPT !["lidar"] = "look"]
    /\ UNCHANGED <<flags, state, route, local, serve, late>>

\* _recover_lidar_guard after its stop: a reading that is not stale, the stop
\* flag, or the two-second deadline.  Called from the loop, its caller goes on
\* with that reading.
Lidar ==
    /\ Runner("lidar")
    /\ \/ /\ ~stopped /\ ret["lidar"] = "look"
          /\ \E g \in {"CLEAR", "CONFIRMING", "BLOCKED"} : OnReading(g)
          /\ UNCHANGED ret
       \/ /\ ~stopped /\ ret["lidar"] # "look"
          /\ Return("runner", "lidar")
          /\ UNCHANGED cmd
       \/ /\ stopped
          /\ Raise /\ UNCHANGED <<ret, cmd>>
       \/ Raise /\ SendStop /\ UNCHANGED ret
    /\ UNCHANGED <<flags, state, route, local, serve, late>>

\* The last condition before a move.  A forward stage looks at the pause flag; a
\* turn has lasted too long, or asks to move.
Decide ==
    /\ Runner("decide")
    /\ \/ /\ ~GoingForward
          /\ \/ Goto("runner", "move") /\ UNCHANGED cmd
             \/ Raise /\ SendStop
          /\ UNCHANGED state
       \/ /\ GoingForward /\ ~paused
          /\ state' = "STAGE"
          /\ Goto("runner", "move")
          /\ UNCHANGED cmd
       \/ /\ GoingForward /\ paused
          /\ Goto("runner", "halt")
          /\ UNCHANGED <<state, cmd>>
    /\ UNCHANGED <<ret, flags, route, local, serve, late>>

SendMoveWhilePaused ==
    /\ Runner("move")
    /\ IF stopped \/ recovering
       THEN moving' = FALSE /\ UNCHANGED cmd
       ELSE moving' = TRUE /\ cmd' = "MOVE"
    /\ Goto("runner", "loop")
    /\ UNCHANGED <<ret, flags, state, route, frame, serve, late>>

SendMoveWhileStopped ==
    /\ Runner("move")
    /\ IF paused \/ recovering
       THEN moving' = FALSE /\ UNCHANGED cmd
       ELSE moving' = TRUE /\ cmd' = "MOVE"
    /\ Goto("runner", "loop")
    /\ UNCHANGED <<ret, flags, state, route, frame, serve, late>>

\* _send_move, under _motion_lock.
SendMove ==
    /\ Runner("move")
    /\ IF paused \/ stopped \/ recovering
       THEN moving' = FALSE /\ UNCHANGED <<cmd, late>>
       ELSE /\ moving' = TRUE
            /\ cmd' = "MOVE"
            /\ late' = IF Control("reqWait") /\ late < 2 THEN late + 1 ELSE late
    /\ Goto("runner", "loop")
    /\ UNCHANGED <<ret, flags, state, route, frame, serve>>

\* The other branch of _run_forward: stop once when it was moving.
Halt ==
    /\ Runner("halt")
    /\ cmd' = IF moving THEN "STOP" ELSE cmd
    /\ moving' = FALSE
    /\ state' = IF paused THEN "PAUSED" ELSE state
    /\ Goto("runner", "loop")
    /\ UNCHANGED <<ret, flags, route, frame, serve, late>>

\* _run_turn after its loop: a stop, half a second, one more IMU sample.
TurnStop ==
    /\ Runner("turnStop")
    /\ SendStop
    /\ Goto("runner", "imuEnd")
    /\ UNCHANGED <<ret, flags, state, route, local, serve, late>>

\* run(): a stop after each stage, a checkpoint, and the next stage.
StageStop ==
    /\ Runner("stageStop")
    /\ SendStop
    /\ Goto("runner", "check")
    /\ ret' = [ret EXCEPT !["checkpoint"] = "next"]
    /\ UNCHANGED <<flags, state, route, local, serve, late>>

NextStage ==
    /\ Runner("next")
    /\ IF stage < Len(Route)
       THEN stage' = stage + 1 /\ UNCHANGED cycle /\ Goto("runner", "enter")
       ELSE IF cycle < Cycles
            THEN stage' = 1 /\ cycle' = cycle + 1 /\ Goto("runner", "enter")
            ELSE Goto("runner", "finalStop") /\ UNCHANGED route
    /\ UNCHANGED <<ret, flags, state, local, cmd, serve, late>>

(* The recoveries of telemetry: _recover_odom_source, _recover_imu_source and    *)
(* _recover_transport, which may enter one of the other two.                     *)

RecoverWithoutStop ==
    /\ Runner("recStop")
    /\ Goto("runner", "recSet")
    /\ UNCHANGED <<ret, flags, state, route, local, cmd, serve, late>>

RecoverStop ==
    /\ Runner("recStop")
    /\ SendStop
    /\ Goto("runner", "recSet")
    /\ UNCHANGED <<ret, flags, state, route, local, serve, late>>

RecoverSet ==
    /\ Runner("recSet")
    /\ recovering' = TRUE
    /\ Goto("runner", "recWait")
    /\ UNCHANGED <<ret, paused, requested, acked, stopped, error, state, route, local,
                   cmd, serve, late>>

\* A sample good again; in a transport recovery a source found stale, which is
\* recovered by the inner procedure; the stop flag; the deadline.
RecoverWait ==
    /\ Runner("recWait")
    /\ \/ /\ ~stopped
          /\ Goto("runner", "recClear")
          /\ UNCHANGED <<ret, frame, cmd>>
       \/ /\ ~stopped /\ frame = "transport"
          /\ ret["transport"] = "imu" \/ Hackathon
          /\ frame' = "source"
          /\ ret' = [ret EXCEPT !["source"] = "recClear"]
          /\ Goto("runner", "recStop")
          /\ UNCHANGED cmd
       \/ /\ stopped
          /\ Raise /\ UNCHANGED <<ret, frame, cmd>>
    /\ UNCHANGED <<flags, state, route, moving, serve, late>>

RecoverDeadline ==
    /\ Runner("recWait")
    /\ Raise /\ SendStop
    /\ UNCHANGED <<ret, flags, state, route, local, serve, late>>

\* The finally clause, first half: the flag is cleared ...
RecoverClear ==
    /\ Runner("recClear")
    /\ recovering' = FALSE
    /\ Goto("runner", "recCheck")
    /\ UNCHANGED <<ret, paused, requested, acked, stopped, error, state, route, local,
                   cmd, serve, late>>

\* ... and then a pause requested meanwhile is activated.
RecoverCheck ==
    /\ Runner("recCheck")
    /\ LET back == ret[frame] IN
        /\ IF requested /\ ~paused
           THEN CallActivate("runner", back)
           ELSE Goto("runner", back) /\ UNCHANGED ret
        /\ frame' = IF back = "recClear" THEN "transport" ELSE frame
    /\ UNCHANGED moving
    /\ Quiet

\* _recover_lidar_blocked (hackathon profile): stop, flag, and wait for CLEAR with
\* fresh telemetry and CLEAR again, or for the ten-second deadline.
BlockedStop ==
    /\ Runner("blockStop")
    /\ SendStop
    /\ Goto("runner", "blockSet")
    /\ UNCHANGED <<ret, flags, state, route, local, serve, late>>

BlockedSet ==
    /\ Runner("blockSet")
    /\ recovering' = TRUE
    /\ Goto("runner", "blocked")
    /\ UNCHANGED <<ret, paused, requested, acked, stopped, error, state, route, local,
                   cmd, serve, late>>

Blocked ==
    /\ Runner("blocked")
    /\ \/ /\ stopped
          /\ Raise /\ UNCHANGED <<ret, cmd>>
       \/ /\ ~stopped
          /\ Goto("runner", "blockedFresh") /\ UNCHANGED <<ret, cmd>>
       \/ /\ ~stopped
          /\ Goto("runner", "lidar") /\ SendStop
          /\ ret' = [ret EXCEPT !["lidar"] = "blocked"]
    /\ UNCHANGED <<flags, state, route, local, serve, late>>

BlockedDeadline ==
    /\ Runner("blocked")
    /\ Raise /\ SendStop
    /\ UNCHANGED <<ret, flags, state, route, local, serve, late>>

BlockedFresh ==
    /\ Runner("blockedFresh")
    /\ \/ Goto("runner", "blockedAgain") /\ UNCHANGED cmd
       \/ Raise /\ SendStop
    /\ UNCHANGED <<ret, flags, state, route, local, serve, late>>

BlockedAgain ==
    /\ Runner("blockedAgain")
    /\ \/ stopped /\ Raise
       \/ ~stopped /\ Goto("runner", "blockClear")
       \/ ~stopped /\ Goto("runner", "blocked")
    /\ UNCHANGED ret
    /\ Quiet /\ UNCHANGED local

\* Its finally clause clears the flag and looks at no pending pause.
BlockedClear ==
    /\ Runner("blockClear")
    /\ recovering' = FALSE
    /\ Goto("runner", "decide")
    /\ UNCHANGED <<ret, paused, requested, acked, stopped, error, state, route, local,
                   cmd, serve, late>>

-----------------------------------------------------------------------------
(* How a run ends. *)

\* The finally clauses an exception passes through.
Unwind ==
    /\ Runner("unwind")
    /\ recovering' = FALSE
    /\ Goto("runner", "record")
    /\ UNCHANGED <<ret, paused, requested, acked, stopped, error, state, route, local,
                   cmd, serve, late>>

\* The finally clause of run().
FinalStop ==
    /\ Runner("finalStop")
    /\ SendStop
    /\ Goto("runner", "finalFlags")
    /\ UNCHANGED <<ret, flags, state, route, local, serve, late>>

FinalFlags ==
    /\ Runner("finalFlags")
    /\ stopped' = TRUE /\ acked' = TRUE
    /\ state' = "STOPPED"
    /\ Goto("runner", "done")
    /\ UNCHANGED <<ret, paused, requested, recovering, error, route, local, cmd, serve,
                   late>>

Ending == {"unwind", "record", "recordStop", "finalStop", "finalFlags", "done"}

\* The operator's Ctrl-C in the main thread: not an Exception, so no failure is
\* recorded, but every finally clause runs.
Interrupt ==
    /\ pc["runner"] \notin Ending
    /\ recovering' = FALSE
    /\ Goto("runner", "finalStop")
    /\ UNCHANGED <<ret, paused, requested, acked, stopped, error, state, route, local,
                   cmd, serve, late>>

-----------------------------------------------------------------------------
(* The control thread: PatrolControlServer._dispatch, one request at a time. *)

Reply == Goto("control", "idle")

\* A request arrives.  LocalPatrolController resumes, and asks whether it may
\* react, only under a pause it owns; the launcher resumes its own once.
Receive(o) ==
    /\ Control("idle")
    /\ ops < MaxOps
    /\ o = "pause" => owner = "nobody"
    /\ o = "resume" => owner # "nobody"
    /\ o = "reaction_ready" => owner = "reaction"
    /\ ops' = ops + 1
    /\ Goto("control", CASE o = "pause" -> "reqLock"
                          [] o = "stop" -> "stopSet"
                          [] OTHER -> "freshCheck")
    /\ ret' = [ret EXCEPT !["fresh"] = IF o = "resume" THEN "resumeLock" ELSE "idle"]
    /\ UNCHANGED <<flags, state, route, local, cmd, owner, late>>

\* request_reaction_pause, its section under the lock.
RequestLock ==
    /\ Control("reqLock")
    /\ IF stopped \/ error
       THEN Reply /\ UNCHANGED <<acked, requested>>
       ELSE Goto("control", "reqRead") /\ acked' = FALSE /\ requested' = TRUE
    /\ UNCHANGED <<ret, paused, stopped, recovering, error, state, route, local, cmd,
                   serve, late>>

\* A recovering runner activates the pause itself, later.
RequestRead ==
    /\ Control("reqRead")
    /\ IF recovering THEN Goto("control", "reqWait") /\ UNCHANGED ret
                     ELSE CallActivate("control", "reqWait")
    /\ late' = 0
    /\ UNCHANGED <<flags, state, route, local, cmd, serve>>

\* The wait for the acknowledgement; without one in time the patrol is stopped.
RequestWait ==
    /\ Control("reqWait")
    /\ Goto("control", IF acked THEN "reqStatus" ELSE "stopSet")
    /\ late' = 0
    /\ UNCHANGED <<ret, flags, state, route, local, cmd, serve>>

\* control_status at the end of the request.  The requester owns the pause once
\* the reply reaches it.
RequestStatus ==
    /\ Control("reqStatus")
    /\ \/ /\ ~error /\ ~stopped /\ state # "STOPPED" /\ paused
          /\ owner' = "reaction"
       \/ UNCHANGED owner
    /\ Reply
    /\ UNCHANGED <<ret, flags, state, route, local, cmd, ops, late>>

\* resume and verify_reaction_ready begin alike.
FreshCheck ==
    /\ Control("freshCheck")
    /\ Goto("control", IF stopped \/ error \/ ~paused THEN "idle" ELSE "fresh")
    /\ UNCHANGED <<ret, flags, state, route, local, cmd, serve, late>>

\* _wait_for_fresh_telemetry: fresh, or a stop, the failure and stop().
Fresh ==
    /\ Control("fresh")
    /\ \/ /\ Return("control", "fresh")
          /\ UNCHANGED cmd
       \/ /\ Goto("control", "record")
          /\ SendStop
          /\ UNCHANGED ret
    /\ UNCHANGED <<flags, state, route, local, serve, late>>

ResumeLock ==
    /\ Control("resumeLock")
    /\ IF stopped \/ error \/ ~paused
       THEN Reply /\ UNCHANGED <<requested, acked>>
       ELSE Goto("control", "resumeClear") /\ requested' = FALSE /\ acked' = FALSE
    /\ UNCHANGED <<ret, paused, stopped, recovering, error, state, route, local, cmd,
                   serve, late>>

\* The pause flag is cleared after the lock is released.
ResumeClear ==
    /\ Control("resumeClear")
    /\ paused' = FALSE
    /\ owner' = "nobody"
    /\ Reply
    /\ UNCHANGED <<ret, requested, acked, stopped, recovering, error, state, route,
                   local, cmd, ops, late>>

\* stop().
StopSet ==
    /\ Control("stopSet")
    /\ stopped' = TRUE
    /\ Goto("control", "stopPause")
    /\ UNCHANGED <<ret, paused, requested, acked, recovering, error, state, route,
                   local, cmd, serve, late>>

StopPause ==
    /\ Control("stopPause")
    /\ paused' = TRUE /\ acked' = TRUE
    /\ Goto("control", "stopSend")
    /\ UNCHANGED <<ret, requested, stopped, recovering, error, state, route, local,
                   cmd, serve, late>>

StopSend ==
    /\ Control("stopSend")
    /\ SendStop
    /\ Goto("control", "stopState")
    /\ UNCHANGED <<ret, flags, state, route, local, serve, late>>

StopState ==
    /\ Control("stopState")
    /\ state' = "STOPPED"
    /\ Reply
    /\ UNCHANGED <<ret, flags, route, local, cmd, serve, late>>

-----------------------------------------------------------------------------
Deadlines == RecoverDeadline \/ BlockedDeadline

RunnerNext ==
    \/ EnterStage \/ Checkpoint \/ Hold \/ Begin \/ Loop
    \/ Sample("odom") \/ Sample("imu") \/ Sample("imuEnd")
    \/ Judge \/ Look \/ Lidar \/ Decide \/ SendMove \/ Halt
    \/ TurnStop \/ StageStop \/ NextStage
    \/ RecoverStop \/ RecoverSet \/ RecoverWait \/ RecoverClear \/ RecoverCheck
    \/ BlockedStop \/ BlockedSet \/ Blocked \/ BlockedFresh \/ BlockedAgain
    \/ BlockedClear \/ Deadlines
    \/ Unwind \/ FinalStop \/ FinalFlags \/ Shared("runner")

Serve ==
    \/ RequestLock \/ RequestRead \/ RequestWait \/ RequestStatus
    \/ FreshCheck \/ Fresh \/ ResumeLock \/ ResumeClear
    \/ StopSet \/ StopPause \/ StopSend \/ StopState \/ Shared("control")

Next == RunnerNext \/ Serve \/ Interrupt \/ (\E o \in Ops : Receive(o))

Spec == Init /\ [][Next]_vars

\* The runner's thread is scheduled, and a wait that keeps looping meets its
\* deadline.  Nothing is asked of the control thread: it may take for ever over a
\* request, and nobody is obliged to send one or to press Ctrl-C.
FairSpec == Spec /\ WF_vars(RunnerNext) /\ SF_vars(Deadlines)

-----------------------------------------------------------------------------
(* What must hold. *)

ControlStateOK == pc \in [Threads -> Labels]
FramesOK == ret \in [Procs -> Labels] /\ \A p \in Procs : ret[p] \in Returns[p]
FlagsOK ==
    /\ paused \in BOOLEAN /\ requested \in BOOLEAN /\ acked \in BOOLEAN
    /\ stopped \in BOOLEAN /\ recovering \in BOOLEAN /\ error \in BOOLEAN
DataOK ==
    /\ state \in {"STAGE", "PAUSED", "STOPPED"}
    /\ stage \in 1..Len(Route) /\ cycle \in 1..Cycles
    /\ moving \in BOOLEAN /\ frame \in {"source", "transport"}
    /\ cmd \in {"MOVE", "STOP"}
    /\ ops \in 0..MaxOps /\ late \in 0..2
    /\ owner \in {"nobody", "reaction", "operator"}

\* Every variable has its type, and every frame returns to a label of its caller.
TypeOK == ControlStateOK /\ FramesOK /\ FlagsOK /\ DataOK

\* The promise to the reaction process (PauseService), which this module keeps.
Service == INSTANCE PauseService
           WITH mode <- IF Runner("done") THEN "over"
                        ELSE IF owner # "nobody" THEN "held" ELSE "free"
ServiceSpec == Service!Spec

\* A pause confirmed to its owner is real and lasts: the pause flag is set and the
\* last command of the robot is a stop, until the owner's resume takes effect
\* (request_reaction_pause acknowledges after the stop is sent, _send_move looks
\* at the flag under the motion lock).  It is what lets the reaction move the arms.
ConfirmedPauseHolds == owner # "nobody" => paused /\ cmd = "STOP"

\* While the runner waits for telemetry or for an obstacle to go, the robot has
\* been told to stop, and whatever the control thread does meanwhile cannot make
\* it move (the recovering flag, set after the stop, gates _send_move).
RecoveryStandsStill == recovering => cmd = "STOP"

\* Whoever sets the stop flag, a move it finds in force is soon countermanded: the
\* last command is a move only while a thread is on its way to send the stop.
StopIsFollowed ==
    stopped /\ cmd = "MOVE" =>
        \/ pc["control"] \in {"stopPause", "stopSend"}
        \/ pc["runner"] = "finalStop"

\* A run that is over left nothing in motion and nothing looking alive.
RunEndsStopped ==
    pc["runner"] = "done" => stopped /\ ~recovering /\ cmd = "STOP"

\* While a pause request waits for the runner to activate it, the robot is not
\* driven on: a recovery that ends activates the pause before the next command.
\* Only the obstacle recovery of the hackathon profile lets one move through,
\* because its finally clause does not look for a pending pause.
WaitingPauseIsPrompt == late <= IF Hackathon THEN 1 ELSE 0

\* After stop() has returned, or a failure is recorded, no move is ever sent.
NoMoveAfterStop ==
    [][stopped \/ error => ~(Runner("move") /\ Runner("loop")' /\ moving')]_vars

\* A request is not forgotten, even by a runner that was recovering when it came
\* and even if the requester itself never gets to activate the pause.
PauseIsHonoured == requested /\ ~stopped ~> paused \/ stopped \/ ~requested

\* A stop ends the run, wherever the runner is.
StopEndsRun == stopped ~> Runner("done")

\* A resume that succeeded is not undone: a pause that follows it was asked for.
\* docs/G1_INTEGRATED_DEMO_20260926.md:15 promises the patrol resumes its leg.
ResumeSticks == [][paused' /\ ~paused => requested \/ stopped]_vars

\* A request of the socket is honoured: promptly when it waits for the runner, at last
\* in any case, and a stop of the patrol ends its run.
RequestsAreHonoured == []WaitingPauseIsPrompt /\ PauseIsHonoured /\ StopEndsRun

==============================================================================
