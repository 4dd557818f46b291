------------------------------- MODULE MujocoRobot -------------------------------
(* The robot of the simulation (MujocoRobotAdapter).  The reaction's thread puts *)
(* motions into a queue and waits for the event "idle"; a worker plays them one  *)
(* after the other, frame by frame, until the window of the viewer is closed, a  *)
(* frame fails or the adapter is closed.                                         *)
EXTENDS Naturals, Sequences

CONSTANT MaxMotions    \* motions asked for in a run

VARIABLES
  worker,     \* "none", "looks" (stand pose), "plays", "done" (a motion just ended),
              \* "leaves" (to its finally) or "gone"
  commands,   \* the queue: motions 1..MaxMotions, and 0 for the None of close
  playing,    \* the worker's motion
  stopSet,    \* _stop
  idle,       \* _idle
  failed,     \* _error
  handle,     \* _worker is not None: initialized and not closed
  runtime,    \* _model and _data are there
  window,     \* the viewer's window is open
  caller,     \* the reaction's thread: "free", "checked" (play_motion looked at _stop) or
              \* "waits"
  closing,     \* close: "none", "joins" or "over"
  ordered,      \* motions asked for
  played,     \* motions played to their end
  answered    \* the last motion that was reported complete while the robot still ran

mujocoVars == << worker, commands, playing, stopSet, idle, failed, handle, runtime, window,
                 caller, closing, ordered, played, answered >>
bodyVars == << worker, playing, failed >>
askerVars == << caller, ordered, answered >>

MujocoInit ==
  /\ worker = "none" /\ commands = << >> /\ playing = 0 /\ stopSet = FALSE /\ idle = TRUE
  /\ failed = FALSE /\ handle = FALSE /\ runtime = FALSE /\ window = FALSE
  /\ caller = "free" /\ closing = "none" /\ ordered = 0 /\ played = {} /\ answered = 0

\* initialize; a window that cannot be opened clears the runtime again.
Initialize ==
  /\ ~handle /\ closing = "none" /\ worker = "none"
  /\ handle' = TRUE /\ runtime' = TRUE /\ worker' = "looks" /\ window' = TRUE
  /\ UNCHANGED << commands, playing, stopSet, idle, failed, askerVars, closing, played >>

-------------------------------------------------------------------------------
(* The reaction's thread. *)

\* play_motion ignores the motion once the robot stopped.
LookAtStop ==
  /\ caller = "free" /\ handle /\ ordered < MaxMotions /\ ~stopSet
  /\ caller' = "checked"
  /\ UNCHANGED << bodyVars, commands, stopSet, idle, handle, runtime, window, closing,
                  ordered, played, answered >>

\* Under _queue_lock; the robot may have stopped in between.
PutMotion ==
  /\ caller = "checked"
  /\ caller' = "waits" /\ ordered' = ordered + 1 /\ idle' = FALSE
  /\ commands' = Append(commands, ordered + 1)
  /\ UNCHANGED << bodyVars, stopSet, handle, runtime, window, closing, played, answered >>

\* wait_for_idle: ready (an error of the worker is raised), or the timeout is over.
WaitEnds ==
  /\ caller = "waits" /\ caller' = "free"
  /\ answered' = (IF idle /\ ~failed /\ ~stopSet THEN ordered ELSE answered)
  /\ UNCHANGED << bodyVars, commands, stopSet, idle, handle, runtime, window, closing,
                  ordered, played >>

\* close: the worker is told twice, by the event and by a command.
Close ==
  /\ handle /\ closing = "none"
  /\ handle' = FALSE /\ stopSet' = TRUE /\ commands' = Append(commands, 0) /\ closing' = "joins"
  /\ UNCHANGED << bodyVars, idle, runtime, window, askerVars, played >>

\* The worker is gone, or three seconds are over: the runtime is taken from it.
CloseEnds ==
  /\ closing = "joins" /\ closing' = "over"
  /\ idle' = TRUE /\ runtime' = FALSE /\ window' = FALSE
  /\ UNCHANGED << bodyVars, commands, stopSet, handle, askerVars, played >>

-------------------------------------------------------------------------------
(* The worker. *)

\* The next command, when no motion is played; None ends the worker.
TakeCommand ==
  /\ worker = "looks" /\ ~stopSet /\ commands # << >>
  /\ commands' = Tail(commands)
  /\ IF Head(commands) = 0 THEN worker' = "leaves" /\ UNCHANGED playing
                           ELSE worker' = "plays" /\ playing' = Head(commands)
  /\ UNCHANGED << stopSet, idle, failed, handle, runtime, window, askerVars, closing, played >>

\* The motion's time is over and the stand pose is shown.
MotionEnds ==
  /\ worker = "plays" /\ runtime
  /\ worker' = "done" /\ played' = played \cup {playing} /\ playing' = 0
  /\ UNCHANGED << commands, stopSet, idle, failed, handle, runtime, window, askerVars, closing >>

\* Mutant: the queue is not looked at.
SayIdleAtOnce ==
  /\ worker = "done" /\ worker' = "looks" /\ idle' = TRUE
  /\ UNCHANGED << commands, playing, stopSet, failed, handle, runtime, window, askerVars,
                  closing, played >>

\* Under _queue_lock: idle only when nothing is queued.
SayIdle ==
  /\ worker = "done" /\ worker' = "looks" /\ idle' = (idle \/ commands = << >>)
  /\ UNCHANGED << commands, playing, stopSet, failed, handle, runtime, window, askerVars,
                  closing, played >>

\* A frame's end: the window is closed, or the event is set.
SeeEnd ==
  /\ worker \in {"looks", "plays"} /\ (~window \/ stopSet)
  /\ worker' = "leaves" /\ stopSet' = TRUE
  /\ UNCHANGED << commands, playing, idle, failed, handle, runtime, window, askerVars,
                  closing, played >>

\* A frame raises, as every frame does once close has taken the runtime.
FrameFails ==
  /\ worker \in {"looks", "plays"}
  /\ failed' = TRUE /\ stopSet' = TRUE /\ worker' = "leaves"
  /\ UNCHANGED << commands, playing, idle, handle, runtime, window, askerVars, closing, played >>

\* finally: whoever waits is let go.
WorkerLeaves ==
  /\ worker = "leaves" /\ worker' = "gone" /\ idle' = TRUE
  /\ UNCHANGED << commands, playing, stopSet, failed, handle, runtime, window, askerVars,
                  closing, played >>

\* The operator closes the window.
CloseWindow ==
  /\ window /\ window' = FALSE
  /\ UNCHANGED << bodyVars, commands, stopSet, idle, handle, runtime, askerVars, closing,
                  played >>

MujocoNext ==
  \/ Initialize \/ LookAtStop \/ PutMotion \/ WaitEnds \/ Close \/ CloseEnds \/ TakeCommand
  \/ MotionEnds \/ SayIdle \/ SeeEnd \/ FrameFails \/ WorkerLeaves \/ CloseWindow

MujocoSpec == MujocoInit /\ [][MujocoNext]_mujocoVars

-------------------------------------------------------------------------------
(* A reaction hears that its motion is complete only when it was played to its  *)
(* end, although the answer is about the whole queue: a motion asked for while   *)
(* the worker ends the one before is not reported by that one's end              *)
(* (MujocoRobotAdapter.wait_for_motion_complete, which drops the motion's name). *)
ReadyMeansPlayed == answered # 0 => answered \in played
=============================================================================
