# Verification of g1-bottle-reaction

TLA+ models of the control logic of this repository, TLC runs that check them on small
instances, and theorems that hold for every instance, checked by TLAPS.

The program makes a Unitree G1 robot patrol, react with its arms and its voice to what its
camera sees, and play a hide-and-seek game.  Its difficulty is not in any of its algorithms
but in its seams: two processes and a robot's PC that talk over sockets which lose and delay,
threads that share flags without a lock, timeouts that race the answers they wait for, and a
rule that runs through all of it: *the arms may move only beside a robot that stands still,
and what is uncertain must end in a stop.*

## 1. The system

There are two applications.

**A. Patrol with reactions** (`src/patrol`, `src/src/g1_bottle_reaction/game_vision`).

    camera loop --trigger--> reaction worker --pause/status/resume/stop--> control socket
    (dual.py)                (found_audio.py)        (control_ipc.py)          |
                             arm motion, voice                                 v
                                                                     PatrolController
    LidarGuard --UDP--> UdpRelayGuard -------------------------------> (runner thread)
    (robot's PC)                                                              |
                        LocomotionRelay <------------UDP--------- UdpLocomotionAdapter
                        (robot's PC, watchdog) --> StopMove / Move

**B. The bottle and stealth app** (`src/src/g1_bottle_reaction`): a camera thread and an audio
thread hand events to a reaction engine, whose worker moves and speaks; a navigation
coordinator pauses a patrol (mock or remote) around each batch of reactions.

| component | state | operations | what is hard | what makes it correct |
|---|---|---|---|---|
| `PatrolController` | stage, flags paused / requested / acked / stopped / recovering, first error, last command | run, run_turn_only, pause, request_reaction_pause, resume, stop, five recoveries | two threads, six flags, two locks | a confirmed pause is real; recoveries stand still; a stop is followed, and final |
| `PatrolControlServer` | one serving thread, backlog of 4 | dispatch of pause, resume, status, stop | head-of-line blocking; a late reply | the final stop is served |
| `LocalPatrolController`, `FoundReactionController` | ownership of the pause, failed latch, job, gates | trigger, react, complete, close | three threads, timeouts, no lock on the ownership | arms only beside a standing patrol; every reaction and pause ends |
| `UdpLocomotionAdapter`, relay | sequence number, moving, last valid command | command, stop, watchdog, restart | loss, reordering, restarts | a robot walks only on the last, fresh move; a stop arrives |
| `LidarGuard`, relay, `UdpRelayGuard` | debounce, age, last message | scan, snapshot, receive, state | three ages, a torn snapshot, datagrams overtaken | CLEAR is recent |
| `NavigationCoordinator` | pending count, expected reason, inhibition | start, pause, resume, stop, five callbacks | two locks, calls under one of them, a backend that lags | no outputs under a moving patrol; the automatic resume is earned |
| `RemoteNavigationAdapter` | latch, cached status, heartbeat thread | requests, reconnect, heartbeat, close | answers out of order; a loop that ends while it is restarted | faults are latched; one heartbeat while movement is allowed |
| `ReactionEngine`, `AppController` | queue, cooldown, closing flag, active jobs | handle, work, speak, close twice over | three threads and an executor, closing | one reaction at a time; every accepted one ends; quiet after close |
| `SpeechCache` (`AivisSpeechBackend`), `VoiceLine` (`G1SshAudioOutput`) | the directory of WAV files; requests and answers in two pipes | speak, synthesize, store, play; open, piece, stop | files outlive the program; answers carry no number | what is played is what was asked for |
| `G1RobotAdapter`, custom motion | arm owner, last motion, unconfirmed completion | play, frames of the arm_sdk thread, wait, request_shutdown, close | an RPC whose answer timed out | one master of the arms; rest and shutdown are real |
| `SshG1SafeActionAdapter` and its helper | failure latch, active process | notice, terminate, close; prepare, act, hold, release | either side may lose the other | a raised hand is released |
| `RemoteWanderController` | running, closed, a PID file on the robot | start, stop_and_wait, close | a given-up SSH call goes on | stands when it says so |
| `g1_game.py`, `run_integrated_demo.py` | children and their sessions | checks, start, watch, stop_group | interrupts and kills in between | one patrol; the pair ends together |
| `main.py` | what is open | modes, their openings and closings | a failure half-way, a late audio worker, a lost link | nothing stays open; only behind a failed link a patrol goes on |
| `StealthGameEngine`, trackers | suspicion, times since | one observation at a time | gaps, flicker, grace | found is earned; events are earned |
| `PersonWorker`, `AudioMonitor` | one slot; a bounded queue | submit, process, switch, stop | a switch with work in flight; a full queue at the stop | results are of now; the newest is kept; both end |
| camera chain (`dual.py`, helper, sender) | pipes, processes | open, relay, close | no message says stop | the camera is released |
| game view (sender, `TeleImager`, receiver) | the latest image per port | read, filter, publish, take, show | overwritten and repeated images | what is hidden stays hidden, and is not replayed |
| `FoundGate` | start of a detection, of an absence, cooldown | update, suspend, reset | stale and repeated results | triggers are earned |
| wander shadow | queue, last line | reduce, print, read, decide | ages added along the way | a move shown is fresh |
| `g1-slam-session.py` | attempt, result and lock files | record, start, save, relocate | a command dies in the middle | one request each, in order |

`PROJECT.json` lists all components, the unmodelled ones with the reason, and the hazards at
their lines.

## 2. How the models are made

* One action per atomic section of the code: a lock's body, one `Event` operation, one call
  over a socket, one read of shared state without a lock.  A thread's place in the code is its
  program counter; several methods on one thread share it.
* A timeout is a nondeterministic choice wherever the wait it bounds can be that long.  Where
  ages decide (watchdog, staleness, debounce, cooldown, confirmation times), time is counted
  in the unit named at the head of the module.
* Measurements (points, images, odometry, scores) are choices between the cases the code
  tells apart.
* Operators marked `Mutant:` are plausible bugs; they are not part of any specification, and
  `PROJECT.json` names for each property one of them that breaks it.
* Runs that expect a violation each check one sentence of the repository's own docs; section 5
  lists them, and further ones that can be reproduced by hand.
* `CHECK_DEADLOCK FALSE` appears where the system really may stop: a run that ends, a process
  that closes, or a bound on commands that is used up.  In particular the bounds on operator
  commands, datagrams, frames and scans all end in a legitimate rest.

## 3. Modules and runs

### PatrolController, PauseService, PatrolInvariant, MCPatrolController, PatrolControllerProofs

The runner (`run`, `run_turn_only`, `_checkpoint_reaction_pause`, `_hold_reaction_pause`, the
recoveries of odometry source, transport, telemetry and LiDAR, the `finally` clauses) and the
control thread (dispatch of the socket's four operations), with `_motion_lock` and the pause
condition, the six flags and the last command given to the locomotion adapter.  A deadline is
a choice.  `Route`, `Cycles`, `MaxOps` bound the run; `Hackathon` and `StartPaused` are the
command line's.  `PauseService` is the promise the reaction side relies on: between the
confirmation and the release of a pause no move is given, and after the end none ever is.

* `patrol`: the safety properties, the refinement of `PauseService` and the liveness properties
  for a route of a forward and a turning stage, started paused as the integrated launcher does,
  with three control operations and the hackathon recoveries.  Three operations allow resume,
  pause and a second resume or a stop against every point of the runner.  `FairSpec`: the runner
  is scheduled; a deadline that is continually due is met (`SF_vars(Deadlines)`); nobody has to
  send operations.
* `patrol_resume` (violation), see 5.

`RequestsAreHonoured`: a pause requested of a runner that waits is served promptly, one requested
at any time is acknowledged or overtaken in the end, and a stop ends the run.
`StopIsFollowed` and `RunEndsStopped` are proved (section 4) rather than checked by a run.

### ReactionInterlock, MCReactionInterlock, ReactionInterlockProofs

The reaction process beside a patrol that is what `PauseService` promises: camera loop, worker,
voice, completion thread, `close()`, and `LocalPatrolController` over the socket with its
backlog, timeouts and its one serving thread.  `Hackathon` is the profile, `AllowMiss` the
safe-return-miss policy.  One assumption on time is made: a whole motion does not fit between
two adjacent calls of `close()` (stated at `Moved`).

* `interlock`: both profiles in one run, `attended` chooses.  The normal one has two reactions, a
  patrol that may stop and a process that may close at any moment; safety (`InterlockInv`), that the
  patrol is resumed only on earned grounds (`ResumesAreEarned`), and that no pause, reaction or
  close lasts for ever (`InterlockEnds`).  The attended one (`H`, an instance with status polls and
  recoverable aborts) has one reaction and a backlog of two, so that it is full when three clients
  ask; what it can break is excepted in the properties by name.  Fairness:
  threads are scheduled, motions and voices end, the server serves while its thread lives,
  sockets time out.  The lock taken by the resume and by closing needs strong fairness: Python's
  lock makes no stronger promise than that a waiter who keeps trying gets it.
* `interlock_abort` (violation), see 5.

### NavigationCoordinator, NavigationCoordinatorProofs

Detectors, the engine's worker, an operator and a backend that may acknowledge a pause before
it is PAUSED (`SlowPause`), lose its connection and fail.  `_navigation_lock` is a variable:
adapter calls and a wait happen under it; bodies of `_lock` are atomic.

* `navigation` (3 reactions, 3 commands or faults; `FairSpec`: worker, queueing threads and
  commands under way continue): types, quiet outputs, accepted reactions end, and the patrol is
  not stranded.  Three reactions make a batch whose middle one fails, and one that joins it late.

### RemoteNavigation, MCLinks, LinksProofs

Application threads and heartbeat threads share one transport under `_request_lock`; two
actions per request, and one per section of `_lock`.  The run `links` has one caller, two
heartbeat threads (the ending one and its successor), three calls and a fault: enough for a
reconnect that meets the heartbeat at each of its steps and for an answer overtaken by a fault.
The lock has strong fairness.  `AdapterInv` collects what the latch, the shown fault and the
heartbeats promise, `LinkKeepsBeating` that a heartbeat goes on while movement is allowed.

### LocomotionRelay, MCLinks, LinksProofs

The adapter numbers its datagrams and sends STOP twice; the relay takes rising numbers only,
stops on what it cannot take, and a watchdog stops a robot without a fresh command.  The
network is a set: anything may be lost (bounded), late or repeated.  The SDK's client calls take
no time.  The run `links` runs this module or the previous one, which do not talk to each other
(`way` is chosen at the start): three commands (a move, a stop, and one more that may be overtaken),
one loss and two restarts of either side; `MaxRefusals = 0`: StopMove is carried out (see 5).

### LidarRelay, SensorProofs

The debounce of one direction (directions do not influence each other), the snapshot read in
two parts, datagrams that may be lost, late, repeated and overtaken, and the receiver, which
looks at no sequence number.  Time is counted in relay periods of 0.1 s.  The run `lidar` has two
datagrams under way, so that one overtakes another, with the shortest timeouts for which stale
gaps are shorter than the hold time; the theorems cover all others.

### ReactionEngine, ReactionEngineProofs

`handle`, `_decide`, `_accept`, `_enqueue`, the worker and the speech executor, the lifecycle
observer, and the two ways to close: draining (the stealth app) and cancelling (the viewer);
`viewer` is chosen in `Init` and never changes.  A join may give up on a thread that is busy,
which `gaveUp` records: what a thread does that `close()` no longer waits for is outside
`QuietAfterClose` and `EveryJobEnds`.  Time is counted in cooldowns.  `robot.request_shutdown` is
part of `Close`; a job refused because the engine is shutting down cannot be met by this
repository's callers, since the camera thread both handles and closes.  Left out: the diagnostic
`execute()`, `start_worker=False`, the encounter variants, the background motion of a custom
controller, `speech_delay`.

* `engine`: two inputs (frames or music starts; one frame can dispatch two events, so up to four
  jobs) and a cooldown that passes.  Two jobs meet in the queue, at the cooldown and in `close()`.
  Fairness: each thread is scheduled and each motion and voice ends; frames and chunks need
  not come, and nobody has to quit.

### The programs of the robot: MCRobotPrograms, RobotProgramsProofs

Nine modules that do not talk to each other are checked in one run, `robot_programs`: `part` chooses
in the initial state which of them runs, and the others rest.  The state space is the sum of
theirs, and each property is about the one it names.  Fairness is that of each module.

* `ArmMotion` (`G1RobotAdapter.play_motion_timed`, `MotionOwnership`, `CustomArmMotionController`):
  a worker that plays a preset by RPC or starts the arm_sdk thread, a second thread that asks for the
  shutdown, and a robot that may act later on a request whose answer timed out (`late`).  The
  property is `ArmsAreOwned`; a refused action is its one exception, for the adapter then knows no
  more than before.  Three plays let a timed-out one meet its successor and the shutdown; two
  samples and two release writes are a start, a middle and an end.
* `ArmTrajectory` (`custom_motion.py`, one joint; joints do not influence each other): validation,
  the base pose and `build_relative_trajectory`.  Angles are integers over a range of nine, with
  offsets inside, at and beyond the envelope; smoothstep is any value between its key frames.
* `SafeAction`: the adapter on the PC and the helper on the robot, which owns the release.  The PC
  may time out, lose the link or close at each step of the helper.  Three notices: one given up,
  one that meets what is left of it, and one after the latch.  Fairness: a helper that was started
  runs (`WF(HelperWorks)`); the operating system schedules it.
* `WanderInterlock`: the two shell scripts line by line, the SSH call and its timeout, which does not
  end the script.  `gaveUp` marks the promise that `ClosedIsQuiet` does not make: a script that was
  given up may launch the process after the close.
* `VoiceLine`: requests and answers in the two pipes of one SSH process, and the helper that plays.
  A sound has two pieces, so that a late answer can be taken for another piece's or for the stop's.
* `DemoLauncher`: the tool, the supervisor and its three children for each of two games that are
  launched on one computer at any moment, with one Ctrl-C.  `stop_group` escalates signal by signal.
  Fairness: a supervisor that was started goes on, and SIGKILL kills.  `g1_game.py`'s Ctrl-C kills
  the supervisor in its cleanup: see `launcher` in section 5.
* `MainProgram`: for each mode of the command line, what is opened in which order, what may fail at
  each point, and what the handlers around that point close.  `dropped` records the failures that
  the code handles nowhere (among them a refused option after a patrol was started, main.py:574);
  they are what `NothingStaysOpen` excludes.  Two things go on beside the closing and are not excluded
  but said.  `AudioMonitor.stop` gives its worker five seconds, and one in a longer classification is
  left behind (`monitor = "late"`): its update meets the closed application (`LateUpdate`); what a closed
  engine does with it is `ReactionEngine`'s part, and it can resume nothing that was stopped
  (`NavigationCoordinator`: a resume needs PAUSED).  And `NavigationCoordinator.close` stops the patrol
  only when it learns that there is one: after a fault the adapter answers from its latch, and a status
  or stop that fails is swallowed.  A patrol that is left going is therefore one whose link the adapter
  has seen fail (`mission => faulty`); what ends it then is the bridge's part, which the repository
  does not have.  Assumed of the transport that is injected for it: it fails with the exceptions its
  contract names, and a stop that is acknowledged has stopped the patrol.
* `MujocoRobot`: the caller, the worker and the window of the simulator.  Three motions: one that
  ends while the next is queued, and another.
* `SpeechCache`: runs of the program one after the other over one directory, each with a
  configuration and an answer of the engine of its own, and each killed at any step.  Three requests,
  three engines (the wanted voice, it and another with the same style, none) and four
  configurations (by name, with a setting, by default, by ID).  An answer that breaks off while it is
  read (http.client.IncompleteRead) passes the handlers at aivis_speech.py:66 and the fallback: the
  request ends as raised.  With two processes at a time the
  property fails: section 5, `SpeechTwo.cfg`.

### The parts that watch: MCWatchers, WatchersProofs

Run `watchers`, built in the same way.

* `StealthGame`: one action per observation, with any time since the last one, for the engine and
  the tracker that share it.  Times are ages that stop counting at their limit, so nothing bounds
  the number of frames.  `FoundIsEarned` uses a history of the time frames showed the player.
  Fairness for `GameLetsGo`: frames without the player keep coming while the player stays away.
  Both settings of `round.auto_reset` and of `tracking.enabled` are run: with the default
  (default.yaml:115) a game that is over stays over until the key `r`, and `GameLetsGo` says so.
* `Trackers`: `BottleTracker` and `MusicStateTracker`, with nearness and scores on both sides of and
  between each pair of thresholds.
* `PersonWorker`: coordinator thread, child process, the switch and `close()`; the child may fail or
  hang anywhere.  Four switches let two results be in flight across an off and an on.  Fairness:
  coordinator and close are scheduled, nothing is asked of the child.
* `AudioMonitor`: callback, worker and main thread around a queue of two; five chunks overflow it
  while the sentinel goes in.  Fairness: threads are scheduled, a callback under way returns, a
  classification ends.
* `CameraFeed`: viewer, helper, ssh, sender and GStreamer, in both transports.  The viewer may close
  or be killed, and the link be lost, at any step.  Fairness: processes run on, a camera gives
  pictures or the sender gives up, SIGKILL kills.

### The parts that decide on pictures: MCPictures, SensorProofs

Run `pictures`, built in the same way; safety only.

* `Wander`: points, a full pipe, the reader with its queue and the loop, which its output may hold
  up.  Two ticks against a limit of one let a line be too old at each place where it waits; a line
  that waits in the pipe unread is dated from its reading, which `MoveIsFresh` says (`unread`).
* `GameView`: two viewers with sources of their own.  One pixel stands for the picture (pixels do
  not influence each other), with a depth clear, faded, hidden or invalid; a lossy codec changes what
  is left of it.  Two images: one that overtakes another at the port.
* `FoundGate`: one gate with the detector's latest result, looked at as often as the camera loop likes,
  suspended, reset, and under a more important target.  Eight units of time hold a detection, a
  cooldown, an absence and a second detection.
* `SlamSession`: two operators' processes and the recorder share the session's files; a command
  may die between any two of its steps, the host may restart.  Four commands are a start, a save, a
  relocation and a second try of one of them.

## 4. What is proved

TLAPS checks these for every value of the constants (under the named `ASSUME`s only).

* `PatrolControllerProofs`: `Invariance` establishes the inductive invariant `IInv` of
  `PatrolInvariant`.  None of the properties is inductive by itself: that a confirmed pause
  holds depends on where both threads are (a thread about to acknowledge has halted, a thread
  that was told "paused" has nobody activating, an ownership exists only under a halted
  pause), so `IInv` says what each thread has established at each of its steps.  From it follow
  `TypeCorrect`, `PauseHolds`, `RecoveryStill`, `StopFollows`, `EndsStopped`,
  `NoMoveOnceStopped` (an action property) and `KeepsPromise`, the refinement of
  `PauseService`.
* `ReactionInterlockProofs` (`OwnershipHolds`, `ProfilesAreSafe`, `NormalResumeIsEarned`).  Who is
  right about the pause depends on the socket, so the invariant begins there: a client that waits has
  exactly one open connection, in the queue or answered and unread, and no other (`Connections`);
  then which of the threads of one reaction can be where (`Threads`), that the pause is owned from its
  confirmation by a job that was taken (`OwnedByJob`), and that nobody but an ending process gives
  up on a pause or its resume (`PauseIsAwaited`).  From these the ownership holds in either profile.
  For the normal one, `Normal` adds that a client gives up on nothing but a stop, and so only a stop
  kills the server.  `ProfilesAreSafe` assumes `Backlog >= 3`, the three clients of one process:
  with less, a stop can be refused (the code's `listen(4)`).  The theorems are about the
  specification of `ReactionInterlock`, with the profile as its constant; the run adds the choice of it.
* `NavigationCoordinatorProofs` (`CoordinatorSafety`, and `ResumeIsOwned`, an action property).  An
  owned pause stands for a patrol that does not move *until an operator's command is noted*, and a
  thread under `_navigation_lock` may be between the two: `OwnedIsPaused` says in which sections the
  ownership lags behind, `ResumesOwn` that on its way to a resume the worker still has what it
  looked at, `PendingIsCounted` which jobs `_pending_reactions` counts.  No bound on jobs or commands.
* `LinksProofs`.  For the relay, `RelayKeepsItsWord` states what holds under each condition and
  `RelaySafety` is the case of `RelayInv`, under `MaxLosses <= 1` and `MaxRefusals = 0`, the fault
  model of the repository's words ("Duplicate STOP datagrams tolerate a single UDP loss", and a
  StopMove that is carried out; without it the run of `RelayRefusal.cfg` is the counterexample).
  The strengthening is `StopIsOnItsWay`: no other datagram has the numbers of the two of the last stop,
  and until one of them is taken both are under way, less the one that was lost.  For the bridge,
  `AdapterSafety` rests on who is on the way to what: whoever clears the latch or takes the last
  heartbeat away leaves a fault latched or a thread that starts another.
* `ReactionEngineProofs` (`EngineSafety`, and `EndsOnce`, an action property).  A job is in one place
  (`OnePlace`: with the thread that made it, in the queue, or run), its observer hears before its
  waiters wake (`ToldFirst`), and the order of the close (`Closing`, `Drained`) leaves the queue only
  the sentinel.  A queue is bounded by the jobs made and inputs taken (`Counting`), for any number.
* `RobotProgramsProofs`, one part per module: the helper of a notice releases before it reports
  (`SafeActionSafety`, `HelperReleases`); a launch that nobody waits for exists only after a call
  was given up, and the PID file names who walks (`WanderStands`); while nothing has failed at most
  one message is in the two pipes, the request of the call that waits or its answer (`VoiceSafety`); a
  motion that was asked for is played, queued or at work until the robot stops (`SimulationSafety`);
  every sample lies between the last one and a target inside the envelope (`TrajectorySafety`,
  `StepsAreSmall`); what the arm service may still do is written down as unconfirmed or in trouble, and
  the arm_sdk thread starts on neither (`ArmSafety`); where each thing may be open, and that a
  patrol outlives the closing only behind a link that was seen to fail (`MainSafety`); which
  of its children a supervisor may have at each stage, and that a patrol that may drive was seen by
  every other before it did (`LaunchSafety`, the safety half of `LaunchIsSafe`).  `SpeechSafety` assumes
  `Alone`, one process on the cache directory at a time: that is where the property is true, and
  section 5 has the two processes for which it is not.
* `WatchersProofs`: a frame in hand was taken since the coordinator last read the generation
  (`DetectorSafety`); only the callback fills the queue while the source runs, so its retry finds the
  room it made (`MonitorSafety`, any length); no state is older than the reports that all say so
  (`TrackersEarn`, an action property); suspicion is paid for by time in view, less what a gap
  still owes (`StealthSafety`: `Paid` is linear in the time and needs only that the gains have a
  largest).
* `SensorProofs`: `ClearRecent` by `DatedClear`, every CLEAR under way or received is dated, so that
  when it is shown its age is at most its delay and the time since its reception; `OpensHeld`; a move is
  shown from the moment the loop went to get the next line (`WanderSafety`); a confirmation began no
  earlier than the target was seen without a gap, an absence no earlier than results showed it
  (`TriggersEarn`: the history variables are the model's, the stamps the code's); what is unhidden in a
  mask may be seen until it is decoded, and what the receiver has in hand is newer than what it shows
  (`ViewSafety`, `NoReplay`); an attempt is on the disk before the call and its result is not, under
  one lock (`SlamSafety`, any operators and commands).

The proofs made three assumptions of the models explicit, which the code meets: a sound has at least
one piece (`VoiceAssumption`; found_audio.py:832 refuses an empty one), the gains of the stealth game
have a largest, and no operator of the SLAM session is called as an absent lock holder is.  They also
found guards of `CASE` expressions that overlapped in `ReactionInterlock` and `GameView`, where the value
was TLC's choice and not the code's; they are `IF`s now.

Only model-checked, and why:

* everything under fairness: `RequestsAreHonoured`, `InterlockEnds`, `ReactionsEnd`,
  `LinkKeepsBeating`, `EngineEnds`, `RaisedIsReleased`, `GameLetsGo`, `WorkerEnds`, `MonitorEnds`,
  `CameraIsReleased`, and `PatrolNeedsReaction` of `LaunchIsSafe`.  Liveness and `ENABLED` are out of
  the prover's reach;
* the choice of the profile in the run `interlock`, and the choices of the composed runs, which only
  say which specification runs.

## 5. Where the code and its documents disagree

Three are runs of `PROJECT.json`, which quotes the lines; TLC prints the counterexample.

* `patrol_resume`: a pause and its resume can both complete between the runner's test and its
  activation; the patrol pauses again with nobody to resume it.
* `interlock_abort`: a client that gave up kills the serving thread, and the final stop is
  never read.
* `launcher`: on a Ctrl-C the tool kills the supervisor in the middle of its cleanup, and the
  children, which have sessions of their own, live on.

The modules state nine more.  `tlc -config X.cfg M` prints the counterexample; where two
rows name one configuration, or it is that of a passing run, its property and the constants in
brackets are to be replaced:

| configuration | module | property | what happens |
|---|---|---|---|
| `NavigationPending.cfg` | `NavigationCoordinator` | `ResumesWithNothingPending` | the pending count is read before the wait for `_navigation_lock` (coordinator.py:158-181): the patrol is resumed with an accepted reaction pending, against docs/NAVIGATION_ARCHITECTURE.md:111-112 |
| `RemoteLatch.cfg` | `RemoteNavigation` | `NoMovementWhileLatched` | a movement that waits for `_request_lock` is sent although another thread has latched (remote_navigation.py:239-249), against docs/NAVIGATION_ARCHITECTURE.md:138-140 |
| `RemoteLatch.cfg` | `RemoteNavigation` | `FaultNeedsReconnect` | a reconnect clears the latch of a fault newer than the answer it read (remote_navigation.py:157), against docs/NAVIGATION_ARCHITECTURE.md:143 |
| `RelayRefusal.cfg` | `LocomotionRelay` | `RobotStops` | one StopMove that is not carried out disarms the watchdog (locomotion_relay.py:234-238), against patrol/README.md:20-21 |
| `Engine.cfg` | `ReactionEngine` | `MusicOnlyUnaware` | music is accepted after the game has left UNAWARE (app.py:138), against docs/STEALTH_GAME.md:25 |
| `Lidar.cfg` (`StaleAfter = 5`, `ClearHold = 4`, `MaxDelay = 0`, `MaxInFlight = 1`) | `LidarRelay` | `ClearOnFreshScan` | three ages are bounded one by one, not their sum (udp_relay_guard.py:56-60): CLEAR is shown on a scan older than the limit, against patrol/README.md:20-21 |
| `InterlockAbort.cfg` | `ReactionInterlock` | `ArmsOnlyWhileHeld` | in the hackathon profile the completion timeout resumes the patrol while the worker is about to start the motion (found_audio.py:644) |
| `NavigationPending.cfg` (`SlowPause = TRUE`, `MaxCommands = 3`) | `NavigationCoordinator` | `AutoResumeIsEarned` | an acknowledged operator pause is replaced by a reaction's, whose completion resumes the patrol (coordinator.py:88-95), against docs/NAVIGATION_ARCHITECTURE.md:115-116 |
| `SpeechTwo.cfg` | `MCRobotPrograms` | `WordsAreAsAsked` | two processes that share the cache directory share its temporary file (aivis_speech.py:166), and a half-written WAV is played |
## 6. What is not modelled

Devices and numerics: the picture and the network behind a detection (YOLO, YAMNet, bottle vision),
resampling, the speech engine's answer and sound formats, the physics of MuJoCo, motion assets and
their smoothing.  They compute with arrays of real numbers that neither TLC nor the provers reach;
what comes of them is a choice between the outcomes the code tells apart.  The sampling of one joint
is modelled over integers.

Read-only diagnostics, deployment scripts, the one-shot SLAM scripts, the offline tools for
generating motions and the stand-alone camera probes keep no state that another component's
correctness hangs on.

Within the modelled components: logging, display, drawing, keys, poses and histories, parsing of
options and configuration, the wording of replies.  `PROJECT.json` says for each component marked
partly what is left out.  The robot itself and the resident motion process are external: what the
code may observe of them is a choice.

## 7. Plan

In order of importance:

1. The end-to-end property: a composition of `PatrolController` and `LocomotionRelay`, in which a pause
   that the controller has confirmed means a robot that stands still within the watchdog, proved from
   `KeepsPromise` and `RelayKeepsItsWord`.
2. `ReactionInterlock` against the abstract `PauseService` by name: its patrol is what the service
   promises, and the instance would say so.
3. `ReactionInterlock` over `WanderInterlock`: the reaction's worker, voice and completion beside a
   wander process that SSH may leave behind, instead of the patrol.
4. What is left out of the modules marked partly in `PROJECT.json`: the variants of encounters and
   the diagnostic execution of `ReactionEngine`, telemetry of `LocomotionRelay`, the deck of motions
   and the sound files of the found reactions.

