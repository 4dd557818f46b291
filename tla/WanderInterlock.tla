---------------------------- MODULE WanderInterlock ----------------------------
(* The robot that wanders about by itself must stand while it reacts.  The     *)
(* camera program holds the wander process of the robot through two shell      *)
(* scripts run over SSH (RemoteWanderController): one that launches it and     *)
(* writes its PID file, one that reads that file, sends SIGTERM and waits.     *)
(* SSH has a timeout of its own, and giving up on it does not end the script.  *)
(* Two threads use the interlock under one lock: the camera loop, which is     *)
(* also the one that closes it, and the thread that resumes after a reaction.  *)
EXTENDS Naturals

CONSTANT MaxReactions    \* reactions asked for in a run

VARIABLES
  loop,        \* the camera loop: "first" (launch), "cleanup", "idle", "stop", "ready",
               \* "start", "closing", "close" or "closed"
  shut,        \* RemoteWanderController._closed
  resumer,     \* the completion thread: "none", "waits", "starts"
  linkWork,    \* the SSH call under the lock: "none", "start" or "stop"
  running,   \* RemoteWanderController._running
  launcher,    \* the start script on the robot: "none", "asked", "found", "launched", "saved"
  stopper,     \* the stop script: "none", "asked" or "told"
  walker,      \* the wander process: "none", "up" or "ending"
  pidFile,     \* the PID file exists
  reaction,    \* the reaction's job: "none", "moving", "good" or "bad"
  gaveUp,      \* an SSH call was given up while its script still ran
  closeFailed, \* a close raised
  asked        \* reactions asked for

interlockVars ==
  << loop, shut, resumer, linkWork, running, launcher, stopper, walker, pidFile,
     reaction, gaveUp, closeFailed, asked >>

scriptVars == << launcher, stopper, walker, pidFile >>

\* The program starts by launching the wander process; an earlier run may have left one.
InterlockInit ==
  /\ loop = "first" /\ shut = FALSE /\ resumer = "none" /\ linkWork = "start"
  /\ running = FALSE /\ launcher = "asked" /\ stopper = "none"
  /\ walker \in {"none", "up"} /\ pidFile \in {walker = "up", TRUE}
  /\ reaction = "none" /\ gaveUp = FALSE /\ closeFailed = FALSE /\ asked = 0

-------------------------------------------------------------------------------
(* The scripts and the process on the robot. *)

\* start: a process that is already there is reported as RUNNING; else launch one.
Launch ==
  /\ launcher = "asked"
  /\ IF pidFile /\ walker # "none"
       THEN launcher' = "found" /\ UNCHANGED << walker, pidFile >>
       ELSE launcher' = "launched" /\ walker' = "up" /\ pidFile' = FALSE
  /\ UNCHANGED << loop, shut, resumer, linkWork, running, stopper, reaction, gaveUp,
                  closeFailed, asked >>

SavePid ==
  /\ launcher = "launched"
  /\ launcher' = "saved" /\ pidFile' = TRUE
  /\ UNCHANGED << loop, shut, resumer, linkWork, running, stopper, walker, reaction,
                  gaveUp, closeFailed, asked >>

\* The process ends by itself after its hour, or some time after SIGTERM.
WalkerEnds ==
  /\ walker # "none" /\ walker' = "none"
  /\ UNCHANGED << loop, shut, resumer, linkWork, running, launcher, stopper, pidFile,
                  reaction, gaveUp, closeFailed, asked >>

\* The stop script finds a process of its own in the PID file and sends SIGTERM.
SendTerm ==
  /\ stopper = "asked" /\ pidFile /\ walker # "none"
  /\ stopper' = "told" /\ walker' = "ending"
  /\ UNCHANGED << loop, shut, resumer, linkWork, running, launcher, pidFile, reaction,
                  gaveUp, closeFailed, asked >>

-------------------------------------------------------------------------------
(* What the SSH call brings back, and who goes on with it. *)

\* The loop or the resumer that made the call goes on, and the lock is free.  A first
\* start that fails closes the interlock; any other failure leaves the robot standing.
Return(ok) ==
  /\ \/ /\ loop = "first" /\ ~ok
        /\ loop' = "cleanup" /\ linkWork' = "stop" /\ stopper' = "asked"
        /\ UNCHANGED << shut, resumer, closeFailed >>
     \/ /\ ~(loop = "first" /\ ~ok)
        /\ linkWork' = "none" /\ stopper' = (IF linkWork = "stop" THEN "none" ELSE stopper)
        /\ CASE loop \in {"first", "start"} ->
                  loop' = "idle" /\ UNCHANGED << shut, resumer, closeFailed >>
             [] loop = "stop" ->
                  loop' = (IF ok THEN "ready" ELSE "idle") /\ UNCHANGED << shut, resumer, closeFailed >>
             [] loop \in {"cleanup", "close"} ->
                  /\ loop' = (IF loop = "close" THEN "closed" ELSE "idle")
                  /\ shut' = TRUE /\ closeFailed' = (closeFailed \/ ~ok)
                  /\ UNCHANGED resumer
             [] OTHER ->
                  resumer' = "none" /\ UNCHANGED << loop, shut, closeFailed >>

\* STARTED or RUNNING, and the failure of a launch whose process is gone at once.
StartReturns ==
  /\ linkWork = "start" /\ launcher \in {"found", "saved"} /\ launcher' = "none"
  /\ LET ok == launcher = "found" \/ walker # "none"
     IN  Return(ok) /\ running' = (running \/ ok) /\ pidFile' = ok
  /\ UNCHANGED << walker, reaction, gaveUp, asked >>

\* STOPPED when the process is gone after SIGTERM.
Stopped ==
  /\ linkWork = "stop" /\ stopper = "told" /\ walker = "none"
  /\ pidFile' = FALSE /\ running' = FALSE
  /\ Return(TRUE)
  /\ UNCHANGED << launcher, walker, reaction, gaveUp, asked >>

\* ABSENT when no process of the PID file is there: good enough only for a close
\* that expects none.
Absent ==
  /\ linkWork = "stop" /\ stopper = "asked" /\ ~(pidFile /\ walker # "none")
  /\ pidFile' = FALSE
  /\ Return(loop \in {"cleanup", "close"} /\ ~running)
  /\ UNCHANGED << running, launcher, walker, reaction, gaveUp, asked >>

\* Mutant: the exit code of the script is not looked at.
StillThereIsFine ==
  /\ linkWork = "stop" /\ stopper = "told" /\ walker # "none"
  /\ Return(TRUE)
  /\ UNCHANGED << running, launcher, walker, pidFile, reaction, gaveUp, asked >>

\* Exit code 4: the process is still there when the script's time is over.
StillThere ==
  /\ linkWork = "stop" /\ stopper = "told" /\ walker # "none"
  /\ Return(FALSE)
  /\ UNCHANGED << running, launcher, walker, pidFile, reaction, gaveUp, asked >>

\* The connection fails before the script begins.
Unreached ==
  /\ \/ linkWork = "start" /\ launcher = "asked" /\ launcher' = "none"
     \/ linkWork = "stop" /\ stopper = "asked" /\ UNCHANGED launcher
  /\ Return(FALSE)
  /\ UNCHANGED << running, walker, pidFile, reaction, gaveUp, asked >>

\* The call's timeout passes, and the start script goes on.  A stop script does too, but
\* all that it may still do is end the process, which WalkerEnds allows at any time.
GiveUp ==
  /\ linkWork # "none" /\ gaveUp' = TRUE
  /\ Return(FALSE)
  /\ UNCHANGED << running, launcher, walker, pidFile, reaction, asked >>

\* A start script nobody waits for ends like one that is heard.
Unheard ==
  /\ linkWork # "start" /\ launcher \in {"found", "saved"}
  /\ launcher' = "none" /\ pidFile' = (launcher = "found" \/ walker # "none")
  /\ UNCHANGED << loop, shut, resumer, linkWork, running, stopper, walker, reaction,
                  gaveUp, closeFailed, asked >>

-------------------------------------------------------------------------------
(* The program. *)

CallStop  == linkWork' = "stop" /\ stopper' = "asked" /\ UNCHANGED launcher
CallStart == linkWork' = "start" /\ launcher' = "asked" /\ UNCHANGED stopper

Busy == resumer # "none" \/ reaction = "moving"

\* trigger: dropped while a reaction runs, and inhibited at once when no start is running.
Trigger ==
  /\ loop = "idle" /\ ~Busy /\ asked < MaxReactions /\ running
  /\ loop' = "stop" /\ asked' = asked + 1
  /\ CallStop
  /\ UNCHANGED << shut, resumer, running, walker, pidFile, reaction, gaveUp, closeFailed >>

\* The robot stands: a passed preflight hands the reaction to the engine and leaves
\* the rest to the completion thread; a failed one plays the voice and walks on, as
\* does a reaction the engine rejects.
React ==
  /\ loop = "ready"
  /\ \/ loop' = "idle" /\ reaction' = "moving" /\ resumer' = "waits"
        /\ UNCHANGED << linkWork, launcher, stopper >>
     \/ loop' = "start" /\ CallStart /\ UNCHANGED << reaction, resumer >>
  /\ UNCHANGED << shut, running, walker, pidFile, gaveUp, closeFailed, asked >>

ReactionEnds ==
  /\ reaction = "moving" /\ reaction' \in {"good", "bad"}
  /\ UNCHANGED << loop, shut, resumer, linkWork, running, scriptVars, gaveUp, closeFailed, asked >>

\* _resume_after_completion: a timeout or a failed reaction leaves the robot standing;
\* a good one walks on, unless the program is closing.
Resume ==
  /\ resumer = "waits"
  /\ IF reaction = "good" /\ loop \notin {"closing", "close", "closed"}
       THEN linkWork = "none" /\ resumer' = "starts" /\ CallStart
       ELSE resumer' = "none" /\ UNCHANGED << linkWork, launcher, stopper >>
  /\ UNCHANGED << loop, shut, running, walker, pidFile, reaction, gaveUp, closeFailed,
                  asked >>

\* close: nobody resumes any more, and the lock is waited for.
BeginClose ==
  /\ loop = "idle" /\ loop' = "closing"
  /\ UNCHANGED << shut, resumer, linkWork, running, scriptVars, reaction, gaveUp,
                  closeFailed, asked >>

\* Whatever the PID file names is stopped, once.
CloseInterlock ==
  /\ loop = "closing" /\ linkWork = "none"
  /\ IF shut THEN loop' = "closed" /\ UNCHANGED << linkWork, launcher, stopper >>
             ELSE loop' = "close" /\ CallStop
  /\ UNCHANGED << shut, resumer, running, walker, pidFile, reaction, gaveUp, closeFailed,
                  asked >>

InterlockRests ==
  /\ loop = "closed" /\ linkWork = "none" /\ launcher = "none"
  /\ walker = "none" /\ resumer = "none" /\ reaction # "moving"
  /\ UNCHANGED interlockVars

InterlockNext ==
  \/ Launch \/ SavePid \/ WalkerEnds \/ SendTerm \/ StartReturns \/ Stopped \/ Absent
  \/ StillThere \/ Unreached \/ GiveUp \/ Unheard \/ Trigger \/ React \/ ReactionEnds \/ Resume
  \/ BeginClose \/ CloseInterlock \/ InterlockRests

InterlockSpec == InterlockInit /\ [][InterlockNext]_interlockVars

-------------------------------------------------------------------------------
\* Nothing walks the robot about while the arms of a reaction move: neither the process
\* that was stopped, nor one on its way.
ReactsStanding == reaction = "moving" => walker = "none" /\ launcher = "none"

\* A close that raised nothing leaves no wander process behind, as long as no SSH call
\* was given up: the script of one may launch the process after the close.
ClosedIsQuiet ==
  loop = "closed" /\ ~closeFailed /\ ~gaveUp => walker = "none" /\ launcher = "none"

(* The robot does not walk when the interlock says it stands: during a reaction *)
(* (FoundReactionController.trigger) and after a close that raised nothing      *)
(* (RemoteWanderController.close), whatever SSH loses in between.               *)
StandsWhenTold == ReactsStanding /\ ClosedIsQuiet
=============================================================================
