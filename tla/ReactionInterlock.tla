-------------------------- MODULE ReactionInterlock ---------------------------
(***************************************************************************)
(* The reaction process beside a patrol: the camera loop that accepts a    *)
(* detection, the reaction worker that pauses the patrol and moves the     *)
(* arms, the audio worker that plays the voice, and the completion thread  *)
(* that resumes the patrol or stops it for good.  The first, second and    *)
(* fourth share one LocalPatrolController; each of its requests is one     *)
(* connection to the single thread of PatrolControlServer.                 *)
(*                                                                         *)
(* One action per atomic section: a request sent, a request served, a      *)
(* reply read, a lock taken.  The patrol itself is what PatrolController   *)
(* promises: going, paused or stopped.  A timeout is a choice wherever     *)
(* the wait it bounds can be that long.                                    *)
(***************************************************************************)
EXTENDS Naturals, Sequences

CONSTANTS Hackathon,   \* --hackathon-runtime: status polls, recoverable aborts
          AllowMiss,   \* allow_safe_return_miss_resume
          Backlog,     \* connections the socket holds: listen(4)
          MaxJobs      \* bound: reactions accepted

ASSUME ModeAssumption ==
    /\ Hackathon \in BOOLEAN /\ AllowMiss \in BOOLEAN
    /\ Hackathon => AllowMiss
ASSUME BoundAssumption == Backlog \in Nat \ {0} /\ MaxJobs \in Nat

VARIABLES pc,          \* where each thread is
          answer,      \* per client thread: "none", "waiting", "yes" or "no"
          queue,       \* the connections still to be served, oldest first
          server,      \* its thread: "up", "dead" (an exception), "gone" (closed)
          patrol,      \* "going", "paused" or "stopped"
          owned, failed,       \* LocalPatrolController._pause_owned, _failed
          job, jobs,   \* the accepted ReactionJob; how many there have been
          gate,        \* the audio start gate, "none" for an ungated reaction
          spoke,       \* FoundWavSpeechBackend.last_attempt_successful
          motion,      \* how the last play_motion of the fail-safe adapter ended
          disabled,    \* FailSafeReactionRobotAdapter.error is set
          arms,        \* MotionDecode has the arms: weight not back at zero
          closing, shutdown,   \* of FoundReactionController and of the engine
          lock         \* the holder of _wander_lock

client == <<owned, failed>>
wire   == <<answer, queue, server, patrol>>
outputs == <<gate, spoke, motion, disabled, arms>>
work   == <<job, jobs, outputs>>
exit   == <<closing, shutdown, lock>>
vars   == <<pc, wire, client, work, exit>>

Clients == {"camera", "worker", "completion"}
Ops == {"status", "pause", "reaction_ready", "resume", "stop"}

Goto(t, label) == pc' = [pc EXCEPT ![t] = label]

Init ==
    /\ pc = [camera |-> "look", worker |-> "idle", voice |-> "idle",
             completion |-> "none"]
    /\ answer = [c \in Clients |-> "none"]
    /\ queue = <<>> /\ server = "up" /\ patrol = "going"
    /\ owned = FALSE /\ failed = FALSE
    /\ job = "none" /\ jobs = 0
    /\ gate = "none" /\ spoke = "unset" /\ motion = "unset"
    /\ disabled = FALSE /\ arms = FALSE
    /\ closing = FALSE /\ shutdown = FALSE /\ lock = "free"

(***************************************************************************)
(* The socket.                                                             *)
(***************************************************************************)

\* LocalPatrolController._request: connect and send.  Without a socket, or with its
\* backlog full, the connection fails; a dead thread never answers it.
Request(c, op) ==
    LET refused == server = "gone" \/ Len(queue) >= Backlog IN
    /\ answer' = [answer EXCEPT ![c] = IF refused THEN "no" ELSE "waiting"]
    /\ queue' = IF refused \/ server = "dead" THEN queue
                ELSE Append(queue, [from |-> c, op |-> op, live |-> TRUE])
    /\ UNCHANGED <<server, patrol>>

\* The reply has been read: c goes on.
Answered(c, reply) ==
    /\ answer[c] = reply
    /\ answer' = [answer EXCEPT ![c] = "none"]
    /\ UNCHANGED <<queue, server, patrol>>

\* What an operation does to the patrol and whether the client takes the reply for
\* a success.  A pause of a paused patrol is never acknowledged; a pause or a
\* freshness barrier that times out stops the patrol.
Outcome(op) ==
    IF op = "status" THEN {[patrol |-> patrol, ok |-> patrol = "going"]}
    ELSE IF op = "stop" THEN {[patrol |-> "stopped", ok |-> TRUE]}
    ELSE IF patrol = "stopped" THEN {[patrol |-> "stopped", ok |-> FALSE]}
    ELSE IF op = "pause"
    THEN {[patrol |-> "stopped", ok |-> FALSE]} \cup
         (IF patrol = "going" THEN {[patrol |-> "paused", ok |-> TRUE]} ELSE {})
    ELSE IF patrol = "going" THEN {[patrol |-> "going", ok |-> FALSE]}
    ELSE {[patrol |-> "stopped", ok |-> FALSE],
          [patrol |-> IF op = "resume" THEN "going" ELSE "paused", ok |-> TRUE]}

\* _serve answers the oldest connection.  The reply is written outside its try:
\* if the client has given up and closed, the exception ends the thread, and what
\* else is waiting is never read.
Serve ==
    /\ server = "up" /\ queue # <<>>
    /\ LET first == Head(queue) IN
       \E r \in Outcome(first.op) :
         /\ patrol' = r.patrol
         /\ IF first.live
            THEN /\ answer' = [answer EXCEPT ![first.from] = IF r.ok THEN "yes" ELSE "no"]
                 /\ queue' = Tail(queue) /\ UNCHANGED server
            ELSE server' = "dead" /\ queue' = <<>> /\ UNCHANGED answer
    /\ UNCHANGED <<pc, client, work, exit>>

\* The operations a connection may wait behind for longer than its own timeout: a
\* pause lasts up to 30 s, a freshness barrier 2 s, a status reply is awaited for
\* 1 s, a resume or a stop for 5 s.
TooSlow(op) == IF op = "status" THEN {"pause", "reaction_ready", "resume"}
               ELSE IF op = "pause" THEN {} ELSE {"pause"}

\* A client's socket times out and is closed.
GiveUp(c) ==
    /\ answer[c] = "waiting"
    /\ \/ server = "dead" /\ UNCHANGED queue
       \/ \E i \in DOMAIN queue :
            /\ queue[i].from = c /\ queue[i].live
            /\ \E k \in 1..i-1 : queue[k].op \in TooSlow(queue[i].op)
            /\ queue' = [queue EXCEPT ![i].live = FALSE]
    /\ answer' = [answer EXCEPT ![c] = "no"]
    /\ UNCHANGED <<pc, server, patrol, client, work, exit>>

\* The patrol ends by itself: its route is done, telemetry is lost, the operator
\* stops it.
PatrolStops ==
    /\ patrol # "stopped" /\ patrol' = "stopped"
    /\ UNCHANGED <<pc, answer, queue, server, client, work, exit>>

\* run() has returned: main closes the server and removes the socket.
ServerCloses ==
    /\ patrol = "stopped" /\ server # "gone" /\ server' = "gone"
    /\ answer' = [c \in Clients |-> IF answer[c] = "waiting" THEN "no" ELSE answer[c]]
    /\ queue' = <<>>
    /\ UNCHANGED <<pc, patrol, client, work, exit>>

(***************************************************************************)
(* LocalPatrolController, as its callers see it.                           *)
(***************************************************************************)

\* Mutant: only an owned pause is worth a final stop.
AbortOnlyIfOwned(t, label) ==
    /\ failed' = TRUE /\ UNCHANGED owned
    /\ Goto(t, label)
    /\ IF owned THEN Request(t, "stop")
       ELSE answer' = [answer EXCEPT ![t] = "no"] /\ UNCHANGED <<queue, server, patrol>>

\* abort(): latch the fault, ask for the final stop; give up the pause whatever the
\* answer.
AbortRequest(t, label) ==
    /\ failed' = TRUE /\ UNCHANGED owned
    /\ Request(t, "stop") /\ Goto(t, label)

AbortReply(t) ==
    /\ \E r \in {"yes", "no"} : Answered(t, r)
    /\ owned' = FALSE /\ UNCHANGED failed

\* start() by the completion thread, to label once the resume is sent, to "abort"
\* when refused.
StartRequest(label) ==
    IF failed \/ ~owned
    THEN Goto("completion", "abort") /\ UNCHANGED wire
    ELSE Goto("completion", label) /\ Request("completion", "resume")

(***************************************************************************)
(* The camera loop.                                                        *)
(***************************************************************************)

CompletionAlive == pc.completion # "none"
Busy == job \in {"queued", "running"} \/ CompletionAlive

\* The hackathon loop asks for the status before every choice of a trigger.
Poll ==
    /\ pc.camera = "look" /\ Hackathon
    /\ Request("camera", "status") /\ Goto("camera", "poll")
    /\ UNCHANGED <<client, work, exit>>

Polled ==
    /\ pc.camera = "poll" /\ \E r \in {"yes", "no"} : Answered("camera", r)
    /\ Goto("camera", "look")
    /\ UNCHANGED <<client, work, exit>>

\* trigger() and the forced reaction_context of _trigger_patrol.
Trigger ==
    /\ pc.camera = "look" /\ ~Busy /\ jobs < MaxJobs
    /\ Request("camera", "status") /\ Goto("camera", "ask")
    /\ UNCHANGED <<client, work, exit>>

NotEligible ==
    /\ pc.camera = "ask" /\ Answered("camera", "no")
    /\ Goto("camera", "look")
    /\ UNCHANGED <<client, work, exit>>

\* The patrol is on a forward leg: queue the job and start its completion thread.
\* A banana or a plushie speaks only behind the gate, a person at once.  The
\* engine's cooldown may refuse the event instead.
Accept ==
    /\ pc.camera = "ask" /\ Answered("camera", "yes")
    /\ \/ /\ gate' \in {"none", "shut"}
          /\ job' = "queued" /\ jobs' = jobs + 1
          /\ pc' = [pc EXCEPT !.camera = "look", !.completion = "wait"]
       \/ /\ Goto("camera", "look")
          /\ UNCHANGED <<gate, job, jobs>>
    /\ UNCHANGED <<client, spoke, motion, disabled, arms, exit>>

Cancelled(g) == IF g = "none" THEN "none" ELSE "cancelled"

\* close(): first the flag and the gate.
Close ==
    /\ pc.camera = "look"
    /\ closing' = TRUE
    /\ gate' = IF CompletionAlive THEN Cancelled(gate) ELSE gate
    /\ Goto("camera", "closeLock")
    /\ UNCHANGED <<wire, client, job, jobs, spoke, motion, disabled, arms, shutdown, lock>>

\* interlock.close() under _wander_lock: a pause we own becomes a final stop.
CloseInterlock ==
    /\ pc.camera = "closeLock" /\ lock = "free"
    /\ IF owned
       THEN AbortRequest("camera", "closeAbort") /\ lock' = "camera"
       ELSE Goto("camera", "closeEngine") /\ UNCHANGED <<wire, client, lock>>
    /\ UNCHANGED <<work, closing, shutdown>>

CloseAborted ==
    /\ pc.camera = "closeAbort" /\ AbortReply("camera")
    /\ lock' = "free" /\ Goto("camera", "closeEngine")
    /\ UNCHANGED <<work, closing, shutdown>>

\* engine.close(cancel_pending=True): no output starts any more, a job the worker
\* has not taken fails.
CloseEngine ==
    /\ pc.camera = "closeEngine"
    /\ shutdown' = TRUE
    /\ job' = IF job = "queued" THEN "failed" ELSE job
    /\ Goto("camera", "join")
    /\ UNCHANGED <<wire, client, jobs, outputs, closing, lock>>

\* It joins both workers, then waits two seconds for the completion thread, which
\* dies with the process; only a request not answered by then keeps it longer.
Join ==
    /\ pc.camera = "join" /\ pc.worker = "idle" /\ pc.voice = "idle"
    /\ ~CompletionAlive \/ answer["completion"] = "waiting"
    /\ pc' = [pc EXCEPT !.camera = "done", !.completion = "none"]
    /\ answer' = [c \in Clients |-> "none"]
    /\ queue' = [i \in DOMAIN queue |-> [queue[i] EXCEPT !.live = FALSE]]
    /\ UNCHANGED <<server, patrol, client, work, exit>>

Camera ==
    \/ Poll \/ Polled \/ Trigger \/ NotEligible \/ Accept
    \/ Close \/ CloseInterlock \/ CloseAborted \/ CloseEngine \/ Join

(***************************************************************************)
(* The reaction worker: one job, the voice beside it, the motion behind    *)
(* the patrol's gate.                                                      *)
(***************************************************************************)

\* The controller forgets the gate when the completion thread reports.
Gated == gate # "none" /\ CompletionAlive

\* _execute_outputs hands the voice to the audio worker, unless it is too late.
Take ==
    /\ pc.worker = "idle" /\ job = "queued"
    /\ IF shutdown
       THEN job' = "failed" /\ UNCHANGED pc
       ELSE /\ job' = "running"
            /\ pc' = [pc EXCEPT !.worker = "play", !.voice = "entered"]
    /\ UNCHANGED <<wire, client, jobs, outputs, exit>>

\* play_motion of the fail-safe adapter: the gate first sends the pause.  A second
\* shutdown check raises; an adapter that once failed skips the motion.
Play ==
    /\ pc.worker = "play"
    /\ IF shutdown
       THEN Goto("worker", "listenFailed") /\ UNCHANGED <<wire, motion>>
       ELSE /\ motion' = "failed"
            /\ IF disabled THEN Goto("worker", "listen") /\ UNCHANGED wire
               ELSE IF failed THEN Goto("worker", "gateFail") /\ UNCHANGED wire
               ELSE Goto("worker", "pausing") /\ Request("worker", "pause")
    /\ UNCHANGED <<client, job, jobs, gate, spoke, disabled, arms, exit>>

\* stop_and_wait() returns.
Paused ==
    /\ pc.worker = "pausing"
    /\ \/ Answered("worker", "yes") /\ owned' = TRUE /\ Goto("worker", "ready1")
       \/ Answered("worker", "no") /\ UNCHANGED owned /\ Goto("worker", "gateFail")
    /\ UNCHANGED <<failed, work, exit>>

\* wait_reaction_ready(), before and again after the preflight.
AskReady ==
    /\ \E s \in {<<"ready1", "readying1">>, <<"ready2", "readying2">>} :
         /\ pc.worker = s[1]
         /\ IF failed \/ ~owned
            THEN Goto("worker", "gateFail") /\ UNCHANGED wire
            ELSE Goto("worker", s[2]) /\ Request("worker", "reaction_ready")
    /\ UNCHANGED <<client, work, exit>>

Ready ==
    /\ \E s \in {<<"readying1", "preflight">>, <<"readying2", "release">>} :
         /\ pc.worker = s[1]
         /\ \/ Answered("worker", "yes") /\ Goto("worker", s[2])
            \/ Answered("worker", "no") /\ Goto("worker", "gateFail")
    /\ UNCHANGED <<client, work, exit>>

\* preflight_motion passes, or has failed until its deadline.
Preflight ==
    /\ pc.worker = "preflight"
    /\ Goto("worker", "ready2") \/ Goto("worker", "gateFail")
    /\ UNCHANGED <<wire, client, work, exit>>

\* release_and_wait_started(): open the gate, where there is one.
Release ==
    /\ pc.worker = "release"
    /\ IF Gated
       THEN /\ gate' = IF gate = "shut" THEN "open" ELSE gate
            /\ Goto("worker", "awaitVoice")
       ELSE Goto("worker", "act") /\ UNCHANGED gate
    /\ UNCHANGED <<wire, client, job, jobs, spoke, motion, disabled, arms, exit>>

\* The voice has started behind the open gate; or two seconds have passed, or the
\* gate was cancelled.
AwaitVoice ==
    /\ pc.worker = "awaitVoice"
    /\ \/ gate = "open" /\ pc.voice \in {"playing", "said"} /\ Goto("worker", "act")
       \/ gate = "cancelled" /\ Goto("worker", "gateFail")
       \/ pc.voice \notin {"playing", "said"} /\ Goto("worker", "gateFail")
    /\ UNCHANGED <<wire, client, work, exit>>

\* The gate's except clause: cancel the voice, abort the patrol, and raise, which
\* disables the adapter.
GateFail ==
    /\ pc.worker = "gateFail"
    /\ gate' = IF Gated THEN Cancelled(gate) ELSE gate
    /\ AbortRequest("worker", "gateAbort")
    /\ UNCHANGED <<job, jobs, spoke, motion, disabled, arms, exit>>

GateAborted ==
    /\ pc.worker = "gateAbort" /\ AbortReply("worker")
    /\ disabled' = TRUE /\ Goto("worker", "listen")
    /\ UNCHANGED <<job, jobs, gate, spoke, motion, arms, exit>>

\* The delegate starts the motion, unless it has been told to shut down.
Act ==
    /\ pc.worker = "act"
    /\ IF shutdown
       THEN disabled' = TRUE /\ Goto("worker", "listen") /\ UNCHANGED arms
       ELSE arms' = TRUE /\ Goto("worker", "moving") /\ UNCHANGED disabled
    /\ UNCHANGED <<wire, client, job, jobs, gate, spoke, motion, exit>>

\* It ends with proof of the return to q0 and the release; with the release alone
\* (a safe-return miss); aborted but released; or unknown, the weight with it.  It
\* lasts seconds: none fits between the two adjacent calls of close().
Moved ==
    /\ pc.worker = "moving" /\ pc.camera # "closeEngine"
    /\ motion' \in {"good", "miss", "failed"} \cup (IF Hackathon THEN {"recoverable"} ELSE {})
    /\ disabled' = (motion' = "failed")
    /\ arms' \in (IF motion' = "failed" THEN BOOLEAN ELSE {FALSE})
    /\ Goto("worker", "listen")
    /\ UNCHANGED <<wire, client, job, jobs, gate, spoke, exit>>

\* The job ends when its voice has; a late shutdown fails it.
Listen ==
    /\ pc.worker \in {"listen", "listenFailed"} /\ pc.voice \in {"said", "mute", "cancelled"}
    /\ job' = IF pc.worker = "listen" /\ pc.voice # "cancelled" /\ ~shutdown
              THEN "ok" ELSE "failed"
    /\ pc' = [pc EXCEPT !.worker = "idle", !.voice = "idle"]
    /\ UNCHANGED <<wire, client, jobs, outputs, exit>>

Worker ==
    \/ Take \/ Play \/ Paused \/ AskReady \/ Ready \/ Preflight \/ Release
    \/ AwaitVoice \/ GateFail \/ GateAborted \/ Act \/ Moved \/ Listen

(***************************************************************************)
(* The audio worker.                                                       *)
(***************************************************************************)

\* speak() takes the gate with it, after the engine's shutdown check.
Speak ==
    /\ pc.voice = "entered"
    /\ Goto("voice", IF shutdown THEN "cancelled"
                     ELSE IF gate = "none" THEN "playing" ELSE "waiting")
    /\ UNCHANGED <<wire, client, work, exit>>

\* Mutant: the wait at the gate has no timeout.
GateWaitForEver ==
    /\ pc.voice = "waiting" /\ gate # "shut"
    /\ IF gate = "open"
       THEN Goto("voice", "playing") /\ UNCHANGED spoke
       ELSE Goto("voice", "mute") /\ spoke' = "no"
    /\ UNCHANGED <<wire, client, job, jobs, gate, motion, disabled, arms, exit>>

\* gate.wait(30): released, or cancelled, or shut for thirty seconds; then speak() returns
\* without having started.
GateWait ==
    /\ pc.voice = "waiting"
    /\ IF gate = "open"
       THEN Goto("voice", "playing") /\ UNCHANGED spoke
       ELSE Goto("voice", "mute") /\ spoke' = "no"
    /\ UNCHANGED <<wire, client, job, jobs, gate, motion, disabled, arms, exit>>

\* play_wav returns or raises; either way the branch has ended.
Spoken ==
    /\ pc.voice = "playing"
    /\ spoke' \in {"yes", "no"} /\ Goto("voice", "said")
    /\ UNCHANGED <<wire, client, job, jobs, gate, motion, disabled, arms, exit>>

Voice == Speak \/ GateWait \/ Spoken

(***************************************************************************)
(* The completion thread: _resume_after_completion.                        *)
(***************************************************************************)

\* job.wait: the job has ended, or the timeout has come first.
JobEnded ==
    /\ pc.completion = "wait" /\ job \in {"ok", "failed"}
    /\ Goto("completion", "judge")
    /\ UNCHANGED <<wire, client, work, exit>>

JobTimeout ==
    /\ pc.completion = "wait" /\ job \notin {"ok", "failed"}
    /\ Goto("completion", IF Hackathon THEN "recover" ELSE "abort")
    /\ UNCHANGED <<wire, client, work, exit>>

\* recover_after_timeout asks the resident over the channel a running motion holds:
\* SAFE needs the channel free and the arms released.
RecoverSafe ==
    /\ pc.completion = "recover" /\ pc.worker # "moving" /\ ~arms
    /\ Goto("completion", "start")
    /\ UNCHANGED <<wire, client, work, exit>>

RecoverUnsafe ==
    /\ pc.completion = "recover" /\ Goto("completion", "abort")
    /\ UNCHANGED <<wire, client, work, exit>>

\* ... and the patrol is resumed, without _wander_lock.
RecoverStart ==
    /\ pc.completion = "start" /\ StartRequest("starting")
    /\ UNCHANGED <<client, work, exit>>

RecoverStarted ==
    /\ pc.completion = "starting"
    /\ \/ Answered("completion", "yes") /\ owned' = FALSE /\ Goto("completion", "none")
       \/ Answered("completion", "no") /\ UNCHANGED owned /\ Goto("completion", "abort")
    /\ UNCHANGED <<failed, work, exit>>

\* Mutant: the voice is not asked for.
SuccessfulWithoutVoice ==
    CASE motion = "recoverable" -> Hackathon
      [] motion = "miss"        -> AllowMiss /\ job = "ok"
      [] OTHER                  -> motion = "good" /\ job = "ok"

\* What lets the patrol go on: the job, the motion and the voice all confirmed, or
\* one of the two overrides of the attended profile.
Successful ==
    CASE motion = "recoverable" -> Hackathon /\ spoke = "yes"
      [] motion = "miss"        -> AllowMiss /\ job = "ok" /\ spoke = "yes"
      [] OTHER                  -> motion = "good" /\ job = "ok" /\ spoke = "yes"

Judge ==
    /\ pc.completion = "judge"
    /\ Goto("completion", IF ~Successful THEN "abort"
                          ELSE IF closing THEN "none" ELSE "lock")
    /\ UNCHANGED <<wire, client, work, exit>>

\* Under _wander_lock the flag is read again before start().
Resume ==
    /\ pc.completion = "lock" /\ lock = "free"
    /\ IF closing
       THEN Goto("completion", "none") /\ UNCHANGED <<wire, lock>>
       ELSE /\ StartRequest("resuming")
            /\ lock' = IF pc'.completion = "resuming" THEN "completion" ELSE "free"
    /\ UNCHANGED <<client, work, closing, shutdown>>

Resumed ==
    /\ pc.completion = "resuming" /\ lock' = "free"
    /\ \/ Answered("completion", "yes") /\ owned' = FALSE /\ Goto("completion", "none")
       \/ Answered("completion", "no") /\ UNCHANGED owned /\ Goto("completion", "abort")
    /\ UNCHANGED <<failed, work, closing, shutdown>>

Abort ==
    /\ pc.completion = "abort" /\ AbortRequest("completion", "aborting")
    /\ UNCHANGED <<work, exit>>

Aborted ==
    /\ pc.completion = "aborting" /\ AbortReply("completion")
    /\ Goto("completion", "none")
    /\ UNCHANGED <<work, exit>>

Completion ==
    \/ JobEnded \/ JobTimeout \/ RecoverSafe \/ RecoverUnsafe \/ RecoverStart
    \/ RecoverStarted \/ Judge \/ Resume \/ Resumed \/ Abort \/ Aborted

Wire == Serve \/ PatrolStops \/ ServerCloses \/ \E c \in Clients : GiveUp(c)

Next == Camera \/ Worker \/ Voice \/ Completion \/ Wire

Spec == Init /\ [][Next]_vars

(***************************************************************************)
(* Properties.                                                             *)
(***************************************************************************)

\* Every variable keeps to its set, no thread is at a label it cannot be at, and a
\* client waits exactly while it holds one connection open to a living server.
LabelTypes ==
    pc \in [camera : {"look", "poll", "ask", "closeLock", "closeAbort", "closeEngine",
                      "join", "done"},
            worker : {"idle", "play", "pausing", "ready1", "readying1", "preflight",
                      "ready2", "readying2", "release", "awaitVoice", "act", "moving",
                      "gateFail", "gateAbort", "listen", "listenFailed"},
            voice : {"idle", "entered", "waiting", "playing", "said", "mute", "cancelled"},
            completion : {"none", "wait", "recover", "start", "starting", "judge",
                          "lock", "resuming", "abort", "aborting"}]
WireTypes ==
    /\ answer \in [Clients -> {"none", "waiting", "yes", "no"}]
    /\ queue \in Seq([from : Clients, op : Ops, live : BOOLEAN])
    /\ server \in {"up", "dead", "gone"} /\ patrol \in {"going", "paused", "stopped"}
WaitingIsConnected ==
    server = "up" => \A c \in Clients :
        answer[c] = "waiting" <=> \E i \in DOMAIN queue : queue[i].from = c /\ queue[i].live
FlagTypes ==
    /\ owned \in BOOLEAN /\ failed \in BOOLEAN /\ disabled \in BOOLEAN /\ arms \in BOOLEAN
    /\ closing \in BOOLEAN /\ shutdown \in BOOLEAN
WordTypes ==
    /\ job \in {"none", "queued", "running", "ok", "failed"}
    /\ gate \in {"none", "shut", "open", "cancelled"} /\ spoke \in {"unset", "yes", "no"}
    /\ motion \in {"unset", "good", "miss", "recoverable", "failed"}
    /\ lock \in {"free", "camera", "completion"}
TypeOK ==
    /\ LabelTypes /\ WireTypes /\ WaitingIsConnected /\ FlagTypes /\ WordTypes
    /\ jobs \in 0..MaxJobs

\* The arms move, and carry weight, only while the patrol stands still: the pause
\* taken by the reaction is not released under a motion, whichever thread resumes.
ArmsOnlyWhileHeld == arms => patrol # "going"

\* A pause the client believes it owns is in force, or its release has just been
\* confirmed to the thread that is about to give it up.
OwnershipIsReal ==
    owned /\ pc.camera # "done" =>
             \/ patrol # "going"
             \/ pc.completion \in {"starting", "resuming"} /\ answer["completion"] = "yes"

\* A stop has been asked for and will still be carried out.
StopComing == \E i \in DOMAIN queue : queue[i].op = "stop"

\* Once the fault is latched the patrol is stopped for good or its stop is on the
\* way: no abort is lost, whatever else waits on the socket.
AbortIsFinal == failed => patrol = "stopped" \/ StopComing

\* The job, its motion and its voice have all been confirmed, with the worker at rest.
Earned ==
    /\ job = "ok" /\ spoke = "yes"
    /\ motion = "good" \/ (motion = "miss" /\ AllowMiss)
    /\ pc.worker = "idle" /\ ~arms

\* The patrol is resumed only after the job, its motion and its voice have all been
\* confirmed, with the worker at rest: an uncertain reaction is never resumed from.
ResumeIsEarned ==
    [][patrol = "paused" /\ patrol' = "going" => Earned]_vars

(***************************************************************************)
(* Fairness: every thread is scheduled, a motion and a voice end, the      *)
(* server serves while its thread lives, and a socket's timeout fires.     *)
(* Nobody has to trigger, to close, or to stop the patrol.                 *)
(***************************************************************************)

CameraGoesOn == Polled \/ NotEligible \/ Accept \/ CloseAborted \/ CloseEngine \/ Join

FairSpec ==
    /\ Spec
    /\ WF_vars(CameraGoesOn)
    /\ SF_vars(CloseInterlock)
    /\ WF_vars(Worker) /\ WF_vars(Voice)
    /\ WF_vars(Completion /\ ~Resume) /\ SF_vars(Resume)
    /\ WF_vars(Serve)
    /\ \A c \in Clients : WF_vars(GiveUp(c))

\* No reaction leaves the patrol standing for ever: it is resumed or stopped.
PauseEnds == patrol = "paused" ~> patrol # "paused"

\* Every reaction ends, so the camera loop can accept the next one: no thread waits
\* for another that waits for it, through the gate, the lock or the socket.
ReactionEnds == CompletionAlive ~> ~Busy

\* Closing ends too, whatever the other threads were doing.
CloseEnds == closing ~> pc.camera = "done"
===============================================================================
