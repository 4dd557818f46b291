---------------------------- MODULE ReactionEngine ----------------------------
(***************************************************************************)
(* The reaction engine shared by the bottle/stealth app and the viewer.    *)
(* The camera thread and, in the app, the audio thread hand events to      *)
(* handle(); a worker runs the accepted jobs one by one, motion on itself  *)
(* and speech on an executor with one thread; the camera thread closes     *)
(* the engine at the end.  The stealth app closes by draining the queue,   *)
(* the viewer by cancelling it; only the app has a lifecycle observer.     *)
(*                                                                         *)
(* Time counts in cooldowns: two events are within the cooldown when they  *)
(* carry the same stamp.  It passes where it is read.                      *)
(***************************************************************************)
EXTENDS Integers, Sequences, FiniteSets

CONSTANTS CustomNotice,  \* --enable-custom-notice-reaction
          MaxInputs,     \* bound: camera frames with an event and music starts
          MaxClock       \* bound: cooldowns that pass

ASSUME EngineAssumption ==
    /\ CustomNotice \in BOOLEAN
    /\ MaxInputs \in Nat /\ MaxClock \in Nat

VARIABLES clock,
          game,       \* GameState of the stealth game
          pc,         \* where the camera and the audio thread are
          stamp,      \* now of the event each of them handles
          todo,       \* the events each of them has still to dispatch
          mine,       \* the job each of them has made
          lastAt, lastPriority,
          queue,      \* _queue: jobs and the sentinel Stop
          worker,     \* self._worker is not None
          shutdown,   \* _shutdown_requested
          executor,   \* the audio executor takes work
          at, job,    \* the step each executing thread is in, and its job
          motionFailed,
          speech,     \* what became of the speech of each job
          state,      \* ReactionJob.state
          told,       \* history: the last observer call about each job
          event,      \* the event of each job
          jobs,       \* jobs made so far
          robotClosed, inputs,
          viewer,     \* the viewer; otherwise the stealth app with navigation
          gaveUp      \* history: a join(timeout=5) gave up on a thread that was busy

sources   == <<game, pc, stamp, todo, mine, inputs>>
decision  == <<lastAt, lastPriority>>
execution == <<at, job, motionFailed, speech>>
records   == <<state, told, event, jobs>>
closing   == <<worker, shutdown, executor, robotClosed, viewer, gaveUp>>
vars == <<clock, sources, decision, queue, execution, records, closing>>

Sources  == {"camera", "audio"}
Runners  == {"worker", "audio"}    \* the audio thread when there is no worker any more
Stop     == 0                      \* the sentinel None
Jobs     == 1..(2 * MaxInputs)
Audio    == ~viewer
Observed == ~viewer

\* priority and bypass_cooldown of config/default.yaml
Priority == [FOUND |-> 20, MUSIC_STARTED |-> 10, SUSPICION_STARTED |-> 40,
             RETURNED_TO_UNAWARE |-> 35, PLAYER_FOUND |-> 100]
Bypass   == {"SUSPICION_STARTED", "RETURNED_TO_UNAWARE", "PLAYER_FOUND"}

Init ==
    /\ clock = 0 /\ game = "UNAWARE"
    /\ pc = [t \in Sources |-> "idle"] /\ stamp = [t \in Sources |-> 0]
    /\ todo = [t \in Sources |-> <<>>] /\ mine = [t \in Sources |-> Stop]
    /\ lastAt = -1 /\ lastPriority = 0
    /\ queue = <<>> /\ worker = TRUE /\ shutdown = FALSE /\ executor = TRUE
    /\ at = [e \in Runners |-> "get"] /\ job = [e \in Runners |-> Stop]
    /\ motionFailed = [e \in Runners |-> FALSE]
    /\ speech = [j \in Jobs |-> "none"] /\ state = [j \in Jobs |-> "none"]
    /\ told = [j \in Jobs |-> "none"] /\ event = [j \in Jobs |-> "none"]
    /\ jobs = 0 /\ robotClosed = FALSE /\ inputs = 0
    /\ viewer \in BOOLEAN /\ gaveUp = FALSE

Goto(t, to) == pc' = [pc EXCEPT ![t] = to]
Done(j) == state[j] \in {"COMPLETED", "FAILED"}

(***************************************************************************)
(* Where the events come from.                                             *)
(***************************************************************************)

\* The camera reads a frame; the viewer asks for none while a job is under way.
Read ==
    /\ pc["camera"] = "idle" /\ inputs < MaxInputs
    /\ viewer => \A j \in 1..jobs : Done(j)
    /\ clock' \in clock..MaxClock /\ stamp' = [stamp EXCEPT !["camera"] = clock']
    /\ Goto("camera", "update") /\ inputs' = inputs + 1
    /\ UNCHANGED <<game, todo, mine, decision, queue, execution, records, closing>>

\* The game update of the frame, or the confirmed detection of the viewer, and the events
\* it gives rise to; a frame may give none.
Moves == IF viewer THEN {[from |-> "UNAWARE", to |-> "UNAWARE", events |-> <<"FOUND">>]}
         ELSE {[from |-> "UNAWARE",    to |-> "SUSPICIOUS", events |-> <<"SUSPICION_STARTED">>],
               [from |-> "UNAWARE",    to |-> "FOUND",      events |-> <<"SUSPICION_STARTED", "PLAYER_FOUND">>],
               [from |-> "SUSPICIOUS", to |-> "FOUND",      events |-> <<"PLAYER_FOUND">>],
               [from |-> "SUSPICIOUS", to |-> "UNAWARE",    events |-> <<"RETURNED_TO_UNAWARE">>],
               [from |-> "FOUND",      to |-> "UNAWARE",    events |-> <<>>]}
Update ==
    /\ pc["camera"] = "update"
    /\ \E m \in Moves :
        /\ m.from = game /\ game' = m.to
        /\ todo' = [todo EXCEPT !["camera"] = m.events]
    /\ Goto("camera", "decide")
    /\ UNCHANGED <<clock, stamp, mine, inputs, decision, queue, execution, records, closing>>

\* A chunk with which music starts; the monitor stamps it when it is submitted.
Chunk ==
    /\ Audio /\ pc["audio"] = "idle" /\ inputs < MaxInputs
    /\ pc["camera"] \in {"idle", "update", "decide", "accept", "enqueue"}
    /\ clock' \in clock..MaxClock /\ stamp' = [stamp EXCEPT !["audio"] = clock']
    /\ todo' = [todo EXCEPT !["audio"] = <<"MUSIC_STARTED">>]
    /\ Goto("audio", "check") /\ inputs' = inputs + 1
    /\ UNCHANGED <<game, mine, decision, queue, execution, records, closing>>

\* _allow_audio_reaction: the game's state is read outside every lock.
Check ==
    /\ pc["audio"] = "check"
    /\ IF game = "UNAWARE" THEN Goto("audio", "decide") /\ UNCHANGED todo
       ELSE Goto("audio", "idle") /\ todo' = [todo EXCEPT !["audio"] = <<>>]
    /\ UNCHANGED <<clock, game, stamp, mine, inputs, decision, queue, execution, records, closing>>

NoMoreEvents(t) ==
    /\ pc[t] = "decide" /\ todo[t] = <<>>
    /\ Goto(t, "idle")
    /\ UNCHANGED <<clock, game, stamp, todo, mine, inputs, decision, queue, execution, records, closing>>

(***************************************************************************)
(* handle()                                                                *)
(***************************************************************************)

Rejects(t) ==
    LET e == Head(todo[t]) IN
    \/ shutdown
    \/ /\ stamp[t] - lastAt < 1
       /\ e \notin Bypass
       /\ Priority[e] <= lastPriority

\* Under _decision_lock, and the job that follows from it.
Decide(t) ==
    /\ pc[t] = "decide" /\ todo[t] # <<>>
    /\ todo' = [todo EXCEPT ![t] = Tail(@)]
    /\ IF Rejects(t) THEN UNCHANGED <<pc, mine, decision, records>>
       ELSE /\ lastAt' = stamp[t] /\ lastPriority' = Priority[Head(todo[t])]
            /\ jobs' = jobs + 1 /\ mine' = [mine EXCEPT ![t] = jobs + 1]
            /\ state' = [state EXCEPT ![jobs + 1] = "ACCEPTED"]
            /\ event' = [event EXCEPT ![jobs + 1] = Head(todo[t])]
            /\ UNCHANGED told
            /\ Goto(t, IF Observed THEN "accept" ELSE "enqueue")
    /\ UNCHANGED <<clock, game, stamp, inputs, queue, execution, closing>>

\* on_accepted: when it raises the job has failed, and nothing is queued.
Accept(t) ==
    /\ pc[t] = "accept"
    /\ \/ told' = [told EXCEPT ![mine[t]] = "accepted"] /\ Goto(t, "enqueue") /\ UNCHANGED state
       \/ /\ told' = [told EXCEPT ![mine[t]] = "refused"]
          /\ state' = [state EXCEPT ![mine[t]] = "FAILED"] /\ Goto(t, "decide")
    /\ UNCHANGED <<clock, game, stamp, todo, mine, inputs, event, jobs,
                   decision, queue, execution, closing>>

\* Without a worker the job runs on the caller's thread.
Enqueue(t) ==
    /\ pc[t] = "enqueue"
    /\ IF ~worker
       THEN /\ Goto(t, "inline") /\ UNCHANGED <<queue, state>>
            /\ at' = [at EXCEPT ![t] = "before"] /\ job' = [job EXCEPT ![t] = mine[t]]
       ELSE /\ Goto(t, "decide") /\ UNCHANGED <<at, job>>
            /\ IF shutdown THEN state' = [state EXCEPT ![mine[t]] = "FAILED"] /\ UNCHANGED queue
               ELSE queue' = Append(queue, mine[t]) /\ UNCHANGED state
    /\ UNCHANGED <<clock, game, stamp, todo, mine, inputs, decision, motionFailed, speech,
                   told, event, jobs, closing>>

(***************************************************************************)
(* _execute_job, on the worker or inline.                                  *)
(***************************************************************************)

Step(e, from, to) == at[e] = from /\ at' = [at EXCEPT ![e] = to]

\* The worker's loop: a sentinel ends it.
Get ==
    /\ at["worker"] = "get" /\ queue # <<>>
    /\ queue' = Tail(queue)
    /\ job' = [job EXCEPT !["worker"] = Head(queue)]
    /\ at' = [at EXCEPT !["worker"] = IF Head(queue) = Stop THEN "gone" ELSE "before"]
    /\ UNCHANGED <<clock, sources, decision, motionFailed, speech, records, closing>>

\* before_start, which raises when the patrol did not stop, and on_started.
Start(e) ==
    /\ \/ /\ Step(e, "before", "outputs")
          /\ state' = [state EXCEPT ![job[e]] = "STARTED"]
          /\ told' = IF Observed THEN [told EXCEPT ![job[e]] = "started"] ELSE told
       \/ Observed /\ Step(e, "before", "failed") /\ UNCHANGED <<state, told>>
    /\ motionFailed' = [motionFailed EXCEPT ![e] = FALSE]
    /\ UNCHANGED <<clock, sources, decision, queue, job, speech, event, jobs, closing>>

IsCustom(j) == CustomNotice /\ event[j] = "SUSPICION_STARTED"

\* _submit_speech: returns when the executor's thread is in the branch, and raises when
\* the executor is shut down.
Outputs(e) ==
    /\ at[e] = "outputs"
    /\ IF shutdown THEN Step(e, "outputs", "failed") /\ UNCHANGED speech
       ELSE IF IsCustom(job[e]) THEN Step(e, "outputs", "custom") /\ UNCHANGED speech
       ELSE /\ Step(e, "outputs", "motion")
            /\ speech' = [speech EXCEPT ![job[e]] = IF executor THEN "delay" ELSE "error"]
    /\ UNCHANGED <<clock, sources, decision, queue, job, motionFailed, records, closing>>

\* The branch on the executor's thread: the delay, the look at the flag, speak().
Speak(j) ==
    /\ \/ speech[j] = "delay"
          /\ speech' = [speech EXCEPT ![j] = IF shutdown THEN "error" ELSE "speaking"]
       \/ speech[j] = "speaking" /\ \E r \in {"done", "error"} : speech' = [speech EXCEPT ![j] = r]
    /\ UNCHANGED <<clock, sources, decision, queue, at, job, motionFailed, records, closing>>

Motion(e) ==
    /\ IF shutdown
       THEN Step(e, "motion", "join") /\ motionFailed' = [motionFailed EXCEPT ![e] = TRUE]
       ELSE Step(e, "motion", "moving") /\ UNCHANGED motionFailed
    /\ UNCHANGED <<clock, sources, decision, queue, job, speech, records, closing>>

MotionEnds(e) ==
    /\ Step(e, "moving", "join")
    /\ \E failed \in BOOLEAN : motionFailed' = [motionFailed EXCEPT ![e] = failed]
    /\ UNCHANGED <<clock, sources, decision, queue, job, speech, records, closing>>

\* future.result() of the audio branch, and the errors of both.
JoinSpeech(e) ==
    /\ at[e] = "join" /\ speech[job[e]] \in {"done", "error"}
    /\ Step(e, "join",
            IF motionFailed[e] \/ speech[job[e]] = "error" \/ shutdown THEN "failed" ELSE "confirm")
    /\ UNCHANGED <<clock, sources, decision, queue, job, motionFailed, speech, records, closing>>

\* custom_notice: the motion starts, is refused or raises; the speech of a started one
\* is played on this thread.
Custom(e) ==
    /\ \/ Step(e, "custom", "speaking") /\ speech' = [speech EXCEPT ![job[e]] = "delay"]
       \/ \E to \in {"confirm", "failed"} : Step(e, "custom", to) /\ UNCHANGED speech
    /\ UNCHANGED <<clock, sources, decision, queue, job, motionFailed, records, closing>>

CustomSpeech(e) ==
    /\ at[e] = "speaking" /\ speech[job[e]] \in {"done", "error"}
    /\ Step(e, "speaking", IF speech[job[e]] = "error" THEN "failed" ELSE "confirm")
    /\ UNCHANGED <<clock, sources, decision, queue, job, motionFailed, speech, records, closing>>

\* With an observer the adapter has to confirm the motion.
Confirm(e) ==
    /\ \/ Step(e, "confirm", "completing")
       \/ Observed /\ Step(e, "confirm", "failed")
    /\ UNCHANGED <<clock, sources, decision, queue, job, motionFailed, speech, records, closing>>

Leaves(e) ==
    /\ at' = [at EXCEPT ![e] = "get"]
    /\ IF e = "worker" THEN UNCHANGED pc ELSE Goto("audio", "decide")
    /\ UNCHANGED <<clock, game, stamp, todo, mine, inputs, decision, queue, job,
                   motionFailed, speech, event, jobs, closing>>

\* The observer first, the job's waiters after it.
Told(e, call) ==
    /\ at[e] = call /\ told[job[e]] # call
    /\ Observed
    /\ told' = [told EXCEPT ![job[e]] = call]
    /\ UNCHANGED <<clock, sources, decision, queue, execution, state, event, jobs, closing>>

Mark(e, call, mark) ==
    /\ at[e] = call /\ (Observed => told[job[e]] = call)
    /\ state' = [state EXCEPT ![job[e]] = mark] /\ UNCHANGED told
    /\ Leaves(e)

Completes(e) == Told(e, "completing") \/ Mark(e, "completing", "COMPLETED")

\* Mutant: the waiters are not woken after a failure.
FailsUnmarked(e) ==
    /\ at[e] = "failed" /\ UNCHANGED <<state, told>> /\ Leaves(e)

Fails(e) == Told(e, "failed") \/ Mark(e, "failed", "FAILED")

Execute(e) == \/ Start(e) \/ Outputs(e) \/ Motion(e) \/ MotionEnds(e) \/ JoinSpeech(e)
              \/ Custom(e) \/ CustomSpeech(e) \/ Confirm(e) \/ Completes(e) \/ Fails(e)

(***************************************************************************)
(* close(), on the camera thread.                                          *)
(***************************************************************************)

Still == <<clock, game, stamp, todo, mine, inputs, decision, execution>>

\* The loop ends; the app first stops its audio monitor and joins its thread, the viewer
\* sets the flag first (and tells the robot adapter to start nothing more).
Close ==
    /\ pc["camera"] = "idle" /\ Goto("camera", IF Audio THEN "stopping" ELSE "cancel")
    /\ shutdown' = viewer
    /\ UNCHANGED <<Still, queue, records, worker, executor, robotClosed, viewer, gaveUp>>

JoinAudio ==
    /\ pc["camera"] = "stopping" /\ Goto("camera", "drain")
    /\ gaveUp' = (pc["audio"] # "idle")
    /\ UNCHANGED <<Still, queue, records, worker, shutdown, executor, robotClosed, viewer>>

\* _cancel_pending_jobs, under _decision_lock.
Cancel ==
    /\ pc["camera"] = "cancel" /\ Goto("camera", "drain")
    /\ state' = [j \in Jobs |-> IF \E i \in DOMAIN queue : queue[i] = j THEN "FAILED" ELSE state[j]]
    /\ queue' = <<>>
    /\ UNCHANGED <<Still, told, event, jobs, closing>>

\* Mutant: without queue.join().
DrainNot ==
    /\ pc["camera"] = "drain" /\ Goto("camera", "sentinel")
    /\ UNCHANGED <<Still, queue, records, closing>>

\* queue.join(), which has no timeout, and the sentinel after it.
Drain ==
    /\ pc["camera"] = "drain" /\ queue = <<>> /\ at["worker"] = "get"
    /\ Goto("camera", "sentinel")
    /\ UNCHANGED <<Still, queue, records, closing>>

Sentinel ==
    /\ pc["camera"] = "sentinel" /\ Goto("camera", "joinWorker")
    /\ queue' = Append(queue, Stop)
    /\ UNCHANGED <<Still, records, closing>>

JoinWorker ==
    /\ pc["camera"] = "joinWorker"
    /\ at["worker"] # "get" /\ gaveUp' = (gaveUp \/ at["worker"] # "gone")
    /\ Goto("camera", "shutdown") /\ worker' = FALSE
    /\ UNCHANGED <<Still, queue, records, shutdown, executor, robotClosed, viewer>>

ShutExecutor ==
    /\ pc["camera"] = "shutdown" /\ Goto("camera", "speech") /\ executor' = FALSE
    /\ UNCHANGED <<Still, queue, records, worker, shutdown, robotClosed, viewer, gaveUp>>

CloseRobot ==
    /\ pc["camera"] = "speech"
    /\ \A j \in Jobs : speech[j] \in {"delay", "speaking"} => IsCustom(j)
    /\ Goto("camera", "closed") /\ robotClosed' = TRUE
    /\ UNCHANGED <<Still, queue, records, worker, shutdown, executor, viewer, gaveUp>>

Camera == \/ Update \/ NoMoreEvents("camera") \/ Decide("camera") \/ Accept("camera")
          \/ Enqueue("camera")
Music  == \/ Check \/ NoMoreEvents("audio") \/ Decide("audio") \/ Accept("audio")
          \/ Enqueue("audio") \/ Execute("audio")
Closes == \/ JoinAudio \/ Cancel \/ Drain \/ Sentinel \/ JoinWorker \/ ShutExecutor \/ CloseRobot
Worker == Get \/ Execute("worker")
Speech == \E j \in Jobs : Speak(j)

Next == \/ Read \/ Chunk \/ Close
        \/ Camera \/ Music \/ Closes \/ Worker \/ Speech

Spec == Init /\ [][Next]_vars
\* Each thread goes on; that frames or chunks come, or that the user quits, is nobody's duty.
FairSpec == Spec /\ WF_vars(Camera) /\ WF_vars(Music) /\ WF_vars(Closes) /\ WF_vars(Worker)
                 /\ WF_vars(Speech)

(***************************************************************************)
(* Properties.                                                             *)
(***************************************************************************)

\* Every variable has its type.
LabelTypes ==
    /\ clock \in 0..MaxClock /\ game \in {"UNAWARE", "SUSPICIOUS", "FOUND"}
    /\ pc["audio"] \in {"idle", "check", "decide", "accept", "enqueue", "inline"}
    /\ pc["camera"] \in {"idle", "update", "decide", "accept", "enqueue", "stopping", "cancel",
                         "drain", "sentinel", "joinWorker", "shutdown", "speech", "closed"}
DecisionTypes ==
    /\ stamp \in [Sources -> 0..MaxClock] /\ mine \in [Sources -> 0..jobs]
    /\ lastAt \in -1..MaxClock /\ lastPriority \in Nat
QueueTypes == queue \in Seq({Stop} \cup Jobs) /\ Len(queue) <= jobs + 1
JobTypes ==
    /\ job \in [Runners -> 0..jobs] /\ motionFailed \in [Runners -> BOOLEAN]
    /\ speech \in [Jobs -> {"none", "delay", "speaking", "done", "error"}]
    /\ state \in [Jobs -> {"none", "ACCEPTED", "STARTED", "COMPLETED", "FAILED"}]
    /\ told \in [Jobs -> {"none", "accepted", "refused", "started", "completing", "failed"}]
TypeOK == LabelTypes /\ DecisionTypes /\ QueueTypes /\ JobTypes

Executing == {e \in Runners : at[e] \notin {"get", "gone"}}

\* Motions and speech of two reactions never overlap, whichever thread runs them: "motion
\* and speech run in order, not at the same time" (README), through a late audio thread
\* and the joins that give up as well.
OneReactionAtATime ==
    /\ Cardinality(Executing) <= 1
    /\ \A j \in Jobs : speech[j] \in {"delay", "speaking"} => \E e \in Executing : job[e] = j

\* A job that has ended, by cancellation too, is over: it is neither queued nor run, and
\* its observer has done its safety work for it before the job's waiters wake.
EndedJobsAreOver ==
    \A j \in Jobs : Done(j) =>
        /\ \A i \in DOMAIN queue : queue[i] # j
        /\ \A e \in Executing : job[e] # j
        /\ Observed => told[j] \in {"refused", IF state[j] = "COMPLETED" THEN "completing" ELSE "failed"}

\* Once the robot is closed nothing moves, nothing speaks and nothing is about to, unless
\* a join has given up on a thread that was still busy.
QuietAfterClose == robotClosed /\ ~gaveUp => Executing = {} /\ \A i \in DOMAIN queue : queue[i] = Stop

\* Every accepted job ends, however the engine is closed; one a late thread accepts after
\* a join has given up on it may not.
EveryJobEnds == []<>(gaveUp \/ \A j \in 1..jobs : state[j] # "none" => Done(j))

\* close() returns: none of its waits is for something that waits for it.
CloseReturns == (pc["camera"] \in {"stopping", "cancel"}) ~> robotClosed

\* The finding of the enemy is never dropped: what dispatches it ends in a job for it.
PlayerFoundIsPlayed ==
    (pc["camera"] = "decide" /\ todo["camera"] # <<>> /\ Head(todo["camera"]) = "PLAYER_FOUND")
        ~> gaveUp \/ \E j \in Jobs : event[j] = "PLAYER_FOUND" /\ Done(j)

\* "Music reactions are accepted only while the game is UNAWARE" (docs/STEALTH_GAME.md:25).
MusicOnlyUnaware ==
    [][\A j \in Jobs : event'[j] = "MUSIC_STARTED" /\ event[j] = "none" => game = "UNAWARE"]_vars

\* Well typed; one reaction at a time, none after its end, none after the close.
EngineInv == TypeOK /\ OneReactionAtATime /\ EndedJobsAreOver /\ QuietAfterClose

\* Nothing waits for ever: no job, no close, and not the player's being found.
EngineEnds == EveryJobEnds /\ CloseReturns /\ PlayerFoundIsPlayed

=============================================================================
