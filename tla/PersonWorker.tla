----------------------------- MODULE PersonWorker -----------------------------
(***************************************************************************)
(* PersonWorker: a process looks at one camera frame at a time, and a      *)
(* coordinator thread feeds it the latest frame and publishes the result.  *)
(* The operator switches detection off and on (the key y) at any time, the *)
(* process may fail or hang, and close() ends both.                        *)
(***************************************************************************)
EXTENDS Naturals

CONSTANT MaxToggles \* bound: generations

VARIABLES coordinator, \* starting, waiting, looking, sending, receiving, over
          child,       \* the process: loading, ready, busy, answered, hung,
                       \* failed (it has sent its error), gone
          enabled, generation,
          read,        \* the generation the coordinator has read
          shot,        \* the generation in which the frame in hand was taken
          detection,   \* state: its status, and the shot of a result
          stopped,     \* the event stop
          closing      \* close(): no, terminating, killing, joining, closed

workerVars == <<coordinator, child, enabled, generation, read, shot, detection,
                stopped, closing>>
closeVars == <<stopped, closing>>

Status(s) == [status |-> s, shot |-> 0]

WorkerInit ==
    /\ coordinator = "starting" /\ child = "loading"
    /\ enabled = TRUE /\ generation = 0 /\ read = 0 /\ shot = 0
    /\ detection = Status("STARTING") /\ stopped = FALSE /\ closing = "no"

(* The process: it loads and warms up, answers one frame, or does not.     *)
Loads == child = "loading" /\ child' \in {"ready", "hung", "failed", "gone"}
Infers == child = "busy" /\ child' \in {"answered", "hung", "failed", "gone"}
ChildStep ==
    /\ Loads \/ Infers \/ (child = "failed" /\ child' = "gone")
    /\ UNCHANGED <<coordinator, enabled, generation, read, shot, detection, closeVars>>

(* _run: an exception ends the thread, and says so unless it was stopped.  *)
Dies ==
    /\ coordinator' = "over"
    /\ detection' = IF stopped THEN detection ELSE Status("ERROR")

\* _receive: an answer, or the end of the process or of the worker.
Failed == child \in {"failed", "gone"} \/ stopped
Ready ==
    /\ coordinator = "starting"
    /\ IF Failed THEN Dies
       ELSE /\ child = "ready" /\ coordinator' = "waiting"
            /\ detection' = IF enabled THEN Status("WAITING CAMERA") ELSE detection
    /\ UNCHANGED <<child, enabled, generation, read, shot, closeVars>>

Wait ==
    /\ coordinator = "waiting"
    /\ IF stopped THEN coordinator' = "over" /\ UNCHANGED read
       ELSE enabled /\ coordinator' = "looking" /\ read' = generation
    /\ UNCHANGED <<child, enabled, generation, shot, detection, closeVars>>

\* The latest frame, unless there is no new one or it is older than 0.5 s.
Look ==
    /\ coordinator = "looking"
    /\ \/ coordinator' = "sending" /\ shot' = generation
       \/ coordinator' = "waiting" /\ UNCHANGED shot
    /\ UNCHANGED <<child, enabled, generation, read, detection, closeVars>>

\* A frame is larger than the pipe: send() returns when the process reads.
SendFrame ==
    /\ coordinator = "sending"
    /\ IF child \in {"failed", "gone"} THEN Dies /\ UNCHANGED child
       ELSE child = "ready" /\ child' = "busy" /\ coordinator' = "receiving" /\ UNCHANGED detection
    /\ UNCHANGED <<enabled, generation, read, shot, closeVars>>

\* Mutant: a result is published whatever happened to the switch meanwhile.
PublishLate ==
    /\ coordinator = "receiving" /\ child = "answered" /\ ~stopped
    /\ child' = "ready" /\ coordinator' = "waiting"
    /\ detection' = IF enabled THEN [status |-> "RUNNING", shot |-> shot] ELSE detection
    /\ UNCHANGED <<enabled, generation, read, shot, closeVars>>

Publish ==
    /\ coordinator = "receiving" /\ child = "answered" /\ ~stopped
    /\ child' = "ready" /\ coordinator' = "waiting"
    /\ detection' = IF enabled /\ generation = read THEN [status |-> "RUNNING", shot |-> shot]
                    ELSE detection
    /\ UNCHANGED <<enabled, generation, read, shot, closeVars>>

NoAnswer ==
    /\ coordinator = "receiving" /\ Failed /\ Dies
    /\ UNCHANGED <<child, enabled, generation, read, shot, closeVars>>

Toggle ==
    /\ generation < MaxToggles /\ closing = "no"
    /\ enabled' = ~enabled /\ generation' = generation + 1
    /\ detection' = Status(IF ~enabled' THEN "OFF"
                           ELSE IF coordinator = "over" THEN "ERROR" ELSE "WAITING")
    /\ UNCHANGED <<coordinator, child, read, shot, closeVars>>

(* close(): terminate, wait, kill, wait, and join the thread for a while.  *)
Alive == child # "gone"
CloseWorker ==
    /\ closing = "no" /\ stopped' = TRUE
    /\ closing' = IF Alive THEN "terminating" ELSE "joining"
    /\ UNCHANGED <<coordinator, child, enabled, generation, read, shot, detection>>

\* Mutant: the process is not killed when it does not answer to a terminate.
TerminatedOnly ==
    /\ closing = "terminating" /\ closing' = "joining"
    /\ child' \in IF child = "hung" THEN {"hung", "gone"} ELSE {"gone"}
    /\ UNCHANGED <<coordinator, enabled, generation, read, shot, detection, stopped>>

\* A process that hangs may not answer to a terminate.
Terminated ==
    /\ closing = "terminating"
    /\ child' \in IF child = "hung" THEN {"hung", "gone"} ELSE {"gone"}
    /\ closing' = IF child' = "gone" THEN "joining" ELSE "killing"
    /\ UNCHANGED <<coordinator, enabled, generation, read, shot, detection, stopped>>
Killed ==
    /\ closing = "killing" /\ child' = "gone" /\ closing' = "joining"
    /\ UNCHANGED <<coordinator, enabled, generation, read, shot, detection, stopped>>
Joined ==
    /\ closing = "joining" /\ closing' = "closed"
    /\ UNCHANGED <<coordinator, child, enabled, generation, read, shot, detection, stopped>>

CoordinatorStep == Ready \/ Wait \/ Look \/ SendFrame \/ Publish \/ NoAnswer
CloseStep == Terminated \/ Killed \/ Joined
WorkerNext == ChildStep \/ CoordinatorStep \/ Toggle \/ CloseWorker \/ CloseStep
WorkerFairness ==
    WF_workerVars(CoordinatorStep) /\ WF_workerVars(CloseStep)
WorkerSpec == WorkerInit /\ [][WorkerNext]_workerVars /\ WorkerFairness
-----------------------------------------------------------------------------
(* What the camera loop takes for a detection comes from a frame that was  *)
(* picked up since detection was last switched on: neither a result on its *)
(* way nor a frame about to be picked up gets past the switch.             *)
DetectionIsOfNow == detection.status = "RUNNING" => enabled /\ detection.shot = generation

(* A hung process keeps neither close() nor the coordinator, which may be  *)
(* blocked in the middle of a frame, from ending.                          *)
WorkerEnds == stopped ~> (coordinator = "over" /\ child = "gone" /\ closing = "closed")
=============================================================================
