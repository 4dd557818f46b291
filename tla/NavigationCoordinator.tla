------------------------- MODULE NavigationCoordinator ------------------------
(***************************************************************************)
(* NavigationCoordinator between the reaction engine and a navigation      *)
(* backend: detectors accept reactions, the engine's worker pauses the     *)
(* patrol before a reaction's outputs and resumes it after the last, an    *)
(* operator starts, pauses, resumes and stops through the same             *)
(* coordinator, and the backend can lose its connection or fail.           *)
(*                                                                         *)
(* One action per call of the adapter and per body of _lock; the           *)
(* _navigation_lock is a variable, since calls of the adapter, a wait and  *)
(* other locks happen under it.                                            *)
(***************************************************************************)
EXTENDS Naturals, FiniteSets

CONSTANTS Jobs,         \* bound: the reactions that may be accepted
          NoJob,        \* None, where a job or its pause reason may be absent
          SlowPause,    \* the backend may acknowledge a pause before it is PAUSED
          MaxCommands   \* bound: operator commands and faults of the backend

ASSUME JobsAssumption == IsFiniteSet(Jobs) /\ NoJob \notin Jobs
ASSUME SlowPauseAssumption == SlowPause \in BOOLEAN
ASSUME MaxCommandsAssumption == MaxCommands \in Nat

VARIABLES nav,        \* the backend: its state, pause reason and whether it has a route
          asked,      \* the reason of a pause accepted but not yet in force
          job,        \* the life of each job
          worker,     \* where the engine's worker is
          current,    \* the job it executes
          operator,   \* where the operator's command is
          navLock,    \* the holder of _navigation_lock
          pending,    \* _pending_reactions
          owned,      \* _owned_pause_reason, by the job that gave it
          batchFailed,  \* _reaction_batch_failed
          expected,   \* local to on_completed: the reason it means to resume
          commands,   \* operator commands and faults so far
          spoiled     \* history: a failure, a fault or an operator's pause or stop
                      \* since the operator last set the patrol going

vars == <<nav, asked, job, worker, current, operator, navLock, pending, owned,
          batchFailed, expected, commands, spoiled>>
backend  == <<nav, asked>>
ledger   == <<pending, owned, batchFailed>>
engine   == <<job, worker, current, expected>>
commander == <<operator, commands>>

NavStates == {"IDLE", "PATROLLING", "PAUSED", "STOPPED", "DISCONNECTED", "ERROR"}
Reasons == Jobs \cup {NoJob, "operator"}
Commands == {"start_patrol", "pause", "resume", "stop"}

Nav(state, reason, route) == [state |-> state, reason |-> reason, route |-> route]
PausedFor(reason) == nav.state = "PAUSED" /\ nav.reason = reason

\* Where the operator is with a command: "asks" the adapter, "notes" its success.
At(place, command) == [at |-> place, command |-> command]
Nobody == At("idle", "none")

Init ==
    /\ nav = Nav("IDLE", NoJob, FALSE) /\ asked = NoJob
    /\ job = [j \in Jobs |-> "new"]
    /\ worker = "idle" /\ current = NoJob /\ expected = NoJob
    /\ operator = Nobody /\ commands = 0 /\ spoiled = FALSE
    /\ navLock = "free"
    /\ pending = 0 /\ owned = NoJob /\ batchFailed = FALSE

(***************************************************************************)
(* The adapter: which states let a command through, and to what.           *)
(***************************************************************************)

Allowed == [start_patrol |-> {"IDLE", "STOPPED"},
            pause        |-> {"PATROLLING", "PAUSED"},
            resume       |-> {"PAUSED"},
            stop         |-> {"IDLE", "PATROLLING", "PAUSED", "STOPPED"}]

\* A command the backend accepts.  A slow pause takes hold later: until it does the
\* patrol goes on.  Every other command overtakes it.  A resume needs a route.
Accepts(command, reason) ==
    /\ nav.state \in Allowed[command]
    /\ \/ /\ command = "pause"
          /\ \/ nav' = Nav("PAUSED", reason, nav.route) /\ asked' = NoJob
             \/ /\ SlowPause /\ nav.state = "PATROLLING"
                /\ asked' = reason /\ UNCHANGED nav
       \/ /\ command = "start_patrol" \/ (command = "resume" /\ nav.route)
          /\ nav' = Nav("PATROLLING", NoJob, TRUE) /\ asked' = NoJob
       \/ /\ command = "stop"
          /\ nav' = Nav("STOPPED", NoJob, FALSE) /\ asked' = NoJob

\* One it refuses: the adapter raises.
Refuses(command) ==
    /\ nav.state \notin Allowed[command] \/ (command = "resume" /\ ~nav.route)
    /\ UNCHANGED backend

PauseTakesHold ==
    /\ asked # NoJob /\ nav.state = "PATROLLING"
    /\ nav' = Nav("PAUSED", asked, nav.route) /\ asked' = NoJob
    /\ UNCHANGED <<engine, ledger, commander, navLock, spoiled>>

\* The connection is lost or the backend fails.
Fault ==
    /\ commands < MaxCommands /\ commands' = commands + 1
    /\ nav.state \notin {"DISCONNECTED", "ERROR"}
    /\ \E state \in {"DISCONNECTED", "ERROR"} : nav' = Nav(state, NoJob, nav.route)
    /\ asked' = NoJob /\ spoiled' = TRUE
    /\ UNCHANGED <<engine, ledger, operator, navLock>>

\* It comes back in a state that does not move and without a route.
Reconnect ==
    /\ nav.state \in {"DISCONNECTED", "ERROR"}
    /\ \E state \in {"IDLE", "PAUSED", "STOPPED"} : nav' = Nav(state, NoJob, FALSE)
    /\ UNCHANGED <<asked, engine, ledger, commander, navLock, spoiled>>

(***************************************************************************)
(* The detectors: ReactionEngine.handle.                                   *)
(***************************************************************************)

\* on_accepted counts the job ...
OnAccepted(j) ==
    /\ job[j] = "new" /\ operator.at # "closed"
    /\ job' = [job EXCEPT ![j] = "accepted"] /\ pending' = pending + 1
    /\ UNCHANGED <<backend, worker, current, expected, owned, batchFailed, commander, navLock, spoiled>>

\* ... before it is in the queue.
Enqueue(j) ==
    /\ job[j] = "accepted"
    /\ job' = [job EXCEPT ![j] = "queued"]
    /\ UNCHANGED <<backend, worker, current, expected, ledger, commander, navLock, spoiled>>

(***************************************************************************)
(* The worker.                                                             *)
(***************************************************************************)

Take(j) ==
    /\ worker = "idle" /\ job[j] = "queued"
    /\ job' = [job EXCEPT ![j] = "running"] /\ current' = j /\ worker' = "beforeStart"
    /\ UNCHANGED <<backend, ledger, expected, commander, navLock, spoiled>>

\* before_start: nothing to do unless the patrol goes and no pause is owned yet.  An
\* adapter without a connection may raise when it is asked for its status.
BeforeStart ==
    /\ worker = "beforeStart" /\ navLock = "free"
    /\ IF nav.state = "PATROLLING" /\ owned = NoJob
       THEN owned' = current /\ worker' = "pause" /\ navLock' = "worker"
       ELSE /\ UNCHANGED <<owned, navLock>>
            /\ worker' \in {"outputs"} \cup (IF nav.state = "DISCONNECTED" THEN {"failed"} ELSE {})
    /\ UNCHANGED <<backend, job, current, expected, pending, batchFailed, commander, spoiled>>

RequestPause ==
    /\ worker = "pause"
    /\ \/ Accepts("pause", current) /\ worker' = "waitPause" /\ UNCHANGED navLock
       \/ Refuses("pause") /\ worker' = "failed" /\ navLock' = "free"
    /\ UNCHANGED <<job, current, expected, ledger, commander, spoiled>>

\* Mutant: the reply to the pause is taken for the pause.
PauseAssumed ==
    /\ worker = "waitPause"
    /\ worker' = "outputs" /\ navLock' = "free"
    /\ UNCHANGED <<backend, job, current, expected, ledger, commander, spoiled>>

\* _wait_for_pause: PAUSED for our own reason; a terminal state or another reason
\* raises, and so does the deadline.
PauseConfirmed ==
    /\ worker = "waitPause" /\ PausedFor(current)
    /\ worker' = "outputs" /\ navLock' = "free"
    /\ UNCHANGED <<backend, job, current, expected, ledger, commander, spoiled>>

PauseNotConfirmed ==
    /\ worker = "waitPause" /\ ~PausedFor(current)
    /\ worker' = "failed" /\ navLock' = "free"
    /\ UNCHANGED <<backend, job, current, expected, ledger, commander, spoiled>>

\* The outputs and the confirmation of the motion's end succeed or raise.
Outputs ==
    /\ worker = "outputs" /\ worker' \in {"completed", "failed"}
    /\ UNCHANGED <<backend, job, current, expected, ledger, commander, navLock, spoiled>>

Ends(result) ==
    /\ job' = [job EXCEPT ![current] = result]
    /\ worker' = "idle" /\ current' = NoJob /\ expected' = NoJob

\* Mutant: a resume is considered with one reaction still pending, never with none.
OnCompletedEarly ==
    /\ worker = "completed"
    /\ pending' = pending - 1
    /\ IF pending = 0 /\ owned # NoJob /\ ~batchFailed
       THEN worker' = "resumeLock" /\ expected' = owned /\ UNCHANGED <<job, current>>
       ELSE Ends("completed")
    /\ UNCHANGED <<backend, owned, batchFailed, commander, navLock, spoiled>>

\* on_completed: the last of the pending reactions considers a resume.
OnCompleted ==
    /\ worker = "completed"
    /\ pending' = pending - 1
    /\ IF pending' = 0 /\ owned # NoJob /\ ~batchFailed
       THEN worker' = "resumeLock" /\ expected' = owned /\ UNCHANGED <<job, current>>
       ELSE Ends("completed")
    /\ UNCHANGED <<backend, owned, batchFailed, commander, navLock, spoiled>>

\* Under the lock the ownership is looked at again.
RecheckOwner ==
    /\ worker = "resumeLock" /\ navLock = "free"
    /\ IF owned = expected /\ ~batchFailed
       THEN worker' = "checkStatus" /\ navLock' = "worker" /\ UNCHANGED <<job, current, expected>>
       ELSE Ends("completed") /\ UNCHANGED navLock
    /\ UNCHANGED <<backend, ledger, commander, spoiled>>

\* The status must be PAUSED for that reason, connected and without an error.
CheckStatus ==
    /\ worker = "checkStatus"
    /\ IF PausedFor(expected)
       THEN worker' = "resume" /\ UNCHANGED navLock
       ELSE worker' = "inhibit" /\ navLock' = "free"
    /\ UNCHANGED <<backend, job, current, expected, ledger, commander, spoiled>>

Resume ==
    /\ worker = "resume" /\ navLock' = "free"
    /\ \/ Accepts("resume", NoJob) /\ worker' = "disown"
       \/ Refuses("resume") /\ worker' = "inhibit"
    /\ UNCHANGED <<job, current, expected, ledger, commander, spoiled>>

\* Neither branch holds _navigation_lock any more.
Disown ==
    /\ worker = "disown" /\ owned' = NoJob /\ Ends("completed")
    /\ UNCHANGED <<backend, pending, batchFailed, commander, navLock, spoiled>>

Inhibit ==
    /\ worker = "inhibit" /\ owned' = NoJob /\ batchFailed' = TRUE /\ Ends("completed")
    /\ spoiled' = TRUE
    /\ UNCHANGED <<backend, pending, commander, navLock>>

OnFailed ==
    /\ worker = "failed"
    /\ pending' = pending - 1 /\ owned' = NoJob /\ batchFailed' = TRUE
    /\ Ends("failed") /\ spoiled' = TRUE
    /\ UNCHANGED <<backend, commander, navLock>>

Worker ==
    \/ \E j \in Jobs : Take(j)
    \/ BeforeStart \/ RequestPause \/ PauseConfirmed \/ PauseNotConfirmed \/ Outputs
    \/ OnCompleted \/ RecheckOwner \/ CheckStatus \/ Resume \/ Disown \/ Inhibit
    \/ OnFailed

(***************************************************************************)
(* The operator, through the coordinator.                                  *)
(***************************************************************************)

Command(c) ==
    /\ operator = Nobody /\ navLock = "free" /\ commands < MaxCommands
    /\ operator' = At("asks", c) /\ navLock' = "operator" /\ commands' = commands + 1
    /\ UNCHANGED <<backend, engine, ledger, spoiled>>

\* The adapter carries it out, or raises and leaves the coordinator as it was.
Carry(c) ==
    /\ operator = At("asks", c)
    /\ \/ Accepts(c, "operator") /\ operator' = At("notes", c) /\ UNCHANGED navLock
       \/ Refuses(c) /\ operator' = Nobody /\ navLock' = "free"
    /\ UNCHANGED <<engine, ledger, commands, spoiled>>

\* What it means for a pause the coordinator owns and for the failure latch.
Note(c) ==
    /\ operator = At("notes", c) /\ operator' = Nobody /\ navLock' = "free"
    /\ owned' = NoJob
    /\ batchFailed' = (c = "stop" \/ (c = "pause" /\ batchFailed))
    /\ spoiled' = (c \in {"pause", "stop"})
    /\ UNCHANGED <<backend, engine, pending, commands>>

\* The application closes: the engine has drained its queue, then close() stops a
\* patrol that is going or paused.
Close ==
    /\ operator = Nobody /\ navLock = "free"
    /\ worker = "idle" /\ \A j \in Jobs : job[j] \notin {"accepted", "queued"}
    /\ operator' = At("closed", "none")
    /\ IF nav.state \in {"PATROLLING", "PAUSED"}
       THEN Accepts("stop", NoJob) /\ owned' = NoJob /\ batchFailed' = TRUE
       ELSE UNCHANGED <<backend, owned, batchFailed>>
    /\ UNCHANGED <<engine, pending, commands, navLock, spoiled>>

Operator == (\E c \in Commands : Command(c) \/ Carry(c) \/ Note(c)) \/ Close

Next ==
    \/ PauseTakesHold \/ Fault \/ Reconnect
    \/ \E j \in Jobs : OnAccepted(j) \/ Enqueue(j)
    \/ Worker \/ Operator

Spec == Init /\ [][Next]_vars

\* Threads that can run do: the worker, a detector that has counted its job, an
\* operator inside a command.
Fairness ==
    /\ WF_vars(Worker)
    /\ \A j \in Jobs : WF_vars(Enqueue(j))
    /\ \A c \in Commands : WF_vars(Carry(c)) /\ WF_vars(Note(c))

FairSpec == Spec /\ Fairness

(***************************************************************************)
(* Properties.                                                             *)
(***************************************************************************)

\* Every variable has its type.
BackendTypes ==
    nav \in [state : NavStates, reason : Reasons, route : BOOLEAN] /\ asked \in Reasons
EngineTypes ==
    /\ job \in [Jobs -> {"new", "accepted", "queued", "running", "completed", "failed"}]
    /\ worker \in {"idle", "beforeStart", "pause", "waitPause", "outputs", "completed",
                   "failed", "resumeLock", "checkStatus", "resume", "disown", "inhibit"}
    /\ current \in Jobs \cup {NoJob} /\ expected \in Jobs \cup {NoJob}
OperatorTypes ==
    /\ operator \in {Nobody, At("closed", "none")}
                    \cup {At(p, c) : p \in {"asks", "notes"}, c \in Commands}
    /\ navLock \in {"free", "worker", "operator"}
FlagTypes ==
    /\ owned \in Jobs \cup {NoJob}
    /\ batchFailed \in BOOLEAN /\ spoiled \in BOOLEAN
TypeOK ==
    /\ BackendTypes /\ EngineTypes /\ OperatorTypes /\ FlagTypes
    /\ pending \in 0..Cardinality(Jobs) /\ commands \in 0..MaxCommands

\* While a reaction's outputs run under a pause the coordinator owns, the patrol does
\* not move, however many reactions share that pause; only an operator command that
\* is still being noted can have moved it.
QuietOutputs ==
    worker = "outputs" /\ owned # NoJob /\ navLock # "operator"
        => nav.state # "PATROLLING"

\* The worker sets the patrol going only when nothing has forbidden it since the
\* operator last did: no failed reaction, no fault, no operator's pause or stop,
\* and with a pause that is still the one it owns.
AutoResumeIsEarned ==
    [][nav'.state = "PATROLLING" /\ nav.state # "PATROLLING" /\ navLock = "worker"
        => ~spoiled /\ PausedFor(owned)]_vars

\* "Resume only if all queued accepted reactions completed": no reaction is pending
\* when the worker sets the patrol going.
ResumesWithNothingPending ==
    [][nav'.state = "PATROLLING" /\ nav.state # "PATROLLING" /\ navLock = "worker"
        => pending = 0]_vars

\* A reaction that was accepted ends, through every lock and wait.
AcceptedEnds == \A j \in Jobs : job[j] = "accepted" ~> job[j] \in {"completed", "failed"}

\* A patrol paused for a reaction goes on again, unless something spoils it.
PatrolIsNotStranded ==
    nav.state = "PAUSED" /\ nav.reason \in Jobs ~> nav.state # "PAUSED" \/ spoiled

\* Well typed and quiet.
CoordinatorInv == TypeOK /\ QuietOutputs

\* No wait, lock or fault keeps a reaction from ending, and none of those that ended
\* leaves the patrol standing for it.
ReactionsEnd == AcceptedEnds /\ PatrolIsNotStranded

===============================================================================
