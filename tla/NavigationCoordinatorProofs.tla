---------------------- MODULE NavigationCoordinatorProofs ----------------------
(***************************************************************************)
(* For any number of reactions, operator commands and faults, with a       *)
(* backend that pauses at once or late: the types, that the outputs of a   *)
(* reaction run under an owned pause of a patrol that does not move, and   *)
(* that the worker sets the patrol going only out of the pause it owns.    *)
(***************************************************************************)
EXTENDS NavigationCoordinator, FiniteSetTheorems, TLAPS

\* _navigation_lock is held by the thread that is inside its body.
LockIsHeld ==
    /\ navLock = "worker" <=> worker \in {"pause", "waitPause", "checkStatus", "resume"}
    /\ navLock = "operator" <=> operator.at \in {"asks", "notes"}

\* The worker runs the one job that is running.
OneRuns ==
    /\ worker = "idle" <=> current = NoJob
    /\ \A j \in Jobs : job[j] = "running" <=> j = current

\* _pending_reactions counts the accepted jobs that on_completed or on_failed has not
\* counted off yet.
CountedOff == worker \in {"resumeLock", "checkStatus", "resume", "disown", "inhibit"}
Counted == {j \in Jobs : job[j] \in {"accepted", "queued"} \/ (job[j] = "running" /\ ~CountedOff)}
PendingIsCounted == pending = Cardinality(Counted)

\* A pause is owned from before it is asked for, and then stands for a patrol that does
\* not move, until it is given up or an operator's command is noted.
OwnedIsPaused ==
    /\ worker \in {"pause", "waitPause"} => owned = current
    /\ owned # NoJob /\ worker \notin {"pause", "waitPause", "failed", "disown"}
         /\ operator.at # "notes"
       => nav.state # "PATROLLING"

\* On the way to a resume the pause is still the one looked at, and no failure latches.
ResumesOwn ==
    /\ worker = "resumeLock" => expected # NoJob
    /\ worker \in {"checkStatus", "resume"} => expected # NoJob /\ owned = expected /\ ~batchFailed
    /\ worker = "resume" /\ nav.state = "PAUSED" /\ nav.route => nav.reason = expected

\* The inductive invariant.
IInv == TypeOK /\ LockIsHeld /\ OneRuns /\ PendingIsCounted /\ OwnedIsPaused /\ ResumesOwn

\* A backend that is made of its types, with the route it has, with one and with none.
NavRecords == [state : NavStates, reason : Reasons, route : BOOLEAN]

\* What the navigation backend reports stays a record of its states.
LEMMA NavType ==
  ASSUME BackendTypes, NEW state \in NavStates, NEW reason \in Reasons
  PROVE  /\ Nav(state, reason, nav.route) \in NavRecords
         /\ Nav(state, reason, TRUE) \in NavRecords /\ Nav(state, reason, FALSE) \in NavRecords
  BY DEF Nav, NavRecords, BackendTypes

\* What the adapter accepts leaves a backend of its types, and only a start or a resume
\* sets it going.
LEMMA AcceptsBackend ==
  ASSUME BackendTypes, NEW command \in Commands, NEW reason \in Reasons, Accepts(command, reason)
  PROVE  /\ BackendTypes'
         /\ command \in {"pause", "stop"} /\ nav.state # "PATROLLING" => nav'.state # "PATROLLING"
<1> DEFINE Quietly == command \in {"pause", "stop"} /\ nav.state # "PATROLLING"
                         => nav'.state # "PATROLLING"
<1>1. nav \in NavRecords /\ asked \in Reasons
  BY DEF BackendTypes, NavRecords
<1>2. NoJob \in Reasons /\ {"PAUSED", "PATROLLING", "STOPPED"} \subseteq NavStates
  BY DEF Reasons, NavStates
<1>3. ASSUME command = "pause" PROVE nav' \in NavRecords /\ asked' \in Reasons /\ Quietly
  <2>1. nav' \in NavRecords /\ asked' \in Reasons
    BY <1>1, <1>2, <1>3, NavType DEF Accepts
  <2>2. Quietly
    BY <1>3 DEF Accepts, Nav
  <2> QED BY <2>1, <2>2
<1>4. ASSUME command \in {"start_patrol", "resume"} PROVE nav' \in NavRecords /\ asked' \in Reasons /\ Quietly
  <2>1. nav' \in NavRecords /\ asked' \in Reasons
    BY <1>1, <1>2, <1>4, NavType DEF Accepts
  <2>2. Quietly
    BY <1>4 DEF Accepts, Nav
  <2> QED BY <2>1, <2>2
<1>5. ASSUME command = "stop" PROVE nav' \in NavRecords /\ asked' \in Reasons /\ Quietly
  <2>1. nav' \in NavRecords /\ asked' \in Reasons
    BY <1>1, <1>2, <1>5, NavType DEF Accepts
  <2>2. Quietly
    BY <1>5 DEF Accepts, Nav
  <2> QED BY <2>1, <2>2
<1>6. nav' \in NavRecords /\ asked' \in Reasons /\ Quietly
  BY <1>3, <1>4, <1>5 DEF Commands
<1> QED BY <1>6 DEF BackendTypes, NavRecords

\* The initial state.
LEMMA InitInv == Init => IInv
<1> SUFFICES ASSUME Init PROVE IInv
  OBVIOUS
<1> USE DEF Init, Nobody, At
<1>1. BackendTypes
  BY DEF BackendTypes, Nav, NavStates, Reasons
<1>2. EngineTypes
  BY DEF EngineTypes
<1>3. OperatorTypes /\ FlagTypes
  <2>1. OperatorTypes
    BY DEF OperatorTypes
  <2>2. FlagTypes
    BY DEF FlagTypes
  <2> QED BY <2>1, <2>2
<1>4. LockIsHeld /\ OwnedIsPaused /\ ResumesOwn
  BY DEF LockIsHeld, OwnedIsPaused, ResumesOwn, Nav
<1>5. OneRuns
  BY JobsAssumption DEF OneRuns, JobsAssumption
<1>6. PendingIsCounted
  <2>1. Counted = {}
    BY DEF Counted
  <2> QED BY <2>1, FS_EmptySet DEF PendingIsCounted
<1>7. pending \in 0..Cardinality(Jobs) /\ commands \in 0..MaxCommands
  BY JobsAssumption, MaxCommandsAssumption, FS_CardinalityType
     DEF JobsAssumption, MaxCommandsAssumption
<1> QED BY <1>1, <1>2, <1>3, <1>4, <1>5, <1>6, <1>7 DEF IInv, TypeOK

\* The backend keeps its types.
LEMMA BackendTypesInv == ASSUME TypeOK, Next PROVE BackendTypes'
<1> USE DEF TypeOK, BackendTypes, backend
<1>1. CASE PauseTakesHold \/ Fault \/ Reconnect
  <2>1. NoJob \in Reasons
        /\ {"IDLE", "PAUSED", "STOPPED", "DISCONNECTED", "ERROR"} \subseteq NavStates
    BY DEF Reasons, NavStates
  <2>2. CASE PauseTakesHold
    BY <2>1, <2>2, NavType DEF PauseTakesHold, NavRecords
  <2>3. CASE Fault
    <3>1. PICK state \in {"DISCONNECTED", "ERROR"} : nav' = Nav(state, NoJob, nav.route)
      BY <2>3 DEF Fault
    <3>2. nav' \in NavRecords
      BY <2>1, <3>1, NavType
    <3> QED BY <2>1, <2>3, <3>2 DEF Fault, NavRecords
  <2>4. CASE Reconnect
    <3>1. PICK state \in {"IDLE", "PAUSED", "STOPPED"} : nav' = Nav(state, NoJob, FALSE)
      BY <2>4 DEF Reconnect
    <3>2. nav' \in NavRecords
      BY <2>1, <3>1, NavType
    <3> QED BY <2>4, <3>2 DEF Reconnect, NavRecords
  <2> QED BY <1>1, <2>2, <2>3, <2>4
<1>2. ASSUME NEW j \in Jobs, OnAccepted(j) \/ Enqueue(j) PROVE BackendTypes'
  BY <1>2 DEF OnAccepted, Enqueue
<1>3. CASE Worker
  <2>1. CASE RequestPause
    BY <2>1, AcceptsBackend DEF RequestPause, Refuses, EngineTypes, Reasons, Commands
  <2>2. CASE Resume
    BY <2>2, AcceptsBackend DEF Resume, Refuses, Reasons, Commands
  <2> QED BY <1>3, <2>1, <2>2
          DEF Worker, Take, BeforeStart, PauseConfirmed, PauseNotConfirmed, Outputs, OnCompleted,
              RecheckOwner, CheckStatus, Disown, Inhibit, OnFailed
<1>4. CASE Operator
  <2>1. ASSUME NEW c \in Commands, Command(c) \/ Carry(c) \/ Note(c) PROVE BackendTypes'
    BY <2>1, AcceptsBackend DEF Command, Carry, Note, Refuses, Reasons
  <2>2. CASE Close
    BY <2>2, AcceptsBackend DEF Close, Reasons, Commands
  <2> QED BY <1>4, <2>1, <2>2 DEF Operator
<1> QED BY <1>1, <1>2, <1>3, <1>4 DEF Next

\* So do the jobs and the worker.
LEMMA EngineTypesInv == ASSUME TypeOK, OneRuns, Next PROVE EngineTypes'
<1> USE DEF TypeOK, EngineTypes, engine
<1>1. CASE PauseTakesHold \/ Fault \/ Reconnect
  BY <1>1 DEF PauseTakesHold, Fault, Reconnect
<1>2. ASSUME NEW j \in Jobs, OnAccepted(j) \/ Enqueue(j) PROVE EngineTypes'
  BY <1>2 DEF OnAccepted, Enqueue
<1>3. CASE Worker
  BY <1>3
     DEF Worker, Take, BeforeStart, RequestPause, PauseConfirmed, PauseNotConfirmed, Outputs,
         OnCompleted, RecheckOwner, CheckStatus, Resume, Disown, Inhibit, OnFailed, Ends, FlagTypes
<1>4. CASE Operator
  BY <1>4 DEF Operator, Command, Carry, Note, Close
<1> QED BY <1>1, <1>2, <1>3, <1>4 DEF Next

\* And the operator, the lock, the flags and the number of commands.
LEMMA OtherTypesInv ==
  ASSUME TypeOK, OneRuns, Next
  PROVE  OperatorTypes' /\ FlagTypes' /\ commands' \in 0..MaxCommands
<1> USE DEF TypeOK, ledger, commander
<1>1. CASE PauseTakesHold \/ Fault \/ Reconnect
  <2>1. UNCHANGED <<operator, navLock, owned, batchFailed>> /\ spoiled' \in {spoiled, TRUE}
    BY <1>1 DEF PauseTakesHold, Fault, Reconnect
  <2>2. commands' = commands \/ (commands < MaxCommands /\ commands' = commands + 1)
    BY <1>1 DEF PauseTakesHold, Fault, Reconnect
  <2>3. OperatorTypes'
    BY <2>1 DEF OperatorTypes
  <2>4. FlagTypes'
    BY <2>1 DEF FlagTypes
  <2> QED BY <2>2, <2>3, <2>4, MaxCommandsAssumption DEF MaxCommandsAssumption
<1>2. ASSUME NEW j \in Jobs, OnAccepted(j) \/ Enqueue(j)
      PROVE  OperatorTypes' /\ FlagTypes' /\ commands' \in 0..MaxCommands
  BY <1>2 DEF OnAccepted, Enqueue, OperatorTypes, FlagTypes
<1>3. CASE Worker
  <2>1. OperatorTypes'
    BY <1>3
       DEF Worker, Take, BeforeStart, RequestPause, PauseConfirmed, PauseNotConfirmed, Outputs,
           OnCompleted, RecheckOwner, CheckStatus, Resume, Disown, Inhibit, OnFailed, OperatorTypes
  <2>2. FlagTypes' /\ commands' = commands
    BY <1>3
       DEF Worker, Take, BeforeStart, RequestPause, PauseConfirmed, PauseNotConfirmed, Outputs,
           OnCompleted, RecheckOwner, CheckStatus, Resume, Disown, Inhibit, OnFailed, FlagTypes,
           EngineTypes
  <2> QED BY <2>1, <2>2
<1>4. CASE Operator
  <2>1. OperatorTypes'
    BY <1>4 DEF Operator, Command, Carry, Note, Close, OperatorTypes, Nobody
  <2>2. FlagTypes'
    <3>1. ASSUME NEW c \in Commands, Command(c) \/ Carry(c) PROVE FlagTypes'
      BY <3>1 DEF Command, Carry, FlagTypes
    <3>2. ASSUME NEW c \in Commands, Note(c) PROVE FlagTypes'
      <4>1. batchFailed' \in BOOLEAN /\ spoiled' \in BOOLEAN
        BY <3>2 DEF Note
      <4> QED BY <3>2, <4>1 DEF Note, FlagTypes
    <3>3. CASE Close
      BY <3>3 DEF Close, FlagTypes
    <3> QED BY <1>4, <3>1, <3>2, <3>3 DEF Operator
  <2>3. commands' \in 0..MaxCommands
    BY <1>4, MaxCommandsAssumption DEF Operator, Command, Carry, Note, Close, MaxCommandsAssumption
  <2> QED BY <2>1, <2>2, <2>3
<1> QED BY <1>1, <1>2, <1>3, <1>4 DEF Next

\* The lock is taken and given back with the sections it guards.
LEMMA LockIsHeldInv == ASSUME TypeOK, LockIsHeld, Next PROVE LockIsHeld'
<1> USE DEF LockIsHeld, engine, commander
<1>1. CASE PauseTakesHold \/ Fault \/ Reconnect
  BY <1>1 DEF PauseTakesHold, Fault, Reconnect
<1>2. ASSUME NEW j \in Jobs, OnAccepted(j) \/ Enqueue(j) PROVE LockIsHeld'
  BY <1>2 DEF OnAccepted, Enqueue
<1>3. CASE Worker
  BY <1>3
     DEF Worker, Take, BeforeStart, RequestPause, PauseConfirmed, PauseNotConfirmed, Outputs,
         OnCompleted, RecheckOwner, CheckStatus, Resume, Disown, Inhibit, OnFailed, Ends
<1>4. CASE Operator
  BY <1>4 DEF Operator, Command, Carry, Note, Close, At, Nobody
<1> QED BY <1>1, <1>2, <1>3, <1>4 DEF Next

\* One job is taken at a time, and is over when the worker is idle again.
LEMMA OneRunsInv == ASSUME TypeOK, OneRuns, Next PROVE OneRuns'
<1> USE JobsAssumption DEF JobsAssumption, TypeOK, EngineTypes, OneRuns, engine
<1>1. CASE PauseTakesHold \/ Fault \/ Reconnect
  BY <1>1 DEF PauseTakesHold, Fault, Reconnect
<1>2. ASSUME NEW j \in Jobs, OnAccepted(j) \/ Enqueue(j) PROVE OneRuns'
  BY <1>2 DEF OnAccepted, Enqueue
<1>3. CASE Worker
  BY <1>3
     DEF Worker, Take, BeforeStart, RequestPause, PauseConfirmed, PauseNotConfirmed, Outputs,
         OnCompleted, RecheckOwner, CheckStatus, Resume, Disown, Inhibit, OnFailed, Ends
<1>4. CASE Operator
  BY <1>4 DEF Operator, Command, Carry, Note, Close
<1> QED BY <1>1, <1>2, <1>3, <1>4 DEF Next

\* The count is of some of the jobs.
LEMMA CountedInRange ==
  PendingIsCounted => pending \in 0..Cardinality(Jobs) /\ IsFiniteSet(Counted)
<1>1. Counted \subseteq Jobs
  BY DEF Counted
<1>2. IsFiniteSet(Counted) /\ Cardinality(Counted) <= Cardinality(Jobs)
  BY <1>1, JobsAssumption, FS_Subset DEF JobsAssumption
<1>3. Cardinality(Counted) \in Nat /\ Cardinality(Jobs) \in Nat
  BY <1>2, JobsAssumption, FS_CardinalityType DEF JobsAssumption
<1> QED BY <1>2, <1>3 DEF PendingIsCounted

\* Counting a job on and off.
LEMMA CountedOne ==
  ASSUME PendingIsCounted
  PROVE  /\ \A j \in Jobs : j \notin Counted => Cardinality(Counted \cup {j}) = pending + 1
         /\ \A j \in Counted : Cardinality(Counted \ {j}) = pending - 1
<1> USE CountedInRange DEF PendingIsCounted
<1>1. ASSUME NEW j \in Jobs, j \notin Counted PROVE Cardinality(Counted \cup {j}) = pending + 1
  BY <1>1, FS_AddElement
<1>2. ASSUME NEW j \in Counted PROVE Cardinality(Counted \ {j}) = pending - 1
  BY <1>2, FS_RemoveElement
<1> QED BY <1>1, <1>2

\* A job is counted from on_accepted to on_completed or on_failed.
LEMMA PendingInv == ASSUME TypeOK, OneRuns, PendingIsCounted, Next PROVE PendingIsCounted'
<1> USE JobsAssumption DEF JobsAssumption, TypeOK, EngineTypes, OneRuns, engine, ledger
<1>1. ASSUME UNCHANGED <<job, worker, pending>> PROVE PendingIsCounted'
  BY <1>1 DEF PendingIsCounted, Counted, CountedOff
<1>2. CASE PauseTakesHold \/ Fault \/ Reconnect \/ Operator
  <2>1. UNCHANGED <<job, worker, pending>>
    BY <1>2 DEF PauseTakesHold, Fault, Reconnect, Operator, Command, Carry, Note, Close
  <2> QED BY <1>1, <2>1
<1>3. ASSUME NEW j \in Jobs, OnAccepted(j) PROVE PendingIsCounted'
  <2>1. j \notin Counted /\ Counted' = Counted \cup {j}
    BY <1>3 DEF OnAccepted, Counted, CountedOff
  <2> QED BY <1>3, <2>1, CountedOne DEF OnAccepted, PendingIsCounted
<1>4. ASSUME NEW j \in Jobs, Enqueue(j) PROVE PendingIsCounted'
  <2>1. Counted' = Counted
    BY <1>4 DEF Enqueue, Counted, CountedOff
  <2> QED BY <1>4, <2>1 DEF Enqueue, PendingIsCounted
<1>5. CASE OnCompleted \/ OnFailed
  <2>1. worker \in {"completed", "failed"} /\ current \in Jobs /\ job[current] = "running"
        /\ pending' = pending - 1
    BY <1>5 DEF OnCompleted, OnFailed
  <2>2. current \in Counted /\ Counted' = Counted \ {current}
    BY <1>5, <2>1 DEF OnCompleted, OnFailed, Ends, Counted, CountedOff
  <2> QED BY <2>1, <2>2, CountedOne DEF PendingIsCounted
<1>6. CASE Worker /\ ~OnCompleted /\ ~OnFailed
  <2>1. Counted' = Counted
    <3>1. ASSUME NEW j \in Jobs, Take(j) PROVE Counted' = Counted
      BY <3>1 DEF Take, Counted, CountedOff
    <3>2. CASE BeforeStart \/ RequestPause \/ PauseConfirmed \/ PauseNotConfirmed \/ Outputs
      BY <3>2 DEF BeforeStart, RequestPause, PauseConfirmed, PauseNotConfirmed, Outputs, Counted,
                  CountedOff
    <3>3. CASE RecheckOwner \/ CheckStatus \/ Resume \/ Disown \/ Inhibit
      BY <3>3 DEF RecheckOwner, CheckStatus, Resume, Disown, Inhibit, Ends, Counted, CountedOff
    <3> QED BY <1>6, <3>1, <3>2, <3>3 DEF Worker
  <2>2. pending' = pending
    BY <1>6 DEF Worker, Take, BeforeStart, RequestPause, PauseConfirmed, PauseNotConfirmed, Outputs,
                RecheckOwner, CheckStatus, Resume, Disown, Inhibit
  <2> QED BY <2>1, <2>2 DEF PendingIsCounted
<1> QED BY <1>2, <1>3, <1>4, <1>5, <1>6 DEF Next, Worker

\* The patrol is set going under an owned pause only by a command that is then noted, or
\* by the resume that then gives the pause up.
LEMMA OwnedIsPausedInv ==
  ASSUME TypeOK, LockIsHeld, OneRuns, OwnedIsPaused, Next PROVE OwnedIsPaused'
<1> USE DEF OwnedIsPaused, TypeOK
<1>1. CASE PauseTakesHold \/ Fault \/ Reconnect
  BY <1>1 DEF PauseTakesHold, Fault, Reconnect, Nav, engine, ledger, commander
<1>2. ASSUME NEW j \in Jobs, OnAccepted(j) \/ Enqueue(j) PROVE OwnedIsPaused'
  BY <1>2 DEF OnAccepted, Enqueue, backend, commander, ledger
<1>3. CASE Worker
  <2>1. CASE RequestPause
    <3>1. current \in Reasons
      BY DEF EngineTypes, Reasons
    <3> QED BY <2>1, <3>1, AcceptsBackend DEF RequestPause, Refuses, ledger, commander, Commands
  <2>2. CASE Resume
    BY <2>2 DEF Resume, ledger, commander, Refuses, backend
  <2> QED BY <1>3, <2>1, <2>2
          DEF Worker, Take, BeforeStart, PauseConfirmed, PauseNotConfirmed, Outputs, OnCompleted,
              RecheckOwner, CheckStatus, Disown, Inhibit, OnFailed, Ends, PausedFor, backend,
              ledger, commander
<1>4. ASSUME NEW c \in Commands, Command(c) \/ Note(c) PROVE OwnedIsPaused'
  BY <1>4 DEF Command, Note, At, Nobody, LockIsHeld, backend, engine, ledger
<1>5. ASSUME NEW c \in Commands, Carry(c) PROVE OwnedIsPaused'
  BY <1>5 DEF Carry, Refuses, At, Nobody, LockIsHeld, backend, engine, ledger
<1>6. CASE Close
  <2>1. NoJob \in Reasons /\ "stop" \in Commands
    BY DEF Reasons, Commands
  <2> QED BY <1>6, <2>1, AcceptsBackend DEF Close, At, Nobody, backend, engine
<1> QED BY <1>1, <1>2, <1>3, <1>4, <1>5, <1>6 DEF Next, Operator

\* From on_completed to the resume the ownership stays, or the resume is not made: a fault
\* in between leaves a backend without a route.
LEMMA ResumesOwnInv ==
  ASSUME TypeOK, LockIsHeld, OneRuns, OwnedIsPaused, ResumesOwn, Next PROVE ResumesOwn'
<1> USE DEF ResumesOwn
<1>1. CASE PauseTakesHold
  <2>1. operator.at # "notes" \/ navLock = "operator"
    BY DEF LockIsHeld
  <2> QED BY <1>1, <2>1 DEF PauseTakesHold, OwnedIsPaused, LockIsHeld, engine, ledger, commander
<1>2. CASE Fault \/ Reconnect
  BY <1>2 DEF Fault, Reconnect, Nav, engine, ledger, commander
<1>3. ASSUME NEW j \in Jobs, OnAccepted(j) \/ Enqueue(j) PROVE ResumesOwn'
  BY <1>3 DEF OnAccepted, Enqueue, backend, ledger
<1>4. CASE Worker
  BY <1>4
     DEF Worker, Take, BeforeStart, RequestPause, PauseConfirmed, PauseNotConfirmed, Outputs,
         OnCompleted, RecheckOwner, CheckStatus, Resume, Disown, Inhibit, OnFailed, Ends, PausedFor,
         backend, ledger
<1>5. ASSUME NEW c \in Commands, Command(c) PROVE ResumesOwn'
  BY <1>5 DEF Command, backend, engine, ledger
<1>6. ASSUME NEW c \in Commands, Carry(c) \/ Note(c) PROVE ResumesOwn'
  <2>1. worker \notin {"checkStatus", "resume"}
    BY <1>6 DEF Carry, Note, At, LockIsHeld
  <2> QED BY <1>6, <2>1 DEF Carry, Note, engine
<1>7. CASE Close
  BY <1>7 DEF Close, engine
<1> QED BY <1>1, <1>2, <1>3, <1>4, <1>5, <1>6, <1>7 DEF Next, Operator

\* Every step keeps the invariant.
LEMMA NextInv == IInv /\ [Next]_vars => IInv'
<1> SUFFICES ASSUME IInv, [Next]_vars PROVE IInv'
  OBVIOUS
<1> USE DEF IInv
<1>1. CASE UNCHANGED vars
  BY <1>1 DEF vars, TypeOK, BackendTypes, EngineTypes, OperatorTypes, FlagTypes, LockIsHeld, OneRuns,
              PendingIsCounted, Counted, CountedOff, OwnedIsPaused, ResumesOwn
<1>2. CASE Next
  <2>1. EngineTypes' /\ OneRuns' /\ PendingIsCounted'
    BY <1>2, EngineTypesInv, OneRunsInv, PendingInv
  <2>2. (pending \in 0..Cardinality(Jobs) /\ IsFiniteSet(Counted))'
    BY <2>1, CountedInRange, PTL
  <2>3. TypeOK'
    BY <1>2, <2>1, <2>2, BackendTypesInv, OtherTypesInv DEF TypeOK
  <2> QED BY <1>2, <2>1, <2>3, LockIsHeldInv, OwnedIsPausedInv, ResumesOwnInv
<1> QED BY <1>1, <1>2

\* While the outputs of a reaction run under a pause the coordinator owns, the patrol does
\* not move, whatever the operator, the connection and other reactions do meanwhile.
THEOREM CoordinatorSafety == Spec => []CoordinatorInv
<1>1. IInv => CoordinatorInv
  BY DEF IInv, CoordinatorInv, QuietOutputs, OwnedIsPaused, LockIsHeld
<1> QED BY InitInv, NextInv, <1>1, PTL DEF Spec

\* The worker sets the patrol going only out of the pause it owns, with no failure latched.
ResumesOnlyItsOwn ==
    [][nav'.state = "PATROLLING" /\ nav.state # "PATROLLING" /\ navLock = "worker"
        => owned # NoJob /\ PausedFor(owned) /\ ~batchFailed]_vars

\* An action property: a resume the operator, a fault or a failed reaction has overtaken
\* is not made.
THEOREM ResumeIsOwned == Spec => ResumesOnlyItsOwn
<1> DEFINE Resumes == nav'.state = "PATROLLING" /\ nav.state # "PATROLLING" /\ navLock = "worker"
           Owned == owned # NoJob /\ PausedFor(owned) /\ ~batchFailed
<1>1. ASSUME IInv, Next, Resumes PROVE Owned
  <2> USE DEF IInv
  <2>1. CASE RequestPause
    <3>1. current \in Reasons /\ "pause" \in Commands
      BY <1>1 DEF TypeOK, EngineTypes, Reasons, Commands
    <3> QED BY <1>1, <2>1, <3>1, AcceptsBackend DEF RequestPause, Refuses, TypeOK, backend
  <2>2. CASE Resume
    <3>1. nav.state = "PAUSED" /\ nav.route /\ worker = "resume"
      BY <1>1, <2>2 DEF Resume, Accepts, Refuses, Allowed, backend
    <3> QED BY <1>1, <3>1 DEF ResumesOwn, PausedFor
  <2>3. CASE Worker
    BY <1>1, <2>1, <2>2, <2>3
       DEF Worker, Take, BeforeStart, PauseConfirmed, PauseNotConfirmed, Outputs, OnCompleted,
           RecheckOwner, CheckStatus, Disown, Inhibit, OnFailed, backend
  <2>4. CASE PauseTakesHold \/ Fault \/ Reconnect
    BY <1>1, <2>4 DEF PauseTakesHold, Fault, Reconnect, Nav
  <2>5. ASSUME NEW j \in Jobs, OnAccepted(j) \/ Enqueue(j) PROVE FALSE
    BY <1>1, <2>5 DEF OnAccepted, Enqueue, backend
  <2>6. CASE Operator
    BY <1>1, <2>6 DEF Operator, Command, Carry, Note, Close, At, LockIsHeld, backend
  <2> QED BY <1>1, <2>3, <2>4, <2>5, <2>6 DEF Next
<1>2. ASSUME IInv, [Next]_vars PROVE [Resumes => Owned]_vars
  BY <1>1, <1>2
<1> QED BY InitInv, NextInv, <1>2, PTL DEF Spec, ResumesOnlyItsOwn

================================================================================
