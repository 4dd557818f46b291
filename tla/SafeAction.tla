------------------------------ MODULE SafeAction ------------------------------
(***************************************************************************)
(* SshG1SafeActionAdapter: every notice is one process on the robot,       *)
(* started over SSH, that raises the hand (action 23), holds it, releases  *)
(* it (action 99) and reports one line.  The helper owns the release: the  *)
(* PC may time out, lose the connection or be closed meanwhile, and the    *)
(* helper lives on.  The first failure the PC sees disables the adapter.   *)
(***************************************************************************)
EXTENDS Naturals

CONSTANT MaxNotices \* bound: notices asked for

VARIABLES asker,     \* the reaction worker in play_motion
          latched,   \* _motion_disabled_reason is set
          succeeded, \* _last_motion_succeeded
          stopping,  \* request_shutdown: not asked, asked, returned
          closer,    \* close(): open, waiting for the helper, closed
          ssh,       \* the active process: none, up, down (it has ended)
          helper,    \* what the helper on the robot does
          told,      \* a signal has told the helper to stop (stop_requested)
          answer23,  \* the answer to action 23, "no" before it is invoked
          answer99,  \* the answer to action 99
          hand,      \* the robot's right hand
          notices    \* notices asked for

pcVars == <<asker, latched, succeeded, stopping, closer, notices>>
helperVars == <<helper, told, answer23, answer99, hand>>
safeVars == <<pcVars, ssh, helperVars>>

SafeInit ==
    /\ asker = "idle" /\ latched = FALSE /\ succeeded = FALSE
    /\ stopping = "no" /\ closer = "open" /\ ssh = "none"
    /\ helper = "none" /\ told = FALSE /\ answer23 = "no" /\ answer99 = "no"
    /\ hand = "down" /\ notices = 0

(* play_motion("notice"), up to the start lock.                            *)
AskNotice ==
    /\ asker = "idle" /\ notices < MaxNotices
    /\ notices' = notices + 1
    /\ succeeded' = FALSE
    /\ asker' = IF stopping # "no" \/ latched THEN "idle" ELSE "asking"
    /\ UNCHANGED <<latched, stopping, closer, ssh, helperVars>>

\* Any exception of _run_helper latches the failure.
Fails == asker' = "idle" /\ latched' = TRUE /\ UNCHANGED succeeded
PcFrame == UNCHANGED <<stopping, closer, notices>>

(* _run_helper holds _start_lock from the look at the shutdown until the   *)
(* process has been started ("starting").                                  *)
LookAtShutdown ==
    /\ asker = "asking"
    /\ IF stopping = "no" THEN asker' = "starting" /\ UNCHANGED <<latched, succeeded>>
       ELSE Fails
    /\ UNCHANGED <<ssh, helperVars>> /\ PcFrame

StartHelper ==
    /\ asker = "starting"
    /\ asker' = "waiting" /\ ssh' = "up"
    /\ helper' = "preparing" /\ told' = FALSE /\ answer23' = "no" /\ answer99' = "no"
    /\ UNCHANGED <<latched, succeeded, hand>> /\ PcFrame

StartFails ==
    /\ asker = "starting" /\ Fails
    /\ UNCHANGED <<ssh, helperVars>> /\ PcFrame

(* The report has come: it must confirm one whole cycle.                   *)
CycleConfirmed == answer23 = "ok" /\ answer99 = "ok"
Judge ==
    /\ asker = "waiting" /\ ssh = "up" /\ helper = "reporting"
    /\ helper' = "gone" /\ ssh' = "down"
    /\ IF CycleConfirmed
       THEN asker' = "idle" /\ succeeded' = TRUE /\ UNCHANGED latched
       ELSE Fails
    /\ UNCHANGED <<told, answer23, answer99, hand>> /\ PcFrame

\* SSH has ended without a report.
NoReport ==
    /\ asker = "waiting" /\ ssh = "down" /\ Fails
    /\ UNCHANGED <<ssh, helperVars>> /\ PcFrame

(* After helper_timeout_seconds SSH is terminated, after the grace killed; *)
(* what it says meanwhile is not looked at.                                *)
TimeOut ==
    /\ asker = "waiting" /\ ssh = "up"
    /\ asker' = "ending" /\ UNCHANGED <<latched, succeeded, ssh, helperVars>> /\ PcFrame

\* Mutant: the failure is not latched.
TerminateUnlatched ==
    /\ asker = "ending" /\ asker' = "idle" /\ ssh' = "down"
    /\ UNCHANGED <<latched, succeeded, helperVars>> /\ PcFrame

Terminate ==
    /\ asker = "ending" /\ Fails /\ ssh' = "down"
    /\ UNCHANGED helperVars /\ PcFrame

(* request_shutdown sets the event and passes once through _start_lock.    *)
AskShutdown ==
    /\ \/ stopping = "no" /\ stopping' = "asked"
       \/ stopping = "asked" /\ asker # "starting" /\ stopping' = "returned"
    /\ UNCHANGED <<asker, latched, succeeded, closer, notices, ssh, helperVars>>

(* close(): it waits for the active process and ends it when it must.      *)
CloseAdapter ==
    /\ closer = "open" /\ stopping = "returned"
    /\ closer' = IF ssh = "up" THEN "waiting" ELSE "closed"
    /\ UNCHANGED <<asker, latched, succeeded, stopping, notices, ssh, helperVars>>
CloseWaited ==
    /\ closer = "waiting" /\ closer' = "closed" /\ ssh' = "down"
    /\ UNCHANGED <<asker, latched, succeeded, stopping, notices, helperVars>>

(* The connection breaks; a helper without one may be told by a signal,     *)
(* which ends it before and after it has handlers for signals.              *)
LinkBreaks ==
    /\ ssh = "up" /\ ssh' = "down" /\ UNCHANGED <<pcVars, helperVars>>
Signal ==
    /\ ssh = "down" /\ helper \notin {"none", "gone"} /\ ~told
    /\ \/ told' = TRUE /\ UNCHANGED helper
       \/ helper \in {"preparing", "reporting"} /\ helper' = "gone" /\ UNCHANGED told
    /\ UNCHANGED <<pcVars, ssh, answer23, answer99, hand>>

(* The helper: SDK, action list and the look at the signals, then the      *)
(* boundary after which the hand may be up and must be released.           *)
Prepare(ok) ==
    /\ helper = "preparing"
    /\ helper' = IF ok /\ ~told THEN "acting" ELSE "reporting"
    /\ UNCHANGED <<pcVars, ssh, told, answer23, answer99, hand>>

\* Mutant: an action that failed needs no release.
ActReleasesIfRaised(how) ==
    /\ helper = "acting"
    /\ answer23' = how
    /\ hand' \in IF how = "ok" THEN {"up"} ELSE {hand, "up"}
    /\ helper' = IF how = "ok" THEN "holding" ELSE "reporting"
    /\ UNCHANGED <<pcVars, ssh, told, answer99>>

Act(how) ==
    /\ helper = "acting"
    /\ answer23' = how
    /\ hand' \in IF how = "ok" THEN {"up"} ELSE {hand, "up"}
    /\ helper' = IF how = "ok" THEN "holding" ELSE "releasing"
    /\ UNCHANGED <<pcVars, ssh, told, answer99>>

Hold ==
    /\ helper = "holding" /\ helper' = "releasing"
    /\ UNCHANGED <<pcVars, ssh, told, answer23, answer99, hand>>

Release(how) ==
    /\ helper = "releasing"
    /\ answer99' = how
    /\ hand' \in IF how = "ok" THEN {"down"} ELSE {hand, "down"}
    /\ helper' = "reporting"
    /\ UNCHANGED <<pcVars, ssh, told, answer23>>

\* Nobody is left to read the report.
Leave ==
    /\ helper = "reporting" /\ ssh = "down"
    /\ helper' = "gone" /\ UNCHANGED <<pcVars, ssh, told, answer23, answer99, hand>>

HelperWorks ==
    \/ \E ok \in BOOLEAN : Prepare(ok)
    \/ \E how \in {"ok", "bad"} : Act(how) \/ Release(how)
    \/ Hold \/ Leave
SafeNext ==
    \/ AskNotice \/ LookAtShutdown \/ StartHelper \/ StartFails
    \/ Judge \/ NoReport \/ TimeOut \/ Terminate
    \/ AskShutdown \/ CloseAdapter \/ CloseWaited
    \/ LinkBreaks \/ Signal \/ HelperWorks

\* A process that has been started runs.
SafeFairness == WF_safeVars(HelperWorks)
SafeSpec == SafeInit /\ [][SafeNext]_safeVars /\ SafeFairness
-----------------------------------------------------------------------------
(* A notice the PC calls complete left the hand down, no helper is started *)
(* while one that the PC has given up may still move the arm, and none at  *)
(* all once request_shutdown has returned.                                 *)
NoticesAreOver ==
    /\ succeeded => hand = "down" /\ helper = "gone"
    /\ asker = "starting" => helper \in {"none", "gone"} /\ stopping # "returned"

(* Whatever becomes of the PC, of the connection or of action 23 itself, a *)
(* hand that may be up is released: once, and whether or not it works.     *)
RaisedIsReleased == (helper = "acting") ~> (answer23 # "no" /\ answer99 # "no")
=============================================================================
