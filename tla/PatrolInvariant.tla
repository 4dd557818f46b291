---------------------------- MODULE PatrolInvariant ----------------------------
(* The inductive invariant behind the safety of the patrol controller.            *)
EXTENDS PatrolController

Acting == {"actHalt", "actAck"}

\* A requester between the end of its section under the lock and its reply.
Requesting == {"reqRead", "actLock", "actHalt", "actAck", "reqWait", "reqStatus"}

Recovering == {"recStop", "recSet", "recWait", "recClear", "blocked", "blockedFresh",
               "blockedAgain", "blockClear", "lidar", "unwind"}

\* What a thread that activates a pause has established at each of its steps.
ActivationOK ==
    /\ pc["runner"] \in Acting => paused /\ pc["control"] \notin Acting
    /\ pc["control"] \in Acting => paused
    /\ pc["runner"] = "actAck" => cmd = "STOP"
    /\ pc["control"] = "actAck" => cmd = "STOP"

\* A paused robot that was told to move is about to be told to stop.
PauseIsHalting ==
    paused /\ cmd = "MOVE" =>
        \/ pc["runner"] \in {"actHalt", "finalStop"}
        \/ pc["control"] \in {"actHalt", "stopSend"}

\* An acknowledgement seen by a requester is one of the pause it asked for: the
\* pause is in force, halted, and no activation is under way.
AckMeansHalted ==
    /\ pc["control"] \in Requesting \ Acting /\ acked /\ ~stopped =>
           paused /\ cmd = "STOP" /\ pc["runner"] \notin Acting
    /\ Control("reqStatus") => acked

\* The control thread resumes only under a confirmed pause.
OwnershipOK ==
    /\ owner # "nobody" => paused /\ cmd = "STOP" /\ pc["runner"] \notin Acting
    /\ pc["control"] \in {"freshCheck", "fresh", "resumeLock", "resumeClear",
                          "record", "recordStop"} => owner # "nobody"
    /\ pc["control"] \in Requesting \cup {"reqLock"} => owner = "nobody"

\* The recovering flag is set only inside a recovery, after its stop.
RecoveryOK ==
    /\ recovering => pc["runner"] \in Recovering /\ cmd = "STOP"
    /\ recovering /\ Runner("lidar") => ret["lidar"] = "blocked"
    /\ pc["runner"] \in {"recSet", "blockSet"} => cmd = "STOP"

EndingOK ==
    /\ pc["runner"] \in {"finalFlags", "done"} => cmd = "STOP"
    /\ Runner("done") => stopped
    /\ Control("stopPause") => stopped
    /\ Control("stopSend") => stopped /\ paused
    /\ error => stopped \/ pc["runner"] = "recordStop" \/ pc["control"] = "recordStop"

Safe == ActivationOK /\ PauseIsHalting /\ AckMeansHalted /\ OwnershipOK /\ RecoveryOK
        /\ EndingOK /\ StopIsFollowed

IInv == TypeOK /\ Safe
==============================================================================
