------------------------------- MODULE MCWatchers -------------------------------
(* The parts that watch: the game's engine and tracker, the trackers of bottle   *)
(* and music, the detector's process, the audio monitor and the camera on the    *)
(* robot.  One of them runs, the others rest in their initial states.            *)
EXTENDS StealthGame, Trackers, PersonWorker, AudioMonitor, CameraFeed

VARIABLE part    \* which of them runs

allVars == << part, stealthVars, trackerVars, workerVars, monitorVars, cameraVars >>

WatchersInit ==
  /\ part \in {"game", "trackers", "detector", "audio", "camera"}
  /\ StealthInit /\ TrackersInit /\ WorkerInit /\ MonitorInit /\ CameraInit
  /\ part # "game" => resets /\ follows
  /\ part # "audio" => mode = "raw"
  /\ part # "camera" => feed = "rtp"

WatchersNext ==
  /\ UNCHANGED part
  /\ \/ /\ part = "game" /\ StealthNext
        /\ UNCHANGED << trackerVars, workerVars, monitorVars, cameraVars >>
     \/ /\ part = "trackers" /\ TrackersNext
        /\ UNCHANGED << stealthVars, workerVars, monitorVars, cameraVars >>
     \/ /\ part = "detector" /\ WorkerNext
        /\ UNCHANGED << stealthVars, trackerVars, monitorVars, cameraVars >>
     \/ /\ part = "audio" /\ MonitorNext
        /\ UNCHANGED << stealthVars, trackerVars, workerVars, cameraVars >>
     \/ /\ part = "camera" /\ CameraNext
        /\ UNCHANGED << stealthVars, trackerVars, workerVars, monitorVars >>

\* The fairness of each module, for the part that runs.
WatchersSpec ==
  /\ WatchersInit /\ [][WatchersNext]_allVars
  /\ WF_stealthVars(part = "game" /\ Unseen)
  /\ WF_workerVars(part = "detector" /\ CoordinatorStep)
  /\ WF_workerVars(part = "detector" /\ CloseStep)
  /\ WF_monitorVars(part = "audio" /\ WorkerStep)
  /\ WF_monitorVars(part = "audio" /\ MainStep)
  /\ WF_monitorVars(part = "audio" /\ Submit)
  /\ WF_cameraVars(part = "camera" /\ Leaves)
  /\ WF_cameraVars(part = "camera" /\ (SendFramed \/ TimeIsUp))
  /\ WF_cameraVars(part = "camera" /\ PressStream)
  /\ WF_cameraVars(part = "camera" /\ StreamKilled)
  /\ WF_cameraVars(part = "camera" /\ SenderEnds)
  /\ WF_cameraVars(part = "camera" /\ SshEnds)
  /\ WF_cameraVars(part = "camera" /\ Relay)
  /\ WF_cameraVars(part = "camera" /\ HelperEnds)
  /\ WF_cameraVars(part = "camera" /\ HelperSeesEnd)
  /\ WF_cameraVars(part = "camera" /\ EndSenders)
  /\ WF_cameraVars(part = "camera" /\ EndReaders)
=============================================================================
