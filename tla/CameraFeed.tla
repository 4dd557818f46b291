------------------------------ MODULE CameraFeed ------------------------------
(* Who ends the camera on the robot.  The viewer (game_vision/dual.py) never    *)
(* tells the robot to stop sending: it closes a pipe, or dies, and each process *)
(* of the chain must notice that the one before it is gone.  In mode "framed"   *)
(* the chain is the viewer, its helper (tools/g1_camera_pipe.py), ssh, the      *)
(* sender on the robot and the sender's GStreamer; in mode "rtp" ssh hangs on   *)
(* the viewer itself and the helper only listens for the packets.  What passes  *)
(* through a pipe is counted, what is in the pictures does not matter.          *)
EXTENDS Naturals

CONSTANT PipeRoom    \* frames that a full pipe holds

VARIABLES
  feed,      \* the transport: "framed" or "rtp"
  viewer,    \* "run", "senders" (ends them first), "readers", "gone" or "killed"
  helper,    \* the local helper: "up", "leaving" (its finally) or "dead"
  ssh,       \* the ssh client: "up" or "dead"
  sender,    \* the sender on the robot: "up", "leaving" or "dead"
  pipeline,    \* its GStreamer: "up" or "dead"
  signalled, \* how hard the sender has pressed its GStreamer: 0, SIGINT 1, SIGTERM 2, SIGKILL 3
  wire,      \* frames between the sender and the helper
  picture    \* LatestReader's state: "waiting", "shown" or "error"

cameraVars ==
  << feed, viewer, helper, ssh, sender, pipeline, signalled, wire, picture >>

CameraInit ==
  /\ feed \in {"framed", "rtp"} /\ viewer = "run" /\ helper = "up" /\ ssh = "up"
  /\ sender = "up" /\ pipeline = "up" /\ signalled = 0 /\ wire = 0 /\ picture = "waiting"

-------------------------------------------------------------------------------
(* The sender on the robot. *)

\* The pipe that ssh reads its own input from is open as long as the process that
\* holds its other end lives: the helper, or the viewer until it closes it.
Owner == IF feed = "framed" THEN helper # "dead" ELSE viewer = "run"

\* Mutant: the sender ends with ssh only, and does not look at its input.
SshIsGone == ssh = "dead"

\* ssh passes the end of its input on, and is gone itself when the sender ends.
InputEnded == ssh = "dead" \/ ~Owner

\* One turn of the sender's loop: its input is looked at before a frame is sent; a
\* frame goes to a pipe with room, an output nobody reads raises, and so does a
\* GStreamer that ended.  The loop ends with its duration, too, and after five seconds
\* without a picture.
Leaves ==
  /\ sender = "up"
  /\ InputEnded \/ pipeline = "dead"
  /\ sender' = "leaving"
  /\ UNCHANGED << feed, viewer, helper, ssh, pipeline, signalled, wire, picture >>

TimeIsUp ==
  /\ sender = "up" /\ sender' = "leaving"
  /\ UNCHANGED << feed, viewer, helper, ssh, pipeline, signalled, wire, picture >>

SendFramed ==
  /\ sender = "up" /\ ~InputEnded /\ pipeline = "up"
  /\ wire < PipeRoom /\ wire' = wire + 1
  /\ UNCHANGED << feed, viewer, helper, ssh, sender, pipeline, signalled, picture >>

\* A packet is lost on its way.
LosePacket ==
  /\ feed = "rtp" /\ wire > 0 /\ wire' = wire - 1
  /\ UNCHANGED << feed, viewer, helper, ssh, sender, pipeline, signalled, picture >>

\* The finally clause: SIGINT, three seconds, SIGTERM, three seconds, SIGKILL.
PressStream ==
  /\ sender = "leaving" /\ pipeline = "up" /\ signalled < 3
  /\ signalled' = signalled + 1
  /\ UNCHANGED << feed, viewer, helper, ssh, sender, pipeline, wire, picture >>

\* GStreamer fails, or ends as it is told; nothing outlives SIGKILL.
StreamFails ==
  /\ pipeline = "up" /\ pipeline' = "dead"
  /\ UNCHANGED << feed, viewer, helper, ssh, sender, signalled, wire, picture >>

StreamKilled == signalled = 3 /\ StreamFails

SenderEnds ==
  /\ sender = "leaving" /\ pipeline = "dead" /\ sender' = "dead"
  /\ UNCHANGED << feed, viewer, helper, ssh, pipeline, signalled, wire, picture >>

\* ssh ends with the command it runs, or when the connection is lost.
SshEnds ==
  /\ ssh = "up" /\ sender = "dead" /\ ssh' = "dead"
  /\ UNCHANGED << feed, viewer, helper, sender, pipeline, signalled, wire, picture >>

SshLost ==
  /\ ssh = "up" /\ ssh' = "dead"
  /\ UNCHANGED << feed, viewer, helper, sender, pipeline, signalled, wire, picture >>

-------------------------------------------------------------------------------
(* The helper and the thread of the viewer that reads it. *)

\* A frame is relayed and shown while the viewer reads; a viewer that is gone breaks
\* the pipe, as does a reader that has stopped on an error, once the pipe is full.
Relay ==
  /\ helper = "up" /\ wire > 0
  /\ wire' = wire - 1
  /\ IF viewer \in {"gone", "killed"}
       THEN helper' = "leaving" /\ UNCHANGED picture
       ELSE UNCHANGED helper /\ picture' \in (IF picture = "error" THEN {"error"}
                                              ELSE {"shown", "error"})
  /\ UNCHANGED << feed, viewer, ssh, sender, pipeline, signalled >>

\* The helper reaches the end of the pipeline, or an invalid frame, and cleans up.
HelperSeesEnd ==
  /\ helper = "up" /\ feed = "framed" /\ ssh = "dead"
  /\ helper' = "leaving"
  /\ UNCHANGED << feed, viewer, ssh, sender, pipeline, signalled, wire, picture >>

HelperFails ==
  /\ helper = "up" /\ feed = "framed" /\ wire > 0
  /\ helper' = "leaving"
  /\ UNCHANGED << feed, viewer, ssh, sender, pipeline, signalled, wire, picture >>

\* Its cleaning up closes ssh's input and terminates ssh.
HelperEnds ==
  /\ helper = "leaving" /\ helper' = "dead"
  /\ ssh' = IF feed = "framed" THEN "dead" ELSE ssh
  /\ UNCHANGED << feed, viewer, sender, pipeline, signalled, wire, picture >>

\* The reader sees the end of the pipe: what it showed last is marked as an error.
ReaderEnds ==
  /\ helper = "dead" /\ viewer \in {"run", "senders", "readers"}
  /\ picture # "error" /\ picture' = "error"
  /\ UNCHANGED << feed, viewer, helper, ssh, sender, pipeline, signalled, wire >>

-------------------------------------------------------------------------------
(* The viewer. *)

\* run ends: the inputs of the senders are closed first.
Quit ==
  /\ viewer = "run" /\ viewer' = "senders"
  /\ UNCHANGED << feed, helper, ssh, sender, pipeline, signalled, wire, picture >>

\* Eight seconds for ssh to end by itself, then SIGTERM, then SIGKILL.
EndSenders ==
  /\ viewer = "senders" /\ viewer' = "readers"
  /\ ssh' = IF feed = "rtp" THEN "dead" ELSE ssh
  /\ UNCHANGED << feed, helper, sender, pipeline, signalled, wire, picture >>

\* LatestReader.close: SIGTERM ends the helper where it is, without its cleaning up.
EndReaders ==
  /\ viewer = "readers" /\ viewer' = "gone" /\ helper' = "dead"
  /\ UNCHANGED << feed, ssh, sender, pipeline, signalled, wire, picture >>

\* The viewer is killed: all its pipes close.
ViewerKilled ==
  /\ viewer \in {"run", "senders", "readers"} /\ viewer' = "killed"
  /\ UNCHANGED << feed, helper, ssh, sender, pipeline, signalled, wire, picture >>

-------------------------------------------------------------------------------
CameraEnded == sender = "dead" /\ pipeline = "dead" /\ ssh = "dead"

CameraRests ==
  /\ viewer \in {"gone", "killed"} /\ CameraEnded
  /\ helper = "dead" \/ (helper = "up" /\ wire = 0)
  /\ UNCHANGED cameraVars

CameraNext ==
  \/ Leaves \/ TimeIsUp \/ SendFramed \/ LosePacket \/ PressStream \/ StreamFails
  \/ SenderEnds \/ SshEnds \/ SshLost \/ Relay \/ HelperSeesEnd \/ HelperFails \/ HelperEnds
  \/ ReaderEnds \/ Quit \/ EndSenders \/ EndReaders \/ ViewerKilled \/ CameraRests

\* The processes run on, the camera gives pictures or the sender gives up, SIGKILL kills,
\* and the viewer's closing goes on.
CameraFairness ==
  /\ WF_cameraVars(Leaves) /\ WF_cameraVars(SendFramed \/ TimeIsUp) /\ WF_cameraVars(PressStream)
  /\ WF_cameraVars(StreamKilled) /\ WF_cameraVars(SenderEnds) /\ WF_cameraVars(SshEnds)
  /\ WF_cameraVars(Relay) /\ WF_cameraVars(HelperEnds)
  /\ WF_cameraVars(HelperSeesEnd) /\ WF_cameraVars(EndSenders) /\ WF_cameraVars(EndReaders)

CameraSpec == CameraInit /\ [][CameraNext]_cameraVars /\ CameraFairness

-------------------------------------------------------------------------------
(* However the viewer ends, by closing or by being killed, the sender on the    *)
(* robot and the GStreamer it started end too (serve_remote_camera_sender,      *)
(* LatestReader.close, dual.run).                                                *)
CameraIsReleased == viewer # "run" ~> CameraEnded
=============================================================================
