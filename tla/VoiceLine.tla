------------------------------- MODULE VoiceLine -------------------------------
(* A found reaction speaks through the robot's speaker.  The sound goes over SSH *)
(* in pieces to a helper on the robot (serve_remote_cached_audio), one request   *)
(* and one answer at a time (G1SshAudioOutput), and the answers carry no number: *)
(* a call that has timed out leaves its answer in the pipe for the next one.     *)
EXTENDS Naturals, Sequences

CONSTANTS Pieces,     \* pieces of a sound
          MaxSounds   \* sounds of a run

\* validate_sound refuses an empty sound before the program starts.
ASSUME VoiceAssumption == Pieces \in Nat \ {0}

VARIABLES
  speech,   \* speak: "idle", "open", "piece", "sent", "stop" or "stopping"
  piece,    \* pieces of this sound that were answered well
  failing,  \* this sound has failed
  voiceErr, \* FoundWavSpeechBackend.error is set
  good,     \* last_attempt_successful
  hasClient, lineShut,
  cable,    \* the SSH process: "none", "up" or "down"
  orders,   \* requests on their way to the helper
  answers,  \* its answers: TRUE for the code 0
  server,   \* the helper: "none", "starting", "up", "leaving" or "dead"
  active,   \* the helper has a stream of its own
  speaker,  \* the robot plays
  heard,    \* pieces of this sound the robot accepted, and Pieces + 1 once stopped
  refused,  \* a PlayStop of the helper was refused
  sounds

voiceVars == << speech, piece, failing, voiceErr, good, hasClient, lineShut, cable, orders,
                answers, server, active, speaker, heard, refused, sounds >>
talkVars    == << speech, piece, failing, voiceErr, good, hasClient, lineShut, sounds >>
robotSide == << server, active, speaker, heard, refused >>

VoiceInit ==
  /\ speech = "idle" /\ piece = 0 /\ failing = FALSE /\ voiceErr = FALSE /\ good = FALSE
  /\ hasClient = FALSE /\ lineShut = FALSE /\ cable = "none" /\ orders = << >>
  /\ answers = << >> /\ server = "none" /\ active = FALSE /\ speaker = FALSE
  /\ heard = 0 /\ refused = FALSE /\ sounds = 0

-------------------------------------------------------------------------------
(* The program. *)

\* Mutant: a sound that failed does not keep the next one from being played.
SpeakOnceMore ==
  /\ speech = "idle" /\ sounds < MaxSounds
  /\ sounds' = sounds + 1 /\ good' = FALSE /\ failing' = FALSE /\ piece' = 0 /\ heard' = 0
  /\ speech' = IF hasClient THEN "piece" ELSE "open"
  /\ UNCHANGED << voiceErr, hasClient, lineShut, cable, orders, answers, server, active,
                  speaker, refused >>

\* speak: the camera loop triggers no reaction once a sound has failed.
Speak ==
  /\ speech = "idle" /\ ~voiceErr /\ sounds < MaxSounds
  /\ sounds' = sounds + 1 /\ good' = FALSE /\ failing' = FALSE /\ piece' = 0 /\ heard' = 0
  /\ speech' = IF hasClient THEN "piece" ELSE "open"
  /\ UNCHANGED << voiceErr, hasClient, lineShut, cable, orders, answers, server, active,
                  speaker, refused >>

EndSpeech(ok) ==
  /\ speech' = "idle" /\ good' = ok /\ voiceErr' = (voiceErr \/ ~ok)

\* create_audio_client: the SSH process, refused once the line is closed.
OpenLine ==
  /\ speech = "open" /\ cable = "none"
  /\ IF lineShut
       THEN EndSpeech(FALSE) /\ UNCHANGED << cable, server >>
       ELSE cable' = "up" /\ server' = "starting" /\ UNCHANGED << speech, good, voiceErr >>
  /\ UNCHANGED << piece, failing, hasClient, lineShut, orders, answers, active, speaker, heard,
                  refused, sounds >>

\* The helper is ready, or 18 seconds pass, or it ends: then there is no client to stop.
LineReady ==
  /\ speech = "open" /\ cable # "none"
  /\ \/ server = "up" /\ cable = "up" /\ hasClient' = TRUE /\ speech' = "piece"
        /\ UNCHANGED << good, voiceErr >>
     \/ EndSpeech(FALSE) /\ UNCHANGED hasClient
  /\ UNCHANGED << piece, failing, lineShut, cable, orders, answers, robotSide, sounds >>

\* _call writes its request, unless the line is closed or broken.
SendPiece ==
  /\ speech = "piece"
  /\ IF lineShut \/ cable = "down"
       THEN speech' = "stop" /\ failing' = TRUE /\ UNCHANGED orders
       ELSE speech' = "sent" /\ orders' = Append(orders, "PlayStream") /\ UNCHANGED failing
  /\ UNCHANGED << piece, voiceErr, good, hasClient, lineShut, cable, answers, robotSide, sounds >>

SendStop ==
  /\ speech = "stop"
  /\ IF lineShut \/ cable = "down"
       THEN EndSpeech(FALSE) /\ UNCHANGED orders
       ELSE /\ speech' = "stopping" /\ orders' = Append(orders, "PlayStop")
            /\ UNCHANGED << good, voiceErr >>
  /\ UNCHANGED << piece, failing, hasClient, lineShut, cable, answers, robotSide, sounds >>

\* The first answer in the pipe is taken for the answer to this call.
TakeAnswer ==
  /\ answers # << >> /\ answers' = Tail(answers)
  /\ \/ /\ speech = "sent"
        /\ failing' = ~Head(answers)
        /\ piece' = IF Head(answers) THEN piece + 1 ELSE piece
        /\ speech' = IF Head(answers) /\ piece' < Pieces THEN "piece" ELSE "stop"
        /\ UNCHANGED << good, voiceErr >>
     \/ /\ speech = "stopping"
        /\ EndSpeech(Head(answers) /\ ~failing) /\ UNCHANGED << piece, failing >>
  /\ UNCHANGED << hasClient, lineShut, cable, orders, robotSide, sounds >>

\* Four seconds pass without an answer, or the connection is closed.
NoAnswer ==
  /\ \/ speech = "sent" /\ speech' = "stop" /\ failing' = TRUE /\ UNCHANGED << good, voiceErr >>
     \/ speech = "stopping" /\ EndSpeech(FALSE) /\ UNCHANGED failing
  /\ UNCHANGED << piece, hasClient, lineShut, cable, orders, answers, robotSide, sounds >>

\* close: the helper sees the end of its input; SSH is terminated if that takes long.
CloseLine ==
  /\ lineShut = FALSE /\ lineShut' = TRUE
  /\ cable' = IF cable = "none" THEN "none" ELSE "down"
  /\ UNCHANGED << speech, piece, failing, voiceErr, good, hasClient, orders, answers,
                  robotSide, sounds >>

-------------------------------------------------------------------------------
(* The helper and the connection. *)

CableBreaks ==
  /\ cable = "up" /\ cable' = "down" /\ answers' = << >>
  /\ orders' \in {orders, << >>}
  /\ UNCHANGED << talkVars, robotSide >>

\* The helper sets itself up, or gives up.
ServerStarts ==
  /\ server = "starting" /\ server' \in {"up", "leaving"}
  /\ UNCHANGED << talkVars, cable, orders, answers, active, speaker, heard, refused >>

\* One request: the robot may answer it with an error, and the SDK may raise.
Serve ==
  /\ server = "up" /\ orders # << >> /\ orders' = Tail(orders)
  /\ \E code \in BOOLEAN :
       /\ answers' = IF cable = "up" THEN Append(answers, code) ELSE answers
       /\ IF Head(orders) = "PlayStream"
            THEN /\ active' = TRUE /\ speaker' \in {TRUE, code \/ speaker}
                 /\ heard' = IF code /\ heard < Pieces THEN heard + 1 ELSE heard
                 /\ UNCHANGED refused
            ELSE /\ active' = FALSE /\ speaker' = (speaker /\ ~code)
                 /\ heard' = IF code /\ heard = Pieces THEN Pieces + 1 ELSE heard
                 /\ refused' = (refused \/ ~code)
  /\ UNCHANGED << talkVars, cable, server >>

\* The end of the input, or an exception of the SDK, whose call may have worked.
ServerLeaves ==
  /\ server = "up" /\ server' = "leaving"
  /\ \/ orders = << >> /\ cable = "down" /\ UNCHANGED << active, speaker >>
     \/ /\ orders # << >>
        /\ active' = (active \/ Head(orders) = "PlayStream")
        /\ speaker' \in {speaker, Head(orders) = "PlayStream"}
  /\ UNCHANGED << talkVars, cable, orders, answers, heard, refused >>

\* The finally clause stops a stream of its own, and SSH ends with its command.
ServerEnds ==
  /\ server = "leaving" /\ server' = "dead"
  /\ \/ speaker' = (speaker /\ ~active) /\ UNCHANGED refused
     \/ active /\ refused' = TRUE /\ UNCHANGED speaker
  /\ cable' = "down" /\ answers' = << >>
  /\ UNCHANGED << talkVars, orders, active, heard >>

VoiceRests ==
  /\ speech = "idle" /\ (voiceErr \/ sounds = MaxSounds) /\ lineShut
  /\ server \in {"none", "dead"}
  /\ UNCHANGED voiceVars

VoiceNext ==
  \/ Speak \/ OpenLine \/ LineReady \/ SendPiece \/ SendStop \/ TakeAnswer \/ NoAnswer
  \/ CloseLine \/ CableBreaks \/ ServerStarts \/ Serve \/ ServerLeaves \/ ServerEnds
  \/ VoiceRests

VoiceSpec == VoiceInit /\ [][VoiceNext]_voiceVars

-------------------------------------------------------------------------------
\* A sound that is reported as played was accepted by the robot piece by piece, and stopped.
PlayedIsHeard == good => heard = Pieces + 1

\* A helper that is gone leaves nothing playing, unless the robot refused to stop.
GoneIsSilent == server = "dead" /\ ~refused => ~speaker

(* The answers that arrive late, in the place of others, are never taken for a  *)
(* sound that was played, and the robot falls silent with the helper, however   *)
(* the connection ends (G1SshAudioOutput, serve_remote_cached_audio).            *)
VoiceIsHonest == PlayedIsHeard /\ GoneIsSilent
=============================================================================
