------------------------------- MODULE GameView -------------------------------
(***************************************************************************)
(* The game camera: a sender on PC2 reads RGB with aligned depth, hides    *)
(* what is too far or outside the field of view and publishes the rest     *)
(* through TeleImager, which keeps the latest image of a port; a receiver  *)
(* shows each image once.  Both are run_viewer with a source of their own. *)
(* An image is one pixel of the scene: its depth (0 is no valid reading)   *)
(* and what is left of it, 0 hidden, 1 faded, 2 clear.                     *)
(***************************************************************************)
EXTENDS Naturals, Sequences

CONSTANTS Clear, Furthest, \* clear_m, and the largest depth of the scene
          MaxImages        \* bound: images the sender reads

ASSUME GameViewAssumption ==
    /\ Clear \in Nat \ {0} /\ Furthest \in Nat \ {0} /\ MaxImages \in Nat \ {0}
    /\ Clear < Furthest

Viewers == {"sender", "receiver"}
Ports == {"game", "safety"}

VARIABLES source,    \* what the sender reads from (never changes)
          publishes, \* --publish-processed: the game image, or the safety one too
          inFov,     \* the pixel lies in the field of view (never changes)
          mixedUp,   \* the receiver reads the game from the safety port
          maxM,      \* the pipeline's max_m
          stage,     \* where each viewer is
          opened,    \* stages of open() its source has passed
          held,      \* it holds the device, file or subscriptions
          owned,     \* ... and the source object knows
          window,    \* its window is open
          image,     \* the frame in hand
          wire,      \* the last payload published on each port
          inbox,     \* the payload TeleImager has for the receiver
          seen,      \* sequence of the last payload taken, per port
          shown      \* what is on the display

gameConfig == <<source, publishes, inFov, mixedUp>>
openVars == <<opened, held, owned, window>>
netVars == <<wire, inbox, seen>>
gameVars == <<gameConfig, maxM, stage, openVars, image, netVars, shown>>

NoDepth == Furthest + 1 \* the frame has no depth_m
NoImage == [seq |-> 0, depth |-> 0, rgb |-> 0, alpha |-> FALSE, safety |-> 0,
            may |-> FALSE]

GameInit ==
    /\ source \in {"realsense", "recording", "webcam", "g1-rgb"}
    /\ publishes \in (CASE source \in {"webcam", "g1-rgb"} -> {{}}
                       [] OTHER -> {{}, {"game"}, Ports})
    /\ inFov \in BOOLEAN /\ mixedUp \in BOOLEAN /\ maxM = Clear + 1
    /\ stage = [v \in Viewers |-> "opening"] /\ opened = [v \in Viewers |-> 0]
    /\ held = [v \in Viewers |-> FALSE] /\ owned = held /\ window = held
    /\ image = [v \in Viewers |-> NoImage] /\ shown = image
    /\ wire = [p \in Ports |-> NoImage] /\ inbox = wire
    /\ seen = [p \in Ports |-> 0]

(* What open() of each source does after it has taken hold of something.   *)
RealSenseOpens == <<"start", "depth scale", "align", "playback">>
RecordingOpens == <<"load", "bgr", "depth_m", "fps">>
CaptureOpens   == <<"capture", "isOpened">>
ReceiverOpens  == <<"manager", "game port", "safety port">>
Opens(v) == IF v = "receiver" THEN ReceiverOpens
            ELSE CASE source = "realsense" -> RealSenseOpens
                   [] source = "recording" -> RecordingOpens
                   [] OTHER -> CaptureOpens

Goes(v, to) == stage' = [stage EXCEPT ![v] = to]
Frame == UNCHANGED gameConfig

OpenStage(v) ==
    /\ stage[v] = "opening" /\ opened[v] < Len(Opens(v))
    /\ opened' = [opened EXCEPT ![v] = @ + 1]
    /\ held' = [held EXCEPT ![v] = TRUE]
    /\ owned' = [owned EXCEPT ![v] = opened'[v] = Len(Opens(v))]
    /\ UNCHANGED <<maxM, stage, window, image, netVars, shown>> /\ Frame

\* A stage that fails lets go itself: close() knows only what is owned.
OpenFails(v) ==
    /\ stage[v] = "opening" /\ opened[v] < Len(Opens(v))
    /\ held' = [held EXCEPT ![v] = FALSE] /\ Goes(v, "closing")
    /\ UNCHANGED <<maxM, opened, owned, window, image, netVars, shown>> /\ Frame

OpenWindow(v) ==
    /\ stage[v] = "opening" /\ owned[v]
    /\ \/ window' = [window EXCEPT ![v] = TRUE] /\ Goes(v, "reading")
       \/ Goes(v, "closing") /\ UNCHANGED window
    /\ UNCHANGED <<maxM, opened, held, owned, image, netVars, shown>> /\ Frame

(* The sender reads a frame; recordings may lack depth, and so may end.    *)
Depths == CASE source = "realsense" -> 0..Furthest
            [] source = "recording" -> (0..Furthest) \cup {NoDepth}
            [] OTHER -> {NoDepth}

ReadFrame ==
    /\ stage["sender"] = "reading" /\ image["sender"].seq < MaxImages
    /\ \E d \in Depths :
         image' = [image EXCEPT !["sender"] =
                     [NoImage EXCEPT !.seq = image["sender"].seq + 1, !.depth = d]]
    /\ Goes("sender", "filtering")
    /\ UNCHANGED <<maxM, openVars, netVars, shown>> /\ Frame

\* No frame, or the end of the recording; for the receiver, no fresh
\* payload before the deadline that its two ports share.
NoFrame(v) ==
    /\ stage[v] \in {"reading", "reading safety"} /\ Goes(v, "closing")
    /\ UNCHANGED <<maxM, openVars, image, netVars, shown>> /\ Frame

(* GameVisionPipeline.process.                                             *)
DistanceVisibility(d) ==
    IF d = 0 THEN 0 ELSE IF d <= Clear THEN 2 ELSE IF d < maxM THEN 1 ELSE 0
FovVisibility == IF inFov THEN 1 ELSE 0
Filtered(d) ==
    IF d # NoDepth THEN DistanceVisibility(d) * FovVisibility
    ELSE IF source = "g1-rgb" THEN 0 ELSE 2 * FovVisibility

\* The pixel may be seen: the promise of the game, for the property below.
MayBeSeen(d) ==
    /\ inFov
    /\ IF d = NoDepth THEN source # "g1-rgb" ELSE d \in 1..(maxM - 1)

Filter ==
    /\ stage["sender"] = "filtering"
    /\ LET d == image["sender"].depth
       IN IF publishes # {} /\ d = NoDepth
          THEN Goes("sender", "closing") /\ UNCHANGED image
          ELSE /\ Goes("sender", IF publishes = {} THEN "showing" ELSE "publishing")
               /\ image' = [image EXCEPT !["sender"].rgb = Filtered(d),
                                         !["sender"].may = MayBeSeen(d)]
    /\ UNCHANGED <<maxM, openVars, netVars, shown>> /\ Frame

(* _encode_game_webp and _encode_safety_jpeg: the first is lossy but for   *)
(* its alpha, the second shows everything and has none.                    *)
GamePayloads(i) == {[i EXCEPT !.rgb = c, !.alpha = (i.rgb # 0)] : c \in 0..2}
SafetyPayload(i) == [i EXCEPT !.rgb = 2, !.alpha = FALSE, !.may = FALSE]

PublishGame ==
    /\ stage["sender"] = "publishing"
    /\ \E payload \in GamePayloads(image["sender"]) :
         wire' = [wire EXCEPT !["game"] = payload]
    /\ Goes("sender", IF "safety" \in publishes THEN "publishing safety" ELSE "showing")
    /\ UNCHANGED <<maxM, openVars, image, inbox, seen, shown>> /\ Frame

PublishSafety ==
    /\ stage["sender"] = "publishing safety"
    /\ wire' = [wire EXCEPT !["safety"] = SafetyPayload(image["sender"])]
    /\ Goes("sender", "showing")
    /\ UNCHANGED <<maxM, openVars, image, inbox, seen, shown>> /\ Frame

\* TeleImager: CONFLATE, so that what is not taken in time is overwritten.  The
\* subscriptions live from open() to close().
Deliver(p) ==
    /\ held["receiver"] /\ wire[p].seq > inbox[p].seq
    /\ inbox' = [inbox EXCEPT ![p] = wire[p]]
    /\ UNCHANGED <<maxM, stage, openVars, image, wire, seen, shown>> /\ Frame

(* _wait_for_fresh_payload of the port read, then the decoders.            *)
GamePort == IF mixedUp THEN "safety" ELSE "game"
SafetyPort == IF mixedUp THEN "game" ELSE "safety"

\* Mutant: any payload TeleImager has is taken for a fresh one.
FreshIfAny(p) == inbox[p].seq > 0

Fresh(p) == inbox[p].seq > seen[p]

\* Mutant: the decoder takes the colours as they are, without the mask.
DecodeOpaque(payload) == payload.rgb

DecodeGame(payload) == IF payload.alpha THEN payload.rgb ELSE 0

TakeGame ==
    /\ stage["receiver"] = "reading" /\ Fresh(GamePort)
    /\ seen' = [seen EXCEPT ![GamePort] = inbox[GamePort].seq]
    /\ image' = [image EXCEPT !["receiver"] = inbox[GamePort]]
    /\ Goes("receiver", IF "safety" \in publishes THEN "reading safety" ELSE "decoding")
    /\ UNCHANGED <<maxM, openVars, wire, inbox, shown>> /\ Frame

TakeSafety ==
    /\ stage["receiver"] = "reading safety" /\ Fresh(SafetyPort)
    /\ seen' = [seen EXCEPT ![SafetyPort] = inbox[SafetyPort].seq]
    /\ image' = [image EXCEPT !["receiver"].safety = inbox[SafetyPort].seq]
    /\ Goes("receiver", IF mixedUp THEN "closing" ELSE "decoding")
    /\ UNCHANGED <<maxM, openVars, wire, inbox, shown>> /\ Frame

\* An image without the mask is not of the game port.
Decode ==
    /\ stage["receiver"] = "decoding"
    /\ IF GamePort = "safety" THEN Goes("receiver", "closing") /\ UNCHANGED image
       ELSE /\ Goes("receiver", "showing")
            /\ image' = [image EXCEPT !["receiver"].rgb = DecodeGame(image["receiver"])]
    /\ UNCHANGED <<maxM, openVars, netVars, shown>> /\ Frame

(* The view is composed and a key handled; the presets and [ and ] move    *)
(* the sender's limit only.                                                *)
Show(v) ==
    /\ stage[v] = "showing"
    /\ shown' = [shown EXCEPT ![v] = image[v]]
    /\ \/ Goes(v, "reading") /\ UNCHANGED maxM
       \/ v = "sender" /\ maxM' \in (Clear + 1)..Furthest /\ Goes(v, "reading")
       \/ Goes(v, "closing") /\ UNCHANGED maxM
    /\ UNCHANGED <<openVars, image, netVars>> /\ Frame

(* The finally clauses: window, publisher and source, come what may.       *)
CloseViewer(v) ==
    /\ stage[v] = "closing"
    /\ window' = [window EXCEPT ![v] = FALSE]
    /\ held' = [held EXCEPT ![v] = held[v] /\ ~owned[v]]
    /\ owned' = [owned EXCEPT ![v] = FALSE]
    /\ Goes(v, "over")
    /\ UNCHANGED <<maxM, opened, image, netVars, shown>> /\ Frame

GameNext ==
    \/ \E v \in Viewers :
         OpenStage(v) \/ OpenFails(v) \/ OpenWindow(v) \/ NoFrame(v) \/ Show(v) \/ CloseViewer(v)
    \/ ReadFrame \/ Filter \/ PublishGame \/ PublishSafety
    \/ \E p \in Ports : Deliver(p)
    \/ TakeGame \/ TakeSafety \/ Decode
GameSpec == GameInit /\ [][GameNext]_gameVars
-----------------------------------------------------------------------------
HiddenStaysHidden == \A v \in Viewers : shown[v].rgb > 0 => shown[v].may
NothingIsHeld == \A v \in Viewers : stage[v] = "over" => ~held[v] /\ ~window[v]

(* No display of the game shows what the sender's limits hide, also after  *)
(* a lossy codec or with the ports mixed up; and a viewer that has ended,  *)
(* wherever it failed, holds neither a device nor a window.                *)
NothingSlipsOut == HiddenStaysHidden /\ NothingIsHeld

(* Every image the receiver shows, and every safety image in it, is newer  *)
(* than the one before: an interrupted link closes the view, it is never   *)
(* shown as live.                                                          *)
ReceiverShows == stage["receiver"] = "showing" /\ stage'["receiver"] # "showing"
NothingIsReplayed ==
    [][ReceiverShows =>
         /\ shown'["receiver"].seq > shown["receiver"].seq
         /\ "safety" \in publishes =>
              shown'["receiver"].safety > shown["receiver"].safety]_gameVars
=============================================================================
