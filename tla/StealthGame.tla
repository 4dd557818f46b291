------------------------------ MODULE StealthGame ------------------------------
(***************************************************************************)
(* The stealth game: StealthGameEngine turns what a frame shows of the     *)
(* player into suspicion and states, TargetTrackingController turns it     *)
(* into the direction the robot looks at.  Both see the same observation,  *)
(* but only the engine asks for its confidence; the time between two       *)
(* frames is whatever the camera takes.  Times are kept as ages, which     *)
(* stop counting at the limit they are compared with.                      *)
(***************************************************************************)
EXTENDS Integers, FiniteSetsExt

CONSTANTS Confirm,   \* detection_confirm_seconds
          LostGrace, \* lost_grace_seconds
          FoundDelay, AutoReset, \* game_over_delay_seconds, auto_reset_seconds
          LostHold,  \* lost_hold_seconds
          Gains,     \* gain_per_second, for each visibility score
          Decay,     \* decay_per_second
          Alert, Found, \* thresholds; that of SUSPICIOUS is 1
          MaxGap     \* the longest time between two frames

ASSUME StealthAssumption ==
    /\ Confirm \in Nat /\ LostGrace \in Nat /\ LostHold \in Nat
    /\ FoundDelay \in Nat \ {0} /\ AutoReset \in Nat \ {0} /\ Decay \in Nat \ {0}
    /\ MaxGap \in Nat \ {0} /\ Alert \in Nat /\ Found \in Nat /\ 1 < Alert /\ Alert < Found
    /\ Gains \subseteq Nat \ {0} /\ \E most \in Gains : \A g \in Gains : g <= most

None == -1
Yaws == {-1, 0, 1}
NoYaw == 2

VARIABLES resets,    \* round.auto_reset: a game that is over begins again by itself
          follows,   \* tracking.enabled
          game,      \* state
          suspicion,
          candidate, \* time since _candidate_since
          gone,      \* time since _missing_since
          confirmed, \* _confirmed_visible
          foundFor,  \* time since _found_at, then since _game_over_at
          aim,       \* target_yaw
          status,    \* the status of the tracking command
          lastSeen,  \* the yaw of last_seen_center_x
          seenAgo,   \* time since last_seen_at
          locked,    \* _locked_yaw
          tracked,   \* _previous_state
          showing,   \* the last frame showed a player
          events,    \* the events of the last update
          inView,    \* time of this round that ended in a frame with the player
          foundAt    \* where the player was when found

stealthConfig == <<resets, follows>>
stealthVars == <<stealthConfig, game, suspicion, candidate, gone, confirmed, foundFor, aim, status,
                 lastSeen, seenAgo, locked, tracked, showing, events, inView, foundAt>>

Over == {"FOUND", "GAME_OVER"}
Age(a, dt, limit) == IF a = None THEN None ELSE Min({a + dt, limit})
Within(x, hi) == Max({0, Min({x, hi})})

StealthInit ==
    /\ resets \in BOOLEAN /\ follows \in BOOLEAN
    /\ game = "UNAWARE" /\ suspicion = 0 /\ candidate = None /\ gone = None
    /\ confirmed = FALSE /\ foundFor = None
    /\ aim = 0 /\ status = "OFF" /\ lastSeen = NoYaw /\ seenAgo = None
    /\ locked = NoYaw /\ tracked = "UNAWARE"
    /\ showing = FALSE /\ events = {} /\ inView = 0 /\ foundAt = NoYaw

(* map_detections: of the detections of the player's label one is taken;   *)
(* where it is, and whether its confidence reaches the threshold.          *)
Missing == [visible |-> FALSE, sure |-> FALSE, yaw |-> 0]
Observations == {Missing} \cup [visible : {TRUE}, sure : BOOLEAN, yaw : Yaws]

StateOf(s) == IF s >= Found THEN "FOUND" ELSE IF s >= Alert THEN "ALERT"
              ELSE IF s >= 1 THEN "SUSPICIOUS" ELSE "UNAWARE"

(* _append_transition_events.                                              *)
Transition(from, to) ==
    {e \in {"SUSPICION_STARTED"} : from = "UNAWARE" /\ to # "UNAWARE"}
    \cup {e \in {"ALERT_STARTED"} : from \in {"UNAWARE", "SUSPICIOUS"} /\ to \in {"ALERT", "FOUND"}}
    \cup {e \in {"PLAYER_FOUND"} : to = "FOUND" /\ from # "FOUND"}
    \cup {e \in {"RETURNED_TO_UNAWARE"} : to = "UNAWARE" /\ from \in {"SUSPICIOUS", "ALERT"}}

\* StealthGameEngine.reset.
NewRound ==
    /\ game' = "UNAWARE" /\ suspicion' = 0 /\ candidate' = None /\ gone' = None
    /\ confirmed' = FALSE /\ foundFor' = None /\ inView' = 0 /\ foundAt' = NoYaw

(* The player is seen, or not: confirmation and grace.  A confirmation     *)
(* counts the time since its first frame as exposure.                      *)
See(dt) ==
    /\ gone' = None
    /\ IF confirmed THEN UNCHANGED <<candidate, confirmed>>
       ELSE LET since == IF candidate = None THEN 0 ELSE Age(candidate, dt, Confirm)
            IN /\ confirmed' = (since >= Confirm)
               /\ candidate' = IF confirmed' THEN None ELSE since

\* Mutant: the time of a confirmation is added to that of its last frame.
ExposureTwice(dt) == dt + (IF candidate = None THEN 0 ELSE candidate + dt)

Exposure(dt) ==
    IF confirmed THEN dt
    ELSE Max({dt, IF candidate = None THEN 0 ELSE candidate + dt})

\* Mutant: every frame without the player starts the grace again.
MissStartsAgain(dt) ==
    /\ candidate' = None /\ gone' = (IF confirmed THEN 0 ELSE gone)
    /\ UNCHANGED confirmed

Miss(dt) ==
    LET for == IF gone = None THEN 0 ELSE Age(gone, dt, LostGrace)
    IN /\ candidate' = None
       /\ IF ~confirmed THEN UNCHANGED <<gone, confirmed>>
          ELSE /\ confirmed' = (for < LostGrace)
               /\ gone' = IF confirmed' THEN for ELSE None

Suspect(o, dt) ==
    /\ \E gain \in Gains :
         suspicion' = Within(IF o.sure /\ confirmed' THEN suspicion + gain * Exposure(dt)
                             ELSE IF ~confirmed' THEN suspicion - Decay * dt
                             ELSE suspicion, Found)
    /\ game' = StateOf(suspicion')
    /\ events' = Transition(game, game')
                 \cup {e \in {"PLAYER_LOST"} : confirmed /\ ~confirmed'}
    /\ foundFor' = IF game' = "FOUND" THEN 0 ELSE None
    /\ foundAt' = IF game' = "FOUND" THEN o.yaw ELSE NoYaw
    /\ inView' = Min({inView + (IF o.sure THEN dt ELSE 0), Found})

(* StealthGameEngine.update.                                               *)
Sneaking(o, dt) ==
    /\ game \notin Over
    /\ IF o.sure THEN See(dt) ELSE Miss(dt)
    /\ Suspect(o, dt)

FoundWaits(dt) ==
    /\ game = "FOUND"
    /\ IF foundFor + dt >= FoundDelay
       THEN game' = "GAME_OVER" /\ foundFor' = 0 /\ events' = {"GAME_OVER"}
       ELSE foundFor' = foundFor + dt /\ events' = {} /\ UNCHANGED game
    /\ UNCHANGED <<suspicion, candidate, gone, confirmed, inView, foundAt>>

GameIsOver(dt) ==
    /\ game = "GAME_OVER" /\ (foundFor + dt < AutoReset \/ ~resets)
    /\ foundFor' = Age(foundFor, dt, AutoReset) /\ events' = {}
    /\ UNCHANGED <<game, suspicion, candidate, gone, confirmed, inView, foundAt>>

\* The frame that resets is looked at in the new round, with no time passed.
ResetsItself(o, dt) ==
    /\ game = "GAME_OVER" /\ resets /\ foundFor + dt >= AutoReset
    /\ game' = "UNAWARE" /\ suspicion' = 0 /\ gone' = None /\ foundFor' = None
    /\ confirmed' = (o.sure /\ Confirm = 0)
    /\ candidate' = IF o.sure /\ ~confirmed' THEN 0 ELSE None
    /\ events' = {} /\ inView' = 0 /\ foundAt' = NoYaw

(* TargetTrackingController.update, with the state just reached.           *)
Seen(o) == o.visible /\ (game' \notin Over \/ (follows /\ tracked \notin Over))
Track(o, dt) ==
    /\ lastSeen' = IF Seen(o) THEN o.yaw ELSE lastSeen
    /\ seenAgo' = IF Seen(o) THEN 0 ELSE Age(seenAgo, dt, LostHold + 1)
    /\ LET seenYaw == IF lastSeen' = NoYaw THEN aim ELSE lastSeen'
       IN CASE ~follows -> status' = "OFF" /\ aim' = 0 /\ UNCHANGED locked
            [] follows /\ game' = "UNAWARE" -> status' = "RECENTER" /\ aim' = 0 /\ locked' = NoYaw
            [] follows /\ game' \in Over ->
                 /\ status' = "LOCKED"
                 /\ locked' = IF tracked \notin Over THEN seenYaw ELSE locked
                 /\ aim' = locked'
            [] follows /\ game' \notin Over \cup {"UNAWARE"} ->
                 /\ UNCHANGED locked
                 /\ IF o.visible THEN status' = "ACTIVE" /\ aim' = o.yaw
                    ELSE IF seenAgo' \in 0..LostHold THEN status' = "HOLD" /\ aim' = seenYaw
                    ELSE status' = "RECENTER" /\ aim' = 0
    /\ tracked' = game'

(* process_target of one frame.                                            *)
ProcessTarget(o, dt) ==
    /\ Sneaking(o, dt) \/ FoundWaits(dt) \/ GameIsOver(dt) \/ ResetsItself(o, dt)
    /\ Track(o, dt)
    /\ showing' = o.visible /\ UNCHANGED stealthConfig

\* The key r: reset_game resets both.
ResetGame ==
    /\ NewRound /\ events' = {}
    /\ aim' = 0 /\ status' = "OFF" /\ lastSeen' = NoYaw /\ seenAgo' = None
    /\ locked' = NoYaw /\ tracked' = "UNAWARE"
    /\ UNCHANGED <<stealthConfig, showing>>

StealthNext ==
    \/ \E o \in Observations, dt \in 0..MaxGap : ProcessTarget(o, dt)
    \/ ResetGame

\* A frame in which the player is not to be seen; each takes the camera some time.
Unseen == \E dt \in 1..MaxGap : ProcessTarget(Missing, dt)

\* While the player stays away such frames come.  (One who stays in view is left out
\* with it; GameLetsGo says nothing of that.)
StealthFairness == WF_stealthVars(Unseen)
StealthSpec == StealthInit /\ [][StealthNext]_stealthVars /\ StealthFairness
-----------------------------------------------------------------------------
(* Nobody is found but by the time the frames of this round had the player *)
(* in view, whatever flickers and grace there were; and while the game is  *)
(* over a robot that follows looks where the player was found, wherever    *)
(* the player goes and whatever a detection below the threshold shows.     *)
FoundIsEarned ==
    /\ suspicion <= inView * Max(Gains)
    /\ follows /\ game \in Over => aim = foundAt /\ status = "LOCKED"

(* A player who stays away is forgotten: the game and the robot's          *)
(* attention return to rest.  So does a game that is over, but for one     *)
(* that only the key resets (auto_reset is false): it stays over.          *)
GameLetsGo == <>[]~showing => \/ <>[](game = "UNAWARE" /\ aim = 0)
                              \/ <>[](game = "GAME_OVER" /\ ~resets)
=============================================================================
