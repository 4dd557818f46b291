------------------------------- MODULE Trackers -------------------------------
(***************************************************************************)
(* BottleTracker and MusicStateTracker: what the camera and the microphone *)
(* report, debounced into events.  Both count time from the first report   *)
(* of a kind, and both have two thresholds so that a value between them    *)
(* changes nothing.  Times are ages that stop at the limit they are        *)
(* compared with; reports come when they come.                             *)
(***************************************************************************)
EXTENDS Integers, FiniteSetsExt

CONSTANTS BottleConfirm, BottleLost, FoundAgain,  \* times of the bottle
          MusicConfirm, MusicLost, MusicCooldown, \* times of the music
          MaxStep                                 \* the longest gap

ASSUME TrackersAssumption ==
    /\ BottleConfirm \in Nat /\ BottleLost \in Nat /\ FoundAgain \in Nat
    /\ MusicConfirm \in Nat \ {0} /\ MusicLost \in Nat \ {0} /\ MusicCooldown \in Nat \ {0}
    /\ MaxStep \in Nat \ {0}

VARIABLES bottle,       \* BottleState
          encountered,  \* encounter_count > 0
          detectedFor, missingFor, lostAgo,
          bottleEvent,  \* the event of the last update
          music,        \* MusicState
          candidateFor, quietFor, \* times of a candidate, and of lost music
          coolingFor,
          musicEvent,
          inSight,      \* history: how long every report showed the bottle
          outOfSight,   \* ... or how long none did
          farthest,     \* ... its least nearness since it got too close
          loudFor, softFor, \* ... and the same of the music's thresholds
          musicRest     \* ... how long ago music stopped, as an event

bottleVars == <<bottle, encountered, detectedFor, missingFor, lostAgo, bottleEvent,
                inSight, outOfSight, farthest>>
musicVars == <<music, candidateFor, quietFor, coolingFor, musicEvent,
               loudFor, softFor, musicRest>>
trackerVars == <<bottleVars, musicVars>>

NoTime == -1
NoEvent == "-"
Elapsed(a, dt, limit) == IF a = NoTime THEN NoTime ELSE Min({a + dt, limit})
Begun(a, dt, limit) == IF a = NoTime THEN 0 ELSE Elapsed(a, dt, limit)
Visible == {"FAR", "NEAR", "TOO_CLOSE"}

TrackersInit ==
    /\ bottle = "NO_BOTTLE" /\ encountered = FALSE /\ detectedFor = NoTime
    /\ missingFor = NoTime /\ lostAgo = NoTime /\ bottleEvent = NoEvent
    /\ music = "QUIET" /\ candidateFor = NoTime /\ quietFor = NoTime /\ coolingFor = NoTime
    /\ musicEvent = NoEvent
    /\ inSight = NoTime /\ outOfSight = NoTime /\ farthest = 0
    /\ loudFor = NoTime /\ softFor = NoTime /\ musicRest = NoTime

(* The nearness of a bottle, between the four thresholds: near_exit,       *)
(* near_enter, too_close_exit, too_close_enter.                            *)
Nearness == 0..4

\* _on_detected: a bottle that was not there must stay for a while.
FirstNearness(n) == IF n = 4 THEN "TOO_CLOSE" ELSE IF n >= 2 THEN "NEAR" ELSE "FAR"
Appears(n, dt) ==
    LET for == Begun(detectedFor, dt, BottleConfirm)
    IN /\ bottle \notin Visible
       /\ lostAgo' = Elapsed(lostAgo, dt, FoundAgain + 1) /\ missingFor' = NoTime
       /\ IF for < BottleConfirm
          THEN detectedFor' = for /\ bottleEvent' = NoEvent /\ UNCHANGED <<bottle, encountered>>
          ELSE /\ detectedFor' = NoTime /\ bottle' = FirstNearness(n) /\ encountered' = TRUE
               /\ bottleEvent' = IF encountered /\ lostAgo' \in 0..FoundAgain
                                 THEN "FOUND_AGAIN" ELSE "FOUND"

\* _update_proximity.
Moved(n) ==
    CASE n = 4 -> "TOO_CLOSE"
      [] bottle = "FAR" /\ n \in 2..3 -> "NEAR"
      [] bottle = "NEAR" /\ n = 0 -> "FAR"
      [] bottle = "TOO_CLOSE" /\ n \in 1..2 -> "NEAR"
      [] bottle = "TOO_CLOSE" /\ n = 0 -> "FAR"
      [] OTHER -> bottle
Moves(n, dt) ==
    /\ bottle \in Visible
    /\ bottle' = Moved(n)
    /\ bottleEvent' = IF bottle' \in {bottle, "FAR"} THEN NoEvent ELSE bottle'
    /\ detectedFor' = NoTime /\ missingFor' = NoTime /\ lostAgo' = Elapsed(lostAgo, dt, FoundAgain + 1)
    /\ UNCHANGED encountered

\* _on_missing.
Vanishes(dt) ==
    LET for == Begun(missingFor, dt, BottleLost)
        lost == bottle \in Visible /\ for >= BottleLost
    IN /\ detectedFor' = NoTime
       /\ missingFor' = IF bottle \notin Visible \/ lost THEN NoTime ELSE for
       /\ bottle' = IF lost THEN "LOST" ELSE bottle
       /\ lostAgo' = IF lost THEN 0 ELSE Elapsed(lostAgo, dt, FoundAgain + 1)
       /\ bottleEvent' = IF lost THEN "LOST" ELSE NoEvent
       /\ UNCHANGED encountered

BottleReport(seen, n, dt) ==
    /\ IF seen THEN Appears(n, dt) \/ Moves(n, dt) ELSE Vanishes(dt)
    /\ inSight' = IF seen THEN Begun(inSight, dt, BottleConfirm) ELSE NoTime
    /\ outOfSight' = IF seen THEN NoTime ELSE Begun(outOfSight, dt, BottleLost)
    /\ farthest' = IF bottle' = "LOST" THEN 0
                   ELSE IF bottle' = "TOO_CLOSE" /\ bottle # "TOO_CLOSE" THEN 4
                   ELSE IF seen THEN Min({farthest, n}) ELSE farthest
    /\ UNCHANGED musicVars

(* The score of a chunk: below the stop threshold, between the two, or     *)
(* at least the start threshold.                                           *)
Scores == {"soft", "between", "loud"}

Quiet(score) ==
    /\ music = "QUIET"
    /\ IF score = "loud" THEN music' = "MUSIC_CANDIDATE" /\ candidateFor' = 0
       ELSE UNCHANGED <<music, candidateFor>>
    /\ musicEvent' = NoEvent /\ UNCHANGED <<quietFor, coolingFor>>

Candidate(score, dt) ==
    /\ music = "MUSIC_CANDIDATE"
    /\ CASE score # "loud" -> music' = "QUIET" /\ candidateFor' = NoTime /\ musicEvent' = NoEvent
         [] score = "loud" /\ candidateFor + dt >= MusicConfirm ->
              music' = "MUSIC_PLAYING" /\ candidateFor' = NoTime /\ musicEvent' = "MUSIC_STARTED"
         [] OTHER -> candidateFor' = candidateFor + dt /\ musicEvent' = NoEvent /\ UNCHANGED music
    /\ UNCHANGED <<quietFor, coolingFor>>

Playing(score, dt) ==
    LET lost == score = "soft" /\ quietFor # NoTime /\ quietFor + dt >= MusicLost
    IN /\ music = "MUSIC_PLAYING"
       /\ music' = IF lost THEN "COOLDOWN" ELSE music
       /\ coolingFor' = IF lost THEN 0 ELSE coolingFor
       /\ quietFor' = IF lost \/ score # "soft" THEN NoTime ELSE Begun(quietFor, dt, MusicLost)
       /\ musicEvent' = IF lost THEN "MUSIC_STOPPED" ELSE NoEvent
       /\ UNCHANGED candidateFor

Cooling(score, dt) ==
    /\ music = "COOLDOWN"
    /\ IF coolingFor + dt < MusicCooldown
       THEN coolingFor' = coolingFor + dt /\ UNCHANGED <<music, candidateFor>>
       ELSE /\ coolingFor' = NoTime
            /\ music' = IF score = "loud" THEN "MUSIC_CANDIDATE" ELSE "QUIET"
            /\ candidateFor' = IF score = "loud" THEN 0 ELSE candidateFor
    /\ musicEvent' = NoEvent /\ UNCHANGED quietFor

MusicReport(score, dt) ==
    /\ Quiet(score) \/ Candidate(score, dt) \/ Playing(score, dt) \/ Cooling(score, dt)
    /\ loudFor' = IF score = "loud" THEN Begun(loudFor, dt, MusicConfirm) ELSE NoTime
    /\ softFor' = IF score = "soft" THEN Begun(softFor, dt, MusicLost) ELSE NoTime
    /\ musicRest' = IF musicEvent' = "MUSIC_STOPPED" THEN 0
                    ELSE Elapsed(musicRest, dt, MusicCooldown + MusicConfirm)
    /\ UNCHANGED bottleVars

TrackersNext ==
    \E dt \in 0..MaxStep :
       \/ \E seen \in BOOLEAN, n \in Nearness : BottleReport(seen, n, dt)
       \/ \E score \in Scores : MusicReport(score, dt)
TrackersSpec == TrackersInit /\ [][TrackersNext]_trackerVars
-----------------------------------------------------------------------------
(* Events are earned over time and not by a flicker: a bottle is found and *)
(* lost only after reports that all say so for long enough, and is too     *)
(* close again only once it has left the margin; music starts and stops    *)
(* after as long of steady scores, and starts again only after its rest.   *)
Becomes(state, from, to) == state[1] \in from /\ state[2] \in to
EventsAreEarned ==
    [][/\ Becomes(<<bottle, bottle'>>, {"NO_BOTTLE", "LOST"}, Visible) => inSight' >= BottleConfirm
       /\ Becomes(<<bottle, bottle'>>, Visible, {"LOST"}) => outOfSight' >= BottleLost
       /\ Becomes(<<bottle, bottle'>>, {"FAR", "NEAR"}, {"TOO_CLOSE"}) => farthest <= 2
       /\ Becomes(<<music, music'>>, {"MUSIC_CANDIDATE"}, {"MUSIC_PLAYING"}) =>
            loudFor' >= MusicConfirm /\ musicRest' \in {NoTime, MusicCooldown + MusicConfirm}
       /\ Becomes(<<music, music'>>, {"MUSIC_PLAYING"}, {"COOLDOWN"}) => softFor' >= MusicLost
      ]_trackerVars
=============================================================================
