------------------------------- MODULE FoundGate -------------------------------
(***************************************************************************)
(* One FoundGate: it turns results of the detector into triggers.  Its     *)
(* target must be seen for a while, and after a trigger be away for a      *)
(* while before the next.  The camera loop looks at the latest result as   *)
(* often as it likes; it suspends the gate while the patrol inhibits its   *)
(* target, and select_audio_trigger keeps it quiet while a more important  *)
(* target is in view or a reaction runs.                                   *)
(***************************************************************************)
EXTENDS Integers, FiniteSetsExt

CONSTANTS Duration, \* how long a target must be seen
          Grace,    \* the longest gap between two results
          Cooldown, \* how long a gate rests after a trigger
          Rearm,    \* rearm_absence
          MaxAge,   \* 0.5 s: the oldest result that counts as live
          GateTime  \* bound on the clock

ASSUME GateAssumption ==
    /\ Duration \in Nat \ {0} /\ Grace \in Nat \ {0} /\ Cooldown \in Nat \ {0}
    /\ Rearm \in Nat \ {0} /\ MaxAge \in Nat \ {0} /\ GateTime \in Nat \ {0}

VARIABLES clock,
          result,     \* the detector's latest: its frame's stamp, what it shows
          until,      \* end of the cooldown
          waiting,    \* waiting_clear
          clearStart, clearLast,
          start, lastSeen,
          lastSample,
          eligibleAfter,
          seenSince,  \* history: since when results show the target
          seenLast,   \* ... the last of them
          awaySince,  \* ... since when they show it away
          rearmed     \* ... it has been away for long enough since its trigger

detection == <<start, lastSeen>>
absence == <<clearStart, clearLast>>
gateHistory == <<seenSince, seenLast, awaySince, rearmed>>
gateVars == <<clock, result, until, waiting, absence, detection, lastSample,
              eligibleAfter, gateHistory>>

Never == -1

GateInit ==
    /\ clock = 0 /\ result = [running |-> FALSE, stamp |-> Never, shows |-> {}]
    /\ until = 0 /\ waiting = FALSE /\ clearStart = Never /\ clearLast = Never
    /\ start = Never /\ lastSeen = Never /\ lastSample = Never /\ eligibleAfter = Never
    /\ seenSince = Never /\ seenLast = Never /\ awaySince = Never /\ rearmed = TRUE

(* What a result shows: the gate's target, one of higher priority, and a   *)
(* person whose box covers the place where the target was last seen: such  *)
(* a result does not count as the target's absence (plushies only).        *)
Sights == {"target", "rival", "cover"}

\* A later frame's result, or the detector has none to show.
NewResult ==
    /\ \/ /\ \E shows \in SUBSET Sights, stamp \in (clock - 1)..clock :
               /\ stamp > result.stamp
               /\ result' = [running |-> TRUE, stamp |-> stamp, shows |-> shows]
       \/ result.running /\ result' = [result EXCEPT !.running = FALSE]
    /\ UNCHANGED <<clock, until, waiting, absence, detection, lastSample, eligibleAfter,
                   gateHistory>>

GateTick ==
    /\ clock < GateTime /\ clock' = clock + 1
    /\ UNCHANGED <<result, until, waiting, absence, detection, lastSample, eligibleAfter,
                   gateHistory>>

(* visible_detection: a stale result shows nothing and is not running.     *)
Running == result.running /\ clock - result.stamp <= MaxAge
Shows(what) == Running /\ what \in result.shows

\* A gap longer than the grace breaks the absence and the confirmation.
Gap(since) == since # Never /\ clock - since > Grace
NoAbsence == clearStart' = Never /\ clearLast' = Never
NoDetection == start' = Never /\ lastSeen' = Never
KeepAbsence == IF waiting /\ Gap(clearLast) THEN NoAbsence ELSE UNCHANGED absence
KeepDetection == IF Gap(lastSeen) THEN NoDetection ELSE UNCHANGED detection
Counts == result.stamp > lastSample
Eligible == Counts /\ result.stamp > eligibleAfter /\ clock - result.stamp <= Grace

(* suspend(), when the gate is not asked as well.                          *)
Suspend ==
    /\ NoAbsence /\ NoDetection
    /\ UNCHANGED <<until, waiting, lastSample, eligibleAfter>>

(* FoundGate.update, in the order of its returns.                          *)
Cooling == clock < until
Cool == Cooling /\ UNCHANGED <<until, waiting, absence, detection, lastSample, eligibleAfter>>
NotRunning == ~Cooling /\ ~Running /\ Suspend

OldResult ==
    /\ ~Cooling /\ Running /\ ~Eligible
    /\ KeepAbsence /\ KeepDetection
    /\ lastSample' = IF Counts THEN result.stamp ELSE lastSample
    /\ UNCHANGED <<until, waiting, eligibleAfter>>

\* The target has triggered: only its absence for long enough rearms the gate.
WaitClear ==
    LET since == IF clearStart = Never \/ Gap(clearLast) THEN result.stamp ELSE clearStart
    IN /\ ~Cooling /\ Running /\ Eligible /\ waiting
       /\ lastSample' = result.stamp
       /\ IF Shows("target") \/ Shows("cover")
          THEN NoAbsence /\ KeepDetection /\ UNCHANGED <<waiting, eligibleAfter>>
          ELSE IF result.stamp - since >= Rearm
          THEN NoAbsence /\ NoDetection /\ waiting' = FALSE /\ eligibleAfter' = result.stamp
          ELSE clearStart' = since /\ clearLast' = result.stamp /\ KeepDetection
               /\ UNCHANGED <<waiting, eligibleAfter>>
       /\ UNCHANGED until

\* Brief negative results do not reset the positive interval.
Unseen ==
    /\ ~Cooling /\ Running /\ Eligible /\ ~waiting /\ ~Shows("target")
    /\ lastSample' = result.stamp /\ KeepDetection
    /\ UNCHANGED <<until, waiting, absence, eligibleAfter>>

\* Mutant: a gap between two results does not start the confirmation again.
SinceFirst == IF start = Never THEN result.stamp ELSE start

Since == IF start = Never \/ Gap(lastSeen) THEN result.stamp ELSE start
Confirmed(quiet) == result.stamp - Since >= Duration /\ ~quiet
SeenNow(quiet) ==
    /\ ~Cooling /\ Running /\ Eligible /\ ~waiting /\ Shows("target")
    /\ lastSample' = result.stamp
    /\ IF Confirmed(quiet)
       THEN /\ NoDetection /\ waiting' = TRUE
            /\ until' = clock + Cooldown /\ eligibleAfter' = clock + Cooldown
       ELSE /\ start' = Since /\ lastSeen' = result.stamp
            /\ UNCHANGED <<until, waiting, eligibleAfter>>
    /\ UNCHANGED absence

Triggers == until' > until

(* The history of what the loop was shown.                                 *)
Chained == seenLast # Never /\ result.stamp - seenLast <= Grace
Remember ==
    /\ seenLast' = IF Shows("target") THEN result.stamp ELSE IF Running THEN seenLast ELSE Never
    /\ seenSince' = IF ~Running THEN Never
                    ELSE IF Shows("target") /\ ~Chained THEN result.stamp ELSE seenSince
    /\ awaySince' = IF ~Running \/ rearmed \/ Shows("target") \/ Shows("cover") THEN Never
                    ELSE IF awaySince = Never THEN result.stamp ELSE awaySince
    /\ rearmed' = (~Triggers /\ (rearmed \/ (awaySince' # Never /\ result.stamp - awaySince' >= Rearm)))

(* One round of the camera loop: select_audio_trigger asks the gate, or    *)
(* leaves it alone when its target is inhibited.                           *)
Ask(busy) ==
    Cool \/ NotRunning \/ OldResult \/ WaitClear \/ Unseen \/ SeenNow(busy \/ Shows("rival"))
Look ==
    /\ Suspend \/ \E busy \in BOOLEAN : Ask(busy)
    /\ Remember
    /\ UNCHANGED <<clock, result>>

GateNext == NewResult \/ GateTick \/ Look
GateSpec == GateInit /\ [][GateNext]_gateVars
-----------------------------------------------------------------------------
(* A trigger rests on results that show its target for long enough, the    *)
(* last of them fresh, with no gap beyond the grace nor a silent detector  *)
(* in between and nothing more important in view; and between two triggers *)
(* the target was away for long enough.                                    *)
TriggersAreEarned ==
    [][Triggers =>
         /\ clock - seenLast' <= Grace
         /\ seenLast' - seenSince' >= Duration
         /\ ~Shows("rival")
         /\ rearmed]_gateVars
=============================================================================
