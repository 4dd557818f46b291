------------------------------ MODULE SlamSession -------------------------------
(* One mapping session of scripts/g1-slam-session.py: a recorder that writes    *)
(* what it hears of the robot's pose to a file, and commands, each a process of *)
(* its own started by hand, that send one request to the robot: start mapping,  *)
(* save the map, relocate in it from the pose frozen for the save, or from      *)
(* zero.  What was tried and what came of it are files of the session, so that  *)
(* a command that died is not repeated.  Time is counted in telemetry periods.  *)
EXTENDS Integers, FiniteSets, Sequences

CONSTANTS Operators,   \* the processes that may run a command at a time
          MaxCommands, \* bound: commands given
          MaxNow,      \* bound: the periods of a session
          MaxMoves,    \* bound: how often the robot is moved
          PoseAge,     \* telemetry_max_age_s
          Window,      \* stable_window_s
          MinSamples,  \* stable_min_samples
          SeedAge,     \* max_seed_age_s
          NoSeed       \* None, for a request without a pose

ASSUME SlamAssumption ==
    /\ IsFiniteSet(Operators) /\ "nobody" \notin Operators
    /\ MaxCommands \in Nat /\ MaxNow \in Nat /\ MaxMoves \in Nat /\ PoseAge \in Nat
    /\ Window \in Nat /\ SeedAge \in Nat /\ MinSamples \in Nat \ {0}

VARIABLES uptime, place, \* the monotonic clock; where the robot stands
          recorder,     \* "new", "on" or "over": telemetry.jsonl is created once
          poses,        \* its queue of mapping odometry
          telemetry,    \* telemetry.json: [at, samples]
          step,         \* per operator: "idle", "asked", "tries", "called"
          action,       \* what each asks for
          holder,       \* of g1-slam-command.lock
          attempted,    \* the attempt files there are
          seed,         \* the pose each of them holds
          outcomes,     \* the result files: "none", "bad", or "ok"
          startedAt,    \* finished_ns of the start
          rebooted,     \* the host has another boot_id
          sent,         \* history: the requests that reached the robot
          given

slamFiles == <<attempted, seed, outcomes, startedAt>>
slamVars == <<uptime, place, recorder, poses, telemetry, step, action, holder, slamFiles,
              rebooted, sent, given>>

SlamActions == {"start", "save", "relocate", "zero"}
\* relocate and relocate-static-zero are one request of the robot, 1804.
SameCall(a) == IF a \in {"relocate", "zero"} THEN {"relocate", "zero"} ELSE {a}

SlamInit ==
    /\ uptime = 1 /\ place = 0
    /\ recorder = "new" /\ poses = {} /\ telemetry = [at |-> 0, samples |-> {}]
    /\ step = [p \in Operators |-> "idle"] /\ action = [p \in Operators |-> "start"]
    /\ holder = "nobody"
    /\ attempted = {} /\ seed = [a \in SlamActions |-> NoSeed]
    /\ outcomes = [a \in SlamActions |-> "none"]
    /\ startedAt = 0 /\ rebooted = FALSE /\ sent = <<>> /\ given = 0

-----------------------------------------------------------------------------------
(* The robot, the clock and the recorder. *)

Passes ==
    /\ uptime < MaxNow /\ uptime' = uptime + 1
    /\ UNCHANGED <<place, recorder, poses, telemetry, step, action, holder, slamFiles, rebooted,
                   sent, given>>

IsMoved ==
    /\ place < MaxMoves /\ place' = place + 1
    /\ UNCHANGED <<uptime, recorder, poses, telemetry, step, action, holder, slamFiles, rebooted,
                   sent, given>>

\* record: the poses of a window and a little more are kept; the file is written, with the
\* time, whether something was heard or not.
WritePoses ==
    /\ recorder \in {"new", "on"} /\ ~rebooted /\ recorder' = "on"
    /\ \E new \in SUBSET {[at |-> uptime, place |-> place]} :
         poses' = {s \in poses \cup new : new # {} => s.at + Window + 1 >= uptime}
    /\ telemetry' = [at |-> uptime, samples |-> poses']
    /\ UNCHANGED <<uptime, place, step, action, holder, slamFiles, rebooted, sent, given>>

\* It ends; the log it left forbids another.
RecorderEnds ==
    /\ recorder = "on" /\ recorder' = "over" /\ poses' = {}
    /\ UNCHANGED <<uptime, place, telemetry, step, action, holder, slamFiles, rebooted,
                   sent, given>>

-----------------------------------------------------------------------------------
(* What a command asks before it is sent. *)

\* snapshot, with fresh.
TelemetryIsFresh ==
    ~rebooted /\ telemetry.at \in 1..uptime /\ uptime <= telemetry.at + PoseAge

\* stable_pose: enough poses since the mapping was started, the newest of them fresh, over a
\* window long enough, all of them where the newest is.
After(after) == {s \in telemetry.samples : s.at > after}
Newest(samples) == CHOOSE s \in samples : \A r \in samples : r.at <= s.at
Stable(after) ==
    LET samples == After(after) IN
    /\ Cardinality(samples) >= MinSamples
    /\ uptime <= Newest(samples).at + PoseAge
    /\ \E s \in samples : s.at + Window <= Newest(samples).at
    /\ \A s \in samples : s.place = Newest(samples).place

SeedIsYoung == seed["save"] # NoSeed /\ seed["save"].at \in uptime - SeedAge .. uptime

\* prepare.  Whether the operator confirms to stand still, or to accept the seed, is asked
\* for, not known.
Prepared(a) ==
    /\ TelemetryIsFresh
    /\ SameCall(a) \cap attempted = {}
    /\ a = "save" => outcomes["start"] = "ok" /\ Stable(startedAt)
    /\ a \in {"relocate", "zero"} => outcomes["save"] = "ok"
    /\ a = "relocate" => SeedIsYoung

SeedOf(a) == CASE a = "save" -> Newest(After(startedAt))
               [] a = "relocate" -> seed["save"]
               [] OTHER -> NoSeed

-----------------------------------------------------------------------------------
(* command. *)

To(p, label) == step' = [step EXCEPT ![p] = label]
\* The process has ended, and with it what it asked for.
Over(p) == To(p, "idle") /\ action' = [action EXCEPT ![p] = "start"]

AskFor(p, a) ==
    /\ step[p] = "idle" /\ given < MaxCommands /\ given' = given + 1
    /\ Prepared(a) /\ To(p, "asked") /\ action' = [action EXCEPT ![p] = a]
    /\ UNCHANGED <<uptime, place, recorder, poses, telemetry, holder, slamFiles, rebooted, sent>>

\* Mutant: what was asked before the lock is not asked again under it.
TryUnasked(p) ==
    /\ step[p] = "asked" /\ holder = "nobody"
    /\ IF action[p] \notin attempted
       THEN holder' = p /\ To(p, "tries") /\ action' = action
            /\ attempted' = attempted \cup {action[p]}
            /\ seed' = [seed EXCEPT ![action[p]] = SeedOf(action[p])]
       ELSE Over(p) /\ UNCHANGED <<holder, attempted, seed>>
    /\ UNCHANGED <<uptime, place, recorder, poses, telemetry, outcomes, startedAt, rebooted,
                   sent, given>>

\* Under the lock it is asked again, and the attempt is on the disk before anything else.
Try(p) ==
    /\ step[p] = "asked" /\ holder = "nobody"
    /\ IF Prepared(action[p])
       THEN holder' = p /\ To(p, "tries") /\ action' = action
            /\ attempted' = attempted \cup {action[p]}
            /\ seed' = [seed EXCEPT ![action[p]] = SeedOf(action[p])]
       ELSE Over(p) /\ UNCHANGED <<holder, attempted, seed>>
    /\ UNCHANGED <<uptime, place, recorder, poses, telemetry, outcomes, startedAt, rebooted,
                   sent, given>>

\* Another command holds the lock: refused, not waited for.
FindsLocked(p) ==
    /\ step[p] = "asked" /\ holder # "nobody" /\ Over(p)
    /\ UNCHANGED <<uptime, place, recorder, poses, telemetry, holder, slamFiles, rebooted,
                   sent, given>>

Request(a, pose) == [action |-> a, seed |-> pose, at |-> uptime]

\* The client has been made, which may have taken long: the telemetry is looked at once more,
\* a save freezes the pose anew, and a seed that has grown old is not sent.
CallRobot(p) ==
    /\ step[p] = "tries" /\ TelemetryIsFresh
    /\ LET a == action[p] IN
       /\ a = "save" => Stable(startedAt)
       /\ a = "relocate" => SeedIsYoung
       /\ seed' = IF a = "save" THEN [seed EXCEPT ![a] = SeedOf(a)] ELSE seed
       /\ sent' = Append(sent, Request(a, seed'[a]))
    /\ To(p, "called")
    /\ UNCHANGED <<uptime, place, recorder, poses, telemetry, action, holder, attempted, outcomes,
                   startedAt, rebooted, given>>

\* The result is on the disk before the lock is given back: the robot's answer, or an
\* error on the way, before the request or in place of its answer.
Finish(p, outcome) ==
    /\ step[p] = "called" \/ (step[p] = "tries" /\ outcome = "bad")
    /\ outcomes' = [outcomes EXCEPT ![action[p]] = outcome]
    /\ startedAt' = IF action[p] = "start" THEN uptime ELSE startedAt
    /\ holder' = "nobody" /\ Over(p)
    /\ UNCHANGED <<uptime, place, recorder, poses, telemetry, attempted, seed, rebooted,
                   sent, given>>

\* The process is killed: the system gives its lock back, its files stay.
Dies(p) ==
    /\ step[p] # "idle" /\ Over(p)
    /\ holder' = IF holder = p THEN "nobody" ELSE holder
    /\ UNCHANGED <<uptime, place, recorder, poses, telemetry, slamFiles, rebooted, sent, given>>

\* The monotonic clock starts again, and a time of before may lie ahead of it.
Reboot ==
    /\ ~rebooted /\ rebooted' = TRUE /\ uptime' = 1
    /\ step' = [p \in Operators |-> "idle"] /\ action' = [p \in Operators |-> "start"]
    /\ holder' = "nobody" /\ recorder' = "over" /\ poses' = {}
    /\ UNCHANGED <<place, telemetry, slamFiles, sent, given>>

SlamNext ==
    \/ Passes \/ IsMoved \/ WritePoses \/ RecorderEnds \/ Reboot
    \/ \E p \in Operators :
         \/ \E a \in SlamActions : AskFor(p, a)
         \/ Try(p) \/ FindsLocked(p) \/ CallRobot(p) \/ Dies(p)
         \/ \E outcome \in {"ok", "bad"} : Finish(p, outcome)

SlamSpec == SlamInit /\ [][SlamNext]_slamVars

-----------------------------------------------------------------------------------
\* Each request reaches the robot at most once, whoever dies or hurries: "no automatic or
\* repeated call".  (Both relocations are the same request.)
SentOnce ==
    \A i, j \in DOMAIN sent : i # j => sent[i].action \notin SameCall(sent[j].action)

\* A relocation follows its save, and a save its start.
InOrder ==
    \A i \in DOMAIN sent :
        /\ sent[i].action = "save" => \E k \in 1..i-1 : sent[k].action = "start"
        /\ sent[i].action \in {"relocate", "zero"} => \E k \in 1..i-1 : sent[k].action = "save"

\* The pose a relocation starts from was seen as the map was saved, no earlier than a
\* telemetry's age before, in the mapping that was saved, and not too long ago.
SeedIsOfSave ==
    \A i, k \in DOMAIN sent : sent[i].action = "relocate" /\ sent[k].action = "save" =>
        LET pose == sent[i].seed IN
        /\ pose.at <= sent[k].at /\ sent[k].at <= pose.at + PoseAge
        /\ startedAt < pose.at
        /\ sent[i].at <= pose.at + SeedAge

SlamSound == SentOnce /\ InOrder /\ SeedIsOfSave
=================================================================================
