------------------------------ MODULE DemoLauncher ------------------------------
(* The launchers of the walking game: g1_game.py run checks the robot, starts   *)
(* its relays over SSH and runs the supervisor run_integrated_demo.py, which    *)
(* starts the patrol paused, starts the reaction program, releases the patrol   *)
(* and ends all its children when one of them ends.  Each child has a session   *)
(* of its own, so that Ctrl-C reaches the tool and the supervisor only; a       *)
(* second game may be launched on the same computer at any time.                *)
EXTENDS Naturals, FiniteSets

CONSTANTS
  Games,            \* games launched on this computer
  MaxInterrupts     \* Ctrl-C keys pressed, at most

Children == {"patrol", "reaction", "resident"}

\* The game's next child to be ended (Safety order: the patrol is first).
ChildAfter == [patrol |-> "reaction", reaction |-> "resident", resident |-> "none"]

VARIABLES
  tool,        \* g1_game.py run or dry: "checks", "asks", "relays", "runs", "hurries" (Ctrl-C while
               \* the supervisor runs), "cleanup" or "over"
  walks,       \* the game is a real patrol; FALSE: --no-locomotion
  supervisor,  \* "none", "preflight", "starts", "resident", "waits", "pairs", "watches",
               \* "dry", "stops" or "over"
  child,       \* the state of each child: "none", "up" or "over"; of a patrol that is up,
               \* "observes", "paused" or "released"
  target,      \* the child that stop_group ends now
  level,       \* the signals it was sent: 0, SIGINT, SIGTERM, SIGKILL
  cut,         \* games whose supervisor ended without ending its children
  forgotten,   \* games whose dry-run resident was started and is not known
  interrupts   \* Ctrl-C keys pressed

demoVars == << tool, walks, supervisor, child, target, level, cut, forgotten,
               interrupts >>
toolVars == << tool, walks, interrupts >>
stopVars == << target, level, cut >>

DemoInit ==
  /\ walks \in [Games -> BOOLEAN]
  /\ tool = [g \in Games |-> IF walks[g] THEN "checks" ELSE "runs"]
  /\ supervisor = [g \in Games |-> IF walks[g] THEN "none" ELSE "preflight"]
  /\ child = [g \in Games |-> [c \in Children |-> "none"]]
  /\ target = [g \in Games |-> "none"] /\ level = [g \in Games |-> 0]
  /\ cut = {} /\ forgotten = {} /\ interrupts = 0

Alive(g, c)   == child[g][c] \notin {"none", "over"}
Drives(g)     == child[g]["patrol"] \in {"paused", "released"}
Become(g, c, s) == child' = [child EXCEPT ![g][c] = s]
Enter(g, s)   == supervisor' = [supervisor EXCEPT ![g] = s]
ToolTo(g, s)  == tool' = [tool EXCEPT ![g] = s]

-------------------------------------------------------------------------------
(* g1_game.py *)

\* check: one FAIL refuses the game; a game that is already running is only a warning.
Check(g) ==
  /\ tool[g] = "checks"
  /\ \E passed \in BOOLEAN : ToolTo(g, IF passed THEN "asks" ELSE "over")
  /\ UNCHANGED << walks, supervisor, child, stopVars, forgotten, interrupts >>

\* The resident worker is READY and the operator typed WALK, or the game is called off.
Ask(g) ==
  /\ tool[g] = "asks"
  /\ \E agreed \in BOOLEAN : ToolTo(g, IF agreed THEN "relays" ELSE "over")
  /\ UNCHANGED << walks, supervisor, child, stopVars, forgotten, interrupts >>

\* The start script of the relays: a failure or a timeout of SSH ends the game.
StartRelays(g) ==
  /\ tool[g] = "relays"
  /\ \/ ToolTo(g, "runs") /\ Enter(g, "preflight")
     \/ ToolTo(g, "cleanup") /\ UNCHANGED supervisor
  /\ UNCHANGED << walks, child, stopVars, forgotten, interrupts >>

\* The supervisor ended; a dry game has no relays to stop.
SeeSupervisorEnd(g) ==
  /\ tool[g] \in {"runs", "hurries"} /\ supervisor[g] = "over"
  /\ ToolTo(g, IF walks[g] THEN "cleanup" ELSE "over")
  /\ UNCHANGED << walks, supervisor, child, stopVars, forgotten, interrupts >>

\* subprocess.run after Ctrl-C: a quarter of a second for the supervisor, then SIGKILL.
KillSupervisor(g) ==
  /\ tool[g] = "hurries" /\ supervisor[g] # "over"
  /\ Enter(g, "over") /\ cut' = cut \cup {g}
  /\ UNCHANGED << toolVars, child, target, level, forgotten >>

\* stop_relays, also when their start failed, and whether or not SSH is heard.
StopRelays(g) ==
  /\ tool[g] = "cleanup" /\ ToolTo(g, "over")
  /\ UNCHANGED << walks, supervisor, child, stopVars, forgotten, interrupts >>

-------------------------------------------------------------------------------
(* run_integrated_demo.py *)

\* No patrol may run on this computer when the supervisor starts.
Preflight(g) ==
  /\ supervisor[g] = "preflight"
  /\ \/ Enter(g, "over")
     \/ (\A h \in Games : ~Alive(h, "patrol")) /\ Enter(g, "starts")
  /\ UNCHANGED << toolVars, child, stopVars, forgotten >>

LaunchPatrol(g) ==
  /\ supervisor[g] = "starts" /\ walks[g]
  /\ Become(g, "patrol", "observes") /\ Enter(g, "waits")
  /\ UNCHANGED << toolVars, stopVars, forgotten >>

\* finally: the children are ended one after the other.
Finally(g) == Enter(g, "stops") /\ target' = [target EXCEPT ![g] = "patrol"]
                /\ level' = [level EXCEPT ![g] = 0] /\ UNCHANGED cut

\* wait_for_patrol_paused: whichever patrol owns the control socket answers.
SeePaused(g) ==
  /\ supervisor[g] = "waits" /\ Alive(g, "patrol")
  /\ \E h \in Games : child[h]["patrol"] = "paused"
  /\ Become(g, "reaction", "up") /\ Enter(g, "pairs")
  /\ UNCHANGED << toolVars, stopVars, forgotten >>

\* The patrol is gone, or not paused after thirty seconds.
GiveUpWaiting(g) ==
  /\ supervisor[g] = "waits" /\ Finally(g)
  /\ UNCHANGED << toolVars, child, forgotten >>

\* Two seconds later the reaction program must still run; then the patrol is released.
ReleasePatrol(g) ==
  /\ supervisor[g] = "pairs" /\ Alive(g, "reaction")
  /\ \E h \in Games : Drives(h) /\ Become(h, "patrol", "released")
  /\ Enter(g, "watches")
  /\ UNCHANGED << toolVars, stopVars, forgotten >>

\* The reaction program ended, or the release failed or was not heard.
ReleaseFails(g) ==
  /\ supervisor[g] = "pairs" /\ Finally(g)
  /\ \/ UNCHANGED child
     \/ \E h \in Games : Drives(h) /\ Alive(g, "reaction") /\ Become(h, "patrol", "released")
  /\ UNCHANGED << toolVars, forgotten >>

Watch(g) ==
  /\ supervisor[g] = "watches" /\ ~(Alive(g, "patrol") /\ Alive(g, "reaction"))
  /\ Finally(g)
  /\ UNCHANGED << toolVars, child, forgotten >>

\* start_dry_run_resident: a socket that is already there is refused.
StartResident(g) ==
  /\ supervisor[g] = "starts" /\ ~walks[g]
  /\ \/ Become(g, "resident", "up") /\ Enter(g, "resident") /\ UNCHANGED stopVars
     \/ Finally(g) /\ UNCHANGED child
  /\ UNCHANGED << toolVars, forgotten >>

\* READY within five seconds, and the reaction program starts; or it is ended again; or
\* a request to it raises, and nobody knows it any more.
SeeResident(g) ==
  /\ supervisor[g] = "resident"
  /\ \/ /\ Alive(g, "resident") /\ Become(g, "reaction", "up") /\ Enter(g, "dry")
        /\ UNCHANGED << stopVars, forgotten >>
     \/ Finally(g) /\ UNCHANGED << child, forgotten >>
     \/ Finally(g) /\ forgotten' = forgotten \cup {g} /\ UNCHANGED child
  /\ UNCHANGED toolVars

\* The patrol's dry run fails, or the reaction program ends.
DryEnds(g) ==
  /\ supervisor[g] = "dry" /\ Finally(g)
  /\ UNCHANGED << toolVars, child, forgotten >>

\* stop_group: SIGINT, eight seconds later SIGTERM, four later SIGKILL.
SendSignal(g) ==
  /\ supervisor[g] = "stops" /\ Alive(g, target[g]) /\ level[g] < 3
  /\ level' = [level EXCEPT ![g] = @ + 1]
  /\ UNCHANGED << toolVars, supervisor, child, target, cut, forgotten >>

\* The next child, once this one is gone; the last one ends the supervisor.
NextChild(g) ==
  /\ supervisor[g] = "stops"
  /\ ~Alive(g, target[g]) \/ (target[g] = "resident" /\ g \in forgotten)
  /\ level' = [level EXCEPT ![g] = 0] /\ target' = [target EXCEPT ![g] = ChildAfter[@]]
  /\ IF target[g] = "resident" THEN Enter(g, "over") ELSE UNCHANGED supervisor
  /\ UNCHANGED << toolVars, child, cut, forgotten >>

-------------------------------------------------------------------------------
(* The children, and the operator. *)

\* writer_conflicts: the processes of the computer, but for one's own.
OtherPatrol(g) == \E h \in Games \ {g} : Alive(h, "patrol")

\* Mutant: the patrol does not look for another one.
PatrolUnchecked(g) ==
  /\ child[g]["patrol"] = "observes"
  /\ \E state \in {"paused", "over"} : Become(g, "patrol", state)
  /\ UNCHANGED << toolVars, supervisor, stopVars, forgotten >>

\* run_patrol.py: ten seconds of LiDAR, then no other patrol may be there; the
\* controller is paused before its control socket is opened.
PatrolChecks(g) ==
  /\ child[g]["patrol"] = "observes"
  /\ \/ ~OtherPatrol(g) /\ Become(g, "patrol", "paused")
     \/ Become(g, "patrol", "over")
  /\ UNCHANGED << toolVars, supervisor, stopVars, forgotten >>

\* A child ends by itself, by a signal it was sent, or by g1_game.py stop.
ChildEnds(g, c) ==
  /\ Alive(g, c) /\ Become(g, c, "over")
  /\ UNCHANGED << toolVars, supervisor, stopVars, forgotten >>

\* SIGKILL is not refused.
Killed(g) == level[g] = 3 /\ target[g] # "none" /\ ChildEnds(g, target[g])

\* SIGINT in the supervisor: before the try it just ends, in the finally it ends with
\* the children that are left.
Interrupted(g) ==
  CASE supervisor[g] \in {"preflight", "starts"} ->
         Enter(g, "over") /\ UNCHANGED << stopVars, forgotten >>
    [] supervisor[g] \in {"waits", "pairs", "watches", "dry"} -> Finally(g) /\ UNCHANGED forgotten
    [] supervisor[g] = "resident" -> Finally(g) /\ forgotten' = forgotten \cup {g}
    [] supervisor[g] = "stops" ->
         Enter(g, "over") /\ cut' = cut \cup {g} /\ UNCHANGED << target, level, forgotten >>
    [] OTHER -> UNCHANGED << supervisor, stopVars, forgotten >>

\* Ctrl-C at the game's terminal.
CtrlC(g) ==
  /\ interrupts < MaxInterrupts /\ interrupts' = interrupts + 1 /\ tool[g] # "over"
  /\ Interrupted(g)
  /\ ToolTo(g, CASE tool[g] = "relays" -> "cleanup"
                 [] tool[g] \in {"runs", "hurries"} -> "hurries"
                 [] OTHER -> "over")
  /\ UNCHANGED << walks, child >>

\* g1_game.py stop: a SIGINT for the supervisor; those for its children may end them.
StopTool(g) ==
  /\ interrupts < MaxInterrupts /\ interrupts' = interrupts + 1
  /\ supervisor[g] \notin {"none", "over"}
  /\ Interrupted(g)
  /\ UNCHANGED << tool, walks, child >>

SupervisorStep(g) ==
  \/ Preflight(g) \/ LaunchPatrol(g) \/ SeePaused(g) \/ GiveUpWaiting(g) \/ ReleasePatrol(g)
  \/ ReleaseFails(g) \/ Watch(g) \/ StartResident(g) \/ SeeResident(g) \/ DryEnds(g)
  \/ SendSignal(g) \/ NextChild(g)

DemoNext ==
  \E g \in Games :
       \/ Check(g) \/ Ask(g) \/ StartRelays(g) \/ SeeSupervisorEnd(g) \/ KillSupervisor(g)
       \/ StopRelays(g) \/ SupervisorStep(g) \/ PatrolChecks(g) \/ CtrlC(g) \/ StopTool(g)
       \/ \E c \in Children : ChildEnds(g, c)

\* The supervisor goes on, and a child that was sent SIGKILL ends.
DemoSpec ==
  /\ DemoInit /\ [][DemoNext]_demoVars
  /\ \A g \in Games : WF_demoVars(SupervisorStep(g)) /\ WF_demoVars(Killed(g))

-------------------------------------------------------------------------------
(* Two games launched side by side never have two patrols that may drive the     *)
(* robot: each looks for the other only after its own process can be seen        *)
(* (run_patrol.writer_conflicts, run_integrated_demo.preflight).                 *)
OnePatrolDrives == Cardinality({g \in Games : Drives(g)}) <= 1

\* A released patrol does not go on without its reaction program, unless the supervisor
\* itself was ended in the middle of its work.
PatrolNeedsReaction ==
  \A g \in Games :
    child[g]["patrol"] = "released" /\ child[g]["reaction"] = "over"
      ~> child[g]["patrol"] = "over" \/ g \in cut

\* A supervisor that came to its end left no child behind, but for a resident it lost.
NothingIsLeft ==
  \A g \in Games : supervisor[g] = "over" /\ g \notin cut =>
    \A c \in Children : Alive(g, c) => c = "resident" /\ g \in forgotten

(* However games are launched, interrupted and killed: one patrol at a time may  *)
(* drive the robot, none without its reaction program, and the two end together, *)
(* whichever of them ends first and however it has to be ended (main and         *)
(* stop_group of run_integrated_demo.py).                                        *)
LaunchIsSafe == [](OnePatrolDrives /\ NothingIsLeft) /\ PatrolNeedsReaction

(* What the supervisor's finally promises, "Safety order: Patrol (whose adapter  *)
(* sends STOP), then Reaction": when a game's tool is over, both are.            *)
GameEndsItsChildren ==
  \A g \in Games : tool[g] = "over" => ~Alive(g, "patrol") /\ ~Alive(g, "reaction")
=============================================================================
