-------------------------- MODULE ReactionEngineProofs --------------------------
(***************************************************************************)
(* For any number of events: the reactions of the engine never overlap,    *)
(* none runs after its end, and none after the close.                      *)
(***************************************************************************)
EXTENDS ReactionEngine, SequenceTheorems, FiniteSetTheorems, TLAPS

(***************************************************************************)
(* The inductive invariant.                                                *)
(***************************************************************************)

\* The functions behind the labels, and what a thread may have still to dispatch.
Labels  == {"idle", "check", "update", "decide", "accept", "enqueue", "inline", "stopping",
            "cancel", "drain", "sentinel", "joinWorker", "shutdown", "speech", "closed"}
Steps   == {"get", "gone", "before", "outputs", "motion", "moving", "join", "custom", "speaking",
            "confirm", "completing", "failed"}
Names   == {"FOUND", "SUSPICION_STARTED", "PLAYER_FOUND", "RETURNED_TO_UNAWARE", "MUSIC_STARTED"}
Todos   == {s \in Seq(Names) : Len(s) <= 2}
Shapes ==
    /\ pc \in [Sources -> Labels] /\ at \in [Runners -> Steps] /\ todo \in [Sources -> Todos]
    /\ Len(todo["audio"]) <= 1
FlagTypes == worker \in BOOLEAN /\ shutdown \in BOOLEAN /\ executor \in BOOLEAN /\ viewer \in BOOLEAN
             /\ robotClosed \in BOOLEAN /\ gaveUp \in BOOLEAN

\* Every job comes from an event of an input, and every entry of the queue is a job's or
\* the one sentinel.
Owed == IF pc["camera"] = "update" THEN 2 ELSE 0
Pending(t) == Len(todo[t])
Offered(t) == IF pc[t] \in {"accept", "enqueue"} THEN 1 ELSE 0
Sentinels == IF pc["camera"] \in {"joinWorker", "shutdown", "speech", "closed"} THEN 1 ELSE 0
JobsCounted ==
    /\ inputs \in 0..MaxInputs /\ jobs \in Nat
    /\ jobs + Pending("camera") + Pending("audio") + Owed <= 2 * inputs
QueueCounted == Len(queue) + Offered("camera") + Offered("audio") <= jobs + Sentinels
Counting == JobsCounted /\ QueueCounted

\* Which thread is where while the engine closes.
Runs(e) == at[e] \notin {"get", "gone"}
PastDrain == {"sentinel", "joinWorker", "shutdown", "speech", "closed"}
OnlySentinels == \A i \in DOMAIN queue : queue[i] = Stop
AudioGoesOn == pc["audio"] # "idle" /\ ~(pc["audio"] = "decide" /\ todo["audio"] = <<>>)
Closing ==
    /\ viewer => pc["audio"] = "idle" /\ pc["camera"] # "stopping"
    /\ shutdown \/ pc["camera"] = "cancel" => viewer
    /\ ~worker => pc["camera"] \in {"shutdown", "speech", "closed"}
    /\ pc["audio"] = "inline" => ~worker
    /\ at["audio"] # "gone" /\ (at["audio"] # "get" <=> pc["audio"] = "inline")
    /\ robotClosed => pc["camera"] = "closed"
    /\ pc["audio"] \in {"accept", "enqueue", "inline"} => todo["audio"] = <<>>
    /\ pc["camera"] \in PastDrain \cup {"drain"} /\ ~gaveUp => pc["audio"] = "idle"

\* A late audio thread has one event left: with it still to come, or with no thread given
\* up on, nothing but the sentinel is queued after the drain and nothing runs.
Drained ==
    pc["camera"] \in PastDrain /\ (AudioGoesOn \/ ~gaveUp) => ~Runs("worker") /\ OnlySentinels

\* A job is in one place: with the thread that made it, in the queue, or run.
Offers(t) == pc[t] \in {"accept", "enqueue"}
Fresh(j) == j \in 1..jobs /\ j \in Jobs /\ ~Done(j)
OnePlace ==
    /\ \A t \in Sources : Offers(t) => Fresh(mine[t])
    /\ \A t \in Sources, i \in DOMAIN queue : Offers(t) => queue[i] # mine[t]
    /\ \A t \in Sources, e \in Runners : Offers(t) /\ Runs(e) => job[e] # mine[t]
    /\ Offers("camera") /\ Offers("audio") => mine["camera"] # mine["audio"]
    /\ \A i \in DOMAIN queue : queue[i] # Stop => Fresh(queue[i])
    /\ \A i, k \in DOMAIN queue : queue[i] = queue[k] /\ queue[i] # Stop => i = k
    /\ \A i \in DOMAIN queue, e \in Runners : Runs(e) => job[e] # queue[i]
    /\ \A e \in Runners : Runs(e) => Fresh(job[e])
    /\ \A j \in Jobs : j > jobs => ~Done(j)

\* Speech belongs to a reaction that waits for it.
Waits(e) == at[e] \in {"motion", "moving", "join", "speaking"}
Spoken == \A j \in Jobs : speech[j] \in {"delay", "speaking"} =>
             \E e \in Runners : Waits(e) /\ job[e] = j

\* A job ends after its observer has been told.
Ending(j) == told[j] \in {"refused", IF state[j] = "COMPLETED" THEN "completing" ELSE "failed"}
ToldFirst == \A j \in Jobs : Done(j) /\ Observed => Ending(j)

IInv ==
    /\ TypeOK /\ Shapes /\ FlagTypes /\ Counting /\ Closing /\ Drained /\ OnePlace /\ Spoken
    /\ ToldFirst

(***************************************************************************)
(* Steps, by what they do to the places of the jobs.                       *)
(***************************************************************************)

\* The events a thread dispatches, one after the other.
LEMMA TodosAre ==
  ASSUME NEW s \in Todos
  PROVE  /\ Len(s) \in 0..2 /\ (Len(s) = 0 <=> s = <<>>)
         /\ s # <<>> => /\ Tail(s) \in Todos /\ Len(Tail(s)) = Len(s) - 1
                        /\ Priority[Head(s)] \in Nat
<1>1. s \in Seq(Names) /\ Len(s) <= 2 /\ Len(s) \in Nat
  BY DEF Todos
<1>2. Len(s) \in 0..2 /\ (Len(s) = 0 <=> s = <<>>)
  <2>1. Len(s) \in 0..2
    <3>1. \A n \in Nat : n <= 2 => n \in 0..2
      OBVIOUS
    <3> QED BY <1>1, <3>1, Zenon
  <2>2. Len(s) = 0 <=> s = <<>>
    BY <1>1, EmptySeq
  <2> QED BY <2>1, <2>2
<1>3. \A e \in Names : Priority[e] \in Nat
  <2>1. Priority["FOUND"] = 20 /\ Priority["SUSPICION_STARTED"] = 40 /\ Priority["PLAYER_FOUND"] = 100
        /\ Priority["RETURNED_TO_UNAWARE"] = 35 /\ Priority["MUSIC_STARTED"] = 10
    BY DEF Priority
  <2> QED BY <2>1 DEF Names
<1>4. ASSUME s # <<>>
      PROVE  Tail(s) \in Seq(Names) /\ Len(Tail(s)) = Len(s) - 1 /\ Head(s) \in Names
  BY <1>1, <1>4, HeadTailProperties
<1> QED BY <1>1, <1>2, <1>3, <1>4 DEF Todos

\* Where the threads are after one of them has gone on.
LEMMA GoesTo ==
  ASSUME Shapes, NEW t \in Sources, NEW to, Goto(t, to)
  PROVE  pc'[t] = to /\ \A u \in Sources \ {t} : pc'[u] = pc[u]
  BY DEF Shapes, Goto

\* One reaction's step moves only that runner, from one label to another.
LEMMA StepsTo ==
  ASSUME Shapes, NEW e \in Runners, NEW from, NEW to, Step(e, from, to)
  PROVE  at[e] = from /\ at'[e] = to /\ \A d \in Runners \ {e} : at'[d] = at[d]
  BY DEF Shapes, Step

\* A step inside a reaction: its job stays where it is, and may be marked as started.
Inner(e) ==
    /\ UNCHANGED <<clock, sources, decision, queue, job, event, jobs, closing>>
    /\ Runs(e) /\ Runs(e)' /\ \A d \in Runners \ {e} : at'[d] = at[d]
    /\ told' = told \/ \E call : told' = [told EXCEPT ![job[e]] = call]
    /\ state' = state \/ state' = [state EXCEPT ![job[e]] = "STARTED"]

\* The end of a reaction: the observer has been told, the waiters wake.
Ends(e) ==
    /\ UNCHANGED <<clock, game, stamp, todo, mine, inputs, decision, queue, job, motionFailed,
                   speech, told, event, jobs, closing>>
    /\ at' = [at EXCEPT ![e] = "get"]
    /\ (e = "worker" /\ pc' = pc) \/ (e = "audio" /\ Goto("audio", "decide"))
    /\ \/ at[e] = "completing" /\ state' = [state EXCEPT ![job[e]] = "COMPLETED"]
       \/ at[e] = "failed" /\ state' = [state EXCEPT ![job[e]] = "FAILED"]
    /\ Observed => told[job[e]] = at[e]

\* A reaction takes such steps only.
LEMMA ExecuteDoes ==
  ASSUME Shapes, NEW e \in Runners, Execute(e)
  PROVE  Inner(e) \/ Ends(e)
<1>1. ASSUME NEW from \in Steps \ {"get", "gone", "completing", "failed"}, NEW to \in Steps \ {"get", "gone"},
             Step(e, from, to), UNCHANGED <<clock, sources, decision, queue, job, event, jobs, closing>>,
             told' = told \/ \E call : told' = [told EXCEPT ![job[e]] = call],
             state' = state \/ state' = [state EXCEPT ![job[e]] = "STARTED"]
      PROVE  Inner(e)
  BY <1>1, StepsTo DEF Inner, Runs
<1> USE DEF Steps, records
<1>2. CASE Start(e)
  BY <1>1, <1>2 DEF Start
<1>3. CASE Outputs(e)
  BY <1>1, <1>3 DEF Outputs
<1>4. CASE Motion(e) \/ MotionEnds(e)
  BY <1>1, <1>4 DEF Motion, MotionEnds
<1>5. CASE JoinSpeech(e) \/ CustomSpeech(e)
  BY <1>1, <1>5 DEF JoinSpeech, CustomSpeech
<1>6. CASE Custom(e) \/ Confirm(e)
  BY <1>1, <1>6 DEF Custom, Confirm
<1>7. ASSUME NEW call \in {"completing", "failed"}, Told(e, call)
      PROVE  Inner(e)
  BY <1>7 DEF Told, Inner, Runs, execution, records
<1>8. ASSUME NEW call \in {"completing", "failed"}, NEW mark,
             Mark(e, call, mark), mark = IF call = "completing" THEN "COMPLETED" ELSE "FAILED"
      PROVE  Ends(e)
  BY <1>8 DEF Mark, Leaves, Ends, Runners
<1>9. CASE Completes(e) \/ Fails(e)
  BY <1>7, <1>8, <1>9 DEF Completes, Fails
<1> QED BY <1>2, <1>3, <1>4, <1>5, <1>6, <1>9 DEF Execute

(***************************************************************************)
(* Types.                                                                  *)
(***************************************************************************)

\* The steps of handle() and of the sources.
Handles == Read \/ Chunk \/ Update \/ Check
           \/ \E t \in Sources : NoMoreEvents(t) \/ Decide(t) \/ Accept(t) \/ Enqueue(t)

\* What a frame of the game gives rise to.
LEMMA MovesAre ==
  \A m \in Moves : m.to \in {"UNAWARE", "SUSPICIOUS", "FOUND"} /\ m.events \in Todos
<1>1. /\ <<"FOUND">> \in Todos /\ <<"SUSPICION_STARTED">> \in Todos /\ <<"PLAYER_FOUND">> \in Todos
      /\ <<"RETURNED_TO_UNAWARE">> \in Todos /\ <<>> \in Todos
  BY DEF Todos, Names
<1>2. <<"SUSPICION_STARTED", "PLAYER_FOUND">> \in Todos
  BY DEF Todos, Names
<1> QED BY <1>1, <1>2 DEF Moves

\* What the next job is.
LEMMA NextJob ==
  ASSUME LabelTypes, Shapes, Counting, NEW t \in Sources, pc[t] = "decide", todo[t] # <<>>
  PROVE  /\ jobs + 1 \in Jobs /\ jobs + 1 \in 1..(jobs + 1) /\ jobs + 1 \notin 1..jobs
         /\ Tail(todo[t]) \in Todos /\ Len(Tail(todo[t])) = Len(todo[t]) - 1
         /\ Priority[Head(todo[t])] \in Nat
<1>1. \A s \in Sources : todo[s] \in Todos /\ Len(todo[s]) \in 0..2
  BY TodosAre DEF Shapes
<1>2. Len(todo[t]) \in 1..2
  BY <1>1, TodosAre
<1>3. jobs + 1 <= 2 * MaxInputs
  <2> DEFINE c == Pending("camera")
             a == Pending("audio")
  <2>1. c \in 0..2 /\ a \in 0..2 /\ (c >= 1 \/ a >= 1)
    BY <1>1, <1>2 DEF Sources, Pending
  <2>2. Owed \in {0, 2} /\ jobs + c + a + Owed <= 2 * inputs /\ inputs \in 0..MaxInputs /\ jobs \in Nat
    BY DEF Counting, JobsCounted, Owed
  <2> HIDE DEF c, a
  <2> QED BY <2>1, <2>2, EngineAssumption DEF EngineAssumption
<1> QED BY <1>1, <1>2, <1>3, TodosAre, EngineAssumption DEF Jobs, Counting, JobsCounted, EngineAssumption

\* The functions keep their domains, the threads their labels and the flags their sets.
Placed == LabelTypes /\ Shapes /\ FlagTypes

\* Handling an input keeps every thread at a label of its own.
LEMMA HandlesPlaced == ASSUME Placed, Counting, Closing, Handles PROVE Placed'
<1> USE DEF Placed, LabelTypes, Shapes, FlagTypes
<1>1. UNCHANGED closing => FlagTypes'
  BY DEF closing
<1>2. ASSUME NEW t \in Sources, NEW to \in Labels, Goto(t, to),
             t = "audio" => to \in {"idle", "check", "decide", "accept", "enqueue", "inline"},
             t = "camera" => to \notin {"check", "inline"}
      PROVE  /\ pc' \in [Sources -> Labels]
             /\ pc'["audio"] \in {"idle", "check", "decide", "accept", "enqueue", "inline"}
             /\ pc'["camera"] \in {"idle", "update", "decide", "accept", "enqueue", "stopping", "cancel",
                         "drain", "sentinel", "joinWorker", "shutdown", "speech", "closed"}
  BY <1>2 DEF Goto, Labels, Sources
<1>3. \A n \in clock..MaxClock : n \in 0..MaxClock
  BY EngineAssumption DEF EngineAssumption
<1>4. CASE Read
  <2>1. Goto("camera", "update") /\ clock' \in 0..MaxClock /\ UNCHANGED <<game, todo, at, closing>>
    BY <1>3, <1>4 DEF Read, execution
  <2> QED BY <1>1, <1>2, <2>1 DEF Sources, Labels
<1>5. CASE Chunk
  <2>1. Goto("audio", "check") /\ clock' \in 0..MaxClock /\ UNCHANGED <<game, at, closing>>
        /\ todo' = [todo EXCEPT !["audio"] = <<"MUSIC_STARTED">>]
    BY <1>3, <1>5 DEF Chunk, execution
  <2>2. <<"MUSIC_STARTED">> \in Todos /\ Len(<<"MUSIC_STARTED">>) = 1
    BY DEF Todos, Names
  <2> QED BY <1>1, <1>2, <2>1, <2>2 DEF Sources, Labels
<1>6. CASE Update
  <2>1. PICK m \in Moves : m.from = game /\ game' = m.to /\ todo' = [todo EXCEPT !["camera"] = m.events]
    BY <1>6 DEF Update
  <2>2. m.to \in {"UNAWARE", "SUSPICIOUS", "FOUND"} /\ m.events \in Todos
    BY MovesAre
  <2>3. Goto("camera", "decide") /\ UNCHANGED <<clock, at, closing>>
    BY <1>6 DEF Update, execution
  <2> QED BY <1>1, <1>2, <2>1, <2>2, <2>3 DEF Sources, Labels
<1>7. CASE Check
  <2>1. UNCHANGED <<clock, game, at, closing>> /\ \E to \in {"idle", "decide"} : Goto("audio", to)
        /\ (todo' = todo \/ todo' = [todo EXCEPT !["audio"] = <<>>])
    BY <1>7 DEF Check, execution
  <2>2. <<>> \in Todos /\ Len(<<>>) = 0
    BY DEF Todos
  <2> QED BY <1>1, <1>2, <2>1, <2>2 DEF Sources, Labels
<1>8. ASSUME NEW t \in Sources, NoMoreEvents(t) PROVE Placed'
  <2>1. Goto(t, "idle") /\ UNCHANGED <<clock, game, at, todo, closing>>
    BY <1>8 DEF NoMoreEvents, execution
  <2> QED BY <1>1, <1>2, <2>1 DEF Sources, Labels
<1>9. ASSUME NEW t \in Sources, Decide(t) PROVE Placed'
  <2>1. Tail(todo[t]) \in Todos /\ (t = "audio" => Len(Tail(todo[t])) <= 1)
    BY <1>9, NextJob, TodosAre DEF Decide
  <2>2. todo' = [todo EXCEPT ![t] = Tail(todo[t])] /\ UNCHANGED <<clock, game, at, closing>>
    BY <1>9 DEF Decide, execution
  <2>3. todo' \in [Sources -> Todos] /\ Len(todo'["audio"]) <= 1
    BY <2>1, <2>2 DEF Sources
  <2>4. pc' = pc \/ Goto(t, "accept") \/ Goto(t, "enqueue")
    BY <1>9 DEF Decide
  <2> QED BY <1>1, <1>2, <2>2, <2>3, <2>4 DEF Sources, Labels
<1>10. ASSUME NEW t \in Sources, Accept(t) PROVE Placed'
  <2>1. (Goto(t, "enqueue") \/ Goto(t, "decide")) /\ UNCHANGED <<clock, game, at, todo, closing>>
    BY <1>10 DEF Accept, execution
  <2> QED BY <1>1, <1>2, <2>1 DEF Sources, Labels
<1>11. ASSUME NEW t \in Sources, Enqueue(t) PROVE Placed'
  <2>1. UNCHANGED <<clock, game, todo, closing>> /\ (t = "camera" => worker)
    BY <1>11 DEF Enqueue, Closing
  <2>2. (Goto(t, "inline") /\ t = "audio" /\ at' = [at EXCEPT !["audio"] = "before"])
        \/ (Goto(t, "decide") /\ at' = at)
    BY <1>11, <2>1 DEF Enqueue, Sources
  <2>3. at' \in [Runners -> Steps]
    BY <2>2 DEF Steps
  <2> QED BY <1>1, <1>2, <2>1, <2>2, <2>3 DEF Sources, Labels
<1> QED BY <1>4, <1>5, <1>6, <1>7, <1>8, <1>9, <1>10, <1>11 DEF Handles

\* The rest.
LEMMA OtherPlaced ==
  ASSUME Placed, Close \/ Closes \/ Get \/ Speech \/ \E e \in Runners : Execute(e)
  PROVE  Placed'
<1> USE DEF Placed, LabelTypes, Shapes
<1>1. ASSUME NEW to \in Labels, Goto("camera", to), to \notin {"check", "inline"}
      PROVE  /\ pc' \in [Sources -> Labels] /\ pc'["audio"] = pc["audio"]
             /\ pc'["camera"] \in {"idle", "update", "decide", "accept", "enqueue", "stopping", "cancel",
                         "drain", "sentinel", "joinWorker", "shutdown", "speech", "closed"}
  BY <1>1 DEF Goto, Labels, Sources
<1>2. CASE Close \/ Closes
  <2>1. \E to \in Labels : Goto("camera", to) /\ to \notin {"check", "inline"}
    BY <1>2 DEF Close, Closes, JoinAudio, Cancel, Drain, Sentinel, JoinWorker, ShutExecutor,
                CloseRobot, Labels
  <2>2. FlagTypes'
    BY <1>2 DEF Close, Closes, JoinAudio, Cancel, Drain, Sentinel, JoinWorker, ShutExecutor,
                CloseRobot, FlagTypes, closing
  <2>3. UNCHANGED <<clock, game, at, todo>>
    BY <1>2 DEF Close, Closes, JoinAudio, Cancel, Drain, Sentinel, JoinWorker, ShutExecutor,
                CloseRobot, Still, execution
  <2> QED BY <1>1, <2>1, <2>2, <2>3
<1>3. CASE Get
  <2>1. at' \in [Runners -> Steps] /\ UNCHANGED <<clock, sources, closing>>
    BY <1>3 DEF Get, Steps
  <2> QED BY <2>1 DEF sources, closing, FlagTypes
<1>4. CASE Speech
  <2>1. UNCHANGED <<clock, sources, closing, at>>
    BY <1>4 DEF Speech, Speak
  <2> QED BY <2>1 DEF sources, closing, FlagTypes
<1>5. ASSUME NEW e \in Runners, Execute(e) PROVE Placed'
  <2>1. at' \in [Runners -> Steps]
    <3>1. at' = at \/ \E to \in Steps : at' = [at EXCEPT ![e] = to]
      BY <1>5 DEF Execute, Start, Outputs, Motion, MotionEnds, JoinSpeech, Custom, CustomSpeech, Confirm,
                  Completes, Fails, Told, Mark, Leaves, Step, Steps, execution
    <3> QED BY <3>1
  <2>2. UNCHANGED <<clock, game, todo, closing>>
    BY <1>5, ExecuteDoes DEF Inner, Ends, sources
  <2>3. pc' = pc \/ Goto("audio", "decide")
    BY <1>5, ExecuteDoes DEF Inner, Ends, sources
  <2>4. pc' \in [Sources -> Labels] /\ pc'["camera"] = pc["camera"]
        /\ pc'["audio"] \in {"idle", "check", "decide", "accept", "enqueue", "inline"}
    BY <2>3 DEF Goto, Labels, Sources
  <2> QED BY <2>1, <2>2, <2>4 DEF closing, FlagTypes
<1> QED BY <1>2, <1>3, <1>4, <1>5

\* The stamps, the decision and the jobs made keep their ranges.
LEMMA HandlesDecision ==
  ASSUME Placed, Counting, DecisionTypes, Handles
  PROVE  DecisionTypes' /\ (jobs' = jobs \/ jobs' = jobs + 1)
<1> USE DEF DecisionTypes
<1>1. \A n \in clock..MaxClock : n \in 0..MaxClock
  BY EngineAssumption DEF EngineAssumption, Placed, LabelTypes
<1>2. CASE Read \/ Chunk
  <2>1. \E t \in Sources, n \in 0..MaxClock : stamp' = [stamp EXCEPT ![t] = n]
    BY <1>1, <1>2 DEF Read, Chunk, Sources
  <2>2. UNCHANGED <<mine, decision, jobs>>
    BY <1>2 DEF Read, Chunk, records
  <2> QED BY <2>1, <2>2 DEF decision
<1>3. CASE Update \/ Check
  BY <1>3 DEF Update, Check, decision, records
<1>4. ASSUME NEW t \in Sources, NoMoreEvents(t) \/ Accept(t) \/ Enqueue(t)
      PROVE  DecisionTypes' /\ jobs' = jobs
  BY <1>4 DEF NoMoreEvents, Accept, Enqueue, decision, records
<1>5. ASSUME NEW t \in Sources, Decide(t)
      PROVE  DecisionTypes' /\ (jobs' = jobs \/ jobs' = jobs + 1)
  <2>1. CASE Rejects(t)
    BY <1>5, <2>1 DEF Decide, decision, records
  <2>2. CASE ~Rejects(t)
    <3>1. Priority[Head(todo[t])] \in Nat
      BY <1>5, NextJob DEF Decide, Placed
    <3>2. stamp' = stamp /\ stamp[t] \in 0..MaxClock /\ lastAt' = stamp[t]
          /\ lastPriority' = Priority[Head(todo[t])] /\ jobs' = jobs + 1
          /\ mine' = [mine EXCEPT ![t] = jobs + 1]
      BY <1>5, <2>2 DEF Decide
    <3>3. mine' \in [Sources -> 0..jobs']
      BY <3>2 DEF Counting, JobsCounted
    <3>4. lastAt' \in -1..MaxClock
      BY <3>2
    <3> QED BY <3>1, <3>2, <3>3, <3>4
  <2> QED BY <2>1, <2>2
<1> QED BY <1>2, <1>3, <1>4, <1>5 DEF Handles

\* Nothing else touches the time of an input, the decision or the number of jobs.
LEMMA OtherDecision ==
  ASSUME Placed, DecisionTypes,
         Close \/ Closes \/ Get \/ Speech \/ \E e \in Runners : Execute(e)
  PROVE  DecisionTypes' /\ jobs' = jobs
<1>1. Close \/ Closes => UNCHANGED <<stamp, mine, decision, jobs>>
  BY DEF Close, Closes, JoinAudio, Cancel, Drain, Sentinel, JoinWorker, ShutExecutor, CloseRobot,
         Still, records
<1>2. Get \/ Speech => UNCHANGED <<stamp, mine, decision, jobs>>
  BY DEF Get, Speech, Speak, sources, records
<1>3. \A e \in Runners : Execute(e) => UNCHANGED <<stamp, mine, decision, jobs>>
  BY ExecuteDoes DEF Placed, Inner, Ends, sources
<1> QED BY <1>1, <1>2, <1>3 DEF DecisionTypes, decision

\* The jobs are counted, and the queue holds no more than was made and the sentinel.
NaturalCounts ==
    /\ Pending("camera") \in Nat /\ Pending("audio") \in Nat /\ Owed \in Nat
    /\ Offered("camera") \in Nat /\ Offered("audio") \in Nat /\ Sentinels \in Nat

\* Every count of what is still to come is a natural number.
LEMMA Counts == Placed => NaturalCounts
<1> SUFFICES ASSUME Placed
             PROVE  Pending("camera") \in Nat /\ Pending("audio") \in Nat
  BY DEF Owed, Offered, Sentinels, NaturalCounts
<1>1. todo["camera"] \in Todos /\ todo["audio"] \in Todos
  BY DEF Placed, Shapes, Sources
<1> QED BY <1>1, TodosAre DEF Pending

\* A step that accepts no more jobs than it uses up inputs or events keeps within the bound.
LEMMA JobsGoOn ==
  ASSUME JobsCounted, Placed, Placed',
         inputs' = inputs \/ (inputs' = inputs + 1 /\ inputs < MaxInputs),
         jobs' = jobs \/ jobs' = jobs + 1,
         jobs' + Pending("camera")' + Pending("audio")' + Owed' + 2 * inputs
           <= jobs + Pending("camera") + Pending("audio") + Owed + 2 * inputs'
  PROVE  JobsCounted'
<1>1. Pending("camera") \in Nat /\ Pending("audio") \in Nat /\ Owed \in Nat
  BY Counts DEF NaturalCounts
<1>2. Pending("camera")' \in Nat /\ Pending("audio")' \in Nat /\ Owed' \in Nat
  <2>1. NaturalCounts'
    BY Counts, PTL
  <2> QED BY <2>1 DEF NaturalCounts
<1>3. inputs \in Nat /\ jobs \in Nat /\ inputs' \in Nat /\ jobs' \in Nat
  BY EngineAssumption DEF JobsCounted, EngineAssumption
<1>4. inputs' \in 0..MaxInputs
  BY <1>3, EngineAssumption DEF JobsCounted, EngineAssumption
<1> QED BY <1>1, <1>2, <1>3, <1>4 DEF JobsCounted

\* So does a step that accepts none and leaves no more to accept.
LEMMA JobsStay ==
  ASSUME JobsCounted, Placed, Placed', UNCHANGED <<inputs, jobs>>,
         Pending("camera")' + Owed' <= Pending("camera") + Owed,
         Pending("audio")' <= Pending("audio")
  PROVE  JobsCounted'
<1>1. Pending("camera") \in Nat /\ Pending("audio") \in Nat /\ Owed \in Nat
  BY Counts DEF NaturalCounts
<1>2. Pending("camera")' \in Nat /\ Pending("audio")' \in Nat /\ Owed' \in Nat
  <2>1. NaturalCounts'
    BY Counts, PTL
  <2> QED BY <2>1 DEF NaturalCounts
<1>3. inputs \in Nat /\ jobs \in Nat
  BY EngineAssumption DEF JobsCounted, EngineAssumption
<1> QED BY <1>1, <1>2, <1>3 DEF JobsCounted

\* The queue never holds more than the jobs taken and the sentinels put.
LEMMA QueueGoesOn ==
  ASSUME QueueCounted, Placed, Placed', Len(queue) \in Nat, Len(queue)' \in Nat, jobs \in Nat, jobs' \in Nat,
         Len(queue)' + Offered("camera")' + Offered("audio")' + jobs + Sentinels
           <= Len(queue) + Offered("camera") + Offered("audio") + jobs' + Sentinels'
  PROVE  QueueCounted'
<1>1. Offered("camera") \in Nat /\ Offered("audio") \in Nat /\ Sentinels \in Nat
  BY Counts DEF NaturalCounts
<1>2. Offered("camera")' \in Nat /\ Offered("audio")' \in Nat /\ Sentinels' \in Nat
  <2>1. NaturalCounts'
    BY Counts, PTL
  <2> QED BY <2>1 DEF NaturalCounts
<1>3. PICK l \in Nat, a \in Nat, b \in Nat, s \in Nat, j \in Nat :
        l = Len(queue) /\ a = Offered("camera") /\ b = Offered("audio") /\ s = Sentinels /\ j = jobs
  BY <1>1
<1>4. PICK m \in Nat, c \in Nat, d \in Nat, u \in Nat, k \in Nat :
        m = Len(queue)' /\ c = Offered("camera")' /\ d = Offered("audio")' /\ u = Sentinels' /\ k = jobs'
  BY <1>2
<1>5. l + a + b <= j + s
  BY <1>3 DEF QueueCounted
<1>6. m + c + d + j + s <= l + a + b + k + u
  BY <1>3, <1>4
<1>7. m + c + d <= k + u
  <2>1. (m + c + d) + (j + s) <= (l + a + b) + (k + u)
    BY ONLY <1>6
  <2> QED BY <2>1, <1>5
<1> QED BY <1>4, <1>7 DEF QueueCounted

\* A queue after one more entry.
LEMMA QueueTakes ==
  ASSUME queue \in Seq({Stop} \cup Jobs), NEW x
  PROVE  /\ Len(Append(queue, x)) = Len(queue) + 1
         /\ DOMAIN Append(queue, x) = DOMAIN queue \cup {Len(queue) + 1}
         /\ \A i \in DOMAIN queue : Append(queue, x)[i] = queue[i]
         /\ Append(queue, x)[Len(queue) + 1] = x
         /\ Len(queue) + 1 \notin DOMAIN queue
<1>1. queue \in Seq({Stop, x} \cup Jobs) /\ Len(queue) \in Nat /\ DOMAIN queue = 1..Len(queue)
  OBVIOUS
<1>2. /\ Append(queue, x) \in Seq({Stop, x} \cup Jobs) /\ Len(Append(queue, x)) = Len(queue) + 1
      /\ \A i \in 1..Len(queue) : Append(queue, x)[i] = queue[i]
      /\ Append(queue, x)[Len(queue) + 1] = x
  BY <1>1, AppendProperties
<1>3. DOMAIN Append(queue, x) = 1..(Len(queue) + 1)
  BY <1>2
<1> QED BY <1>1, <1>2, <1>3

\* What each step does to the counts.
LEMMA HandlesCounting ==
  ASSUME Placed, Placed', Counting, Closing, DecisionTypes, QueueTypes, Handles
  PROVE  Counting'
<1>1. Len(queue) \in Nat /\ jobs \in Nat /\ queue \in Seq({Stop} \cup Jobs)
  BY DEF QueueTypes, Counting, JobsCounted
<1>2. NaturalCounts
  BY Counts
<1>3. NaturalCounts'
  BY Counts, PTL
<1>4. \A t \in Sources : todo[t] \in Todos
  BY DEF Placed, Shapes
<1>5. Shapes
  BY DEF Placed
<1> USE DEF Counting, NaturalCounts, Sources
<1>6. CASE Read
  <2>1. pc["camera"] = "idle" /\ pc'["camera"] = "update" /\ pc'["audio"] = pc["audio"]
        /\ UNCHANGED <<todo, queue, jobs>> /\ inputs' = inputs + 1 /\ inputs < MaxInputs
    BY <1>5, <1>6, GoesTo DEF Read, records
  <2>2. Offered("camera")' = Offered("camera") /\ Offered("audio")' = Offered("audio")
        /\ Sentinels' = Sentinels
    BY <2>1 DEF Offered, Sentinels
  <2>3. QueueCounted'
    BY <2>1, <2>2 DEF QueueCounted
  <2>4. Pending("camera")' = Pending("camera") /\ Pending("audio")' = Pending("audio")
        /\ Owed = 0 /\ Owed' = 2
    BY <2>1 DEF Pending, Owed
  <2>5. inputs \in Nat
    BY DEF JobsCounted
  <2>6. JobsCounted'
    BY <1>1, <1>2, <2>1, <2>4, <2>5, JobsGoOn
  <2> QED BY <2>3, <2>6
<1>7. CASE Chunk
  <2>1. pc["audio"] = "idle" /\ pc'["audio"] = "check" /\ pc'["camera"] = pc["camera"]
        /\ UNCHANGED <<queue, jobs>> /\ inputs' = inputs + 1 /\ inputs < MaxInputs
        /\ todo' = [todo EXCEPT !["audio"] = <<"MUSIC_STARTED">>]
    BY <1>5, <1>7, GoesTo DEF Chunk, records
  <2>2. Offered("camera")' = Offered("camera") /\ Offered("audio")' = Offered("audio")
        /\ Sentinels' = Sentinels
    BY <2>1 DEF Offered, Sentinels
  <2>3. QueueCounted'
    BY <2>1, <2>2 DEF QueueCounted
  <2>4. Pending("camera")' = Pending("camera") /\ Pending("audio")' = 1 /\ Owed' = Owed
    BY <1>5, <2>1 DEF Pending, Owed, Shapes
  <2>5. inputs \in Nat
    BY DEF JobsCounted
  <2>6. JobsCounted'
    BY <1>1, <1>2, <2>1, <2>4, <2>5, JobsGoOn
  <2> QED BY <2>3, <2>6
<1>8. CASE Update
  <2>1. pc["camera"] = "update" /\ pc'["camera"] = "decide" /\ pc'["audio"] = pc["audio"]
        /\ UNCHANGED <<queue, jobs, inputs>>
        /\ \E m \in Moves : todo' = [todo EXCEPT !["camera"] = m.events]
    BY <1>5, <1>8, GoesTo DEF Update, records
  <2>2. Offered("camera")' = Offered("camera") /\ Offered("audio")' = Offered("audio")
        /\ Sentinels' = Sentinels
    BY <2>1 DEF Offered, Sentinels
  <2>3. QueueCounted'
    BY <2>1, <2>2 DEF QueueCounted
  <2>4. Pending("audio")' = Pending("audio") /\ Owed = 2 /\ Owed' = 0
    BY <1>5, <2>1 DEF Pending, Owed, Shapes
  <2>5. Pending("camera")' \in 0..2
    <3>1. todo'["camera"] \in Todos
      BY DEF Placed, Shapes
    <3> QED BY <3>1, TodosAre DEF Pending
  <2>6. JobsCounted'
    <3>1. Pending("camera")' + Owed' <= Pending("camera") + Owed
      BY <1>2, <2>4, <2>5
    <3>2. Pending("audio")' <= Pending("audio")
      BY <1>2, <2>4
    <3> QED BY <2>1, <3>1, <3>2, JobsStay
  <2> QED BY <2>3, <2>6
<1>9. CASE Check \/ \E t \in Sources : NoMoreEvents(t)
  <2>1. UNCHANGED <<queue, jobs, inputs>> /\ pc'["camera"] \in {pc["camera"], "idle"}
        /\ (todo' = todo \/ todo' = [todo EXCEPT !["audio"] = <<>>])
    BY <1>5, <1>9, GoesTo DEF Check, NoMoreEvents, records
  <2>2. Offered("camera")' = Offered("camera") /\ Offered("audio")' = Offered("audio")
        /\ Sentinels' = Sentinels /\ Owed' = Owed
    <3>1. CASE Check
      <4>1. pc["audio"] = "check" /\ pc'["audio"] \in {"idle", "decide"} /\ pc'["camera"] = pc["camera"]
        BY <1>5, <3>1, GoesTo DEF Check
      <4> QED BY <4>1 DEF Offered, Sentinels, Owed
    <3>2. ASSUME NEW t \in Sources, NoMoreEvents(t) 
          PROVE  Offered("camera")' = Offered("camera") /\ Offered("audio")' = Offered("audio")
                 /\ Sentinels' = Sentinels /\ Owed' = Owed
      <4>1. pc[t] = "decide" /\ pc'[t] = "idle" /\ \A u \in Sources \ {t} : pc'[u] = pc[u]
        BY <1>5, <3>2, GoesTo DEF NoMoreEvents
      <4> QED BY <4>1 DEF Offered, Sentinels, Owed
    <3> QED BY <1>9, <3>1, <3>2
  <2>3. QueueCounted'
    BY <2>1, <2>2 DEF QueueCounted
  <2>4. Pending("camera")' = Pending("camera")
        /\ (Pending("audio")' = Pending("audio") \/ Pending("audio")' = 0)
    BY <1>5, <2>1 DEF Pending, Shapes
  <2>5. Pending("camera")' + Owed' <= Pending("camera") + Owed /\ Pending("audio")' <= Pending("audio")
    BY <1>2, <2>2, <2>4
  <2> QED BY <2>1, <2>3, <2>5, JobsStay
<1>10. ASSUME NEW t \in Sources, Decide(t) PROVE Counting'
  <2>0. jobs \in Nat
    BY <1>1
  <2>1. pc[t] = "decide" /\ todo[t] # <<>> /\ todo' = [todo EXCEPT ![t] = Tail(todo[t])]
        /\ UNCHANGED <<queue, inputs>>
    BY <1>10 DEF Decide
  <2>2. \/ jobs' = jobs /\ pc' = pc
        \/ jobs' = jobs + 1 /\ pc'[t] \in {"accept", "enqueue"} /\ \A u \in Sources \ {t} : pc'[u] = pc[u]
    BY <1>5, <1>10, GoesTo DEF Decide, records
  <2>3. Sentinels' = Sentinels /\ Owed' = Owed
    BY <2>1, <2>2 DEF Sentinels, Owed
  <2>4. QueueCounted'
    <3>1. CASE jobs' = jobs /\ pc' = pc
      BY <2>1, <2>3, <3>1 DEF QueueCounted, Offered
    <3>2. CASE jobs' = jobs + 1 /\ t = "camera"
      <4>1. Offered("camera") = 0 /\ Offered("camera")' = 1 /\ Offered("audio")' = Offered("audio")
        BY <2>1, <2>2, <3>2 DEF Offered
      <4>2. Len(queue)' = Len(queue)
        BY <2>1
      <4> QED BY <1>1, <1>2, <2>3, <3>2, <4>1, <4>2 DEF QueueCounted
    <3>3. CASE jobs' = jobs + 1 /\ t = "audio"
      <4>1. Offered("audio") = 0 /\ Offered("audio")' = 1 /\ Offered("camera")' = Offered("camera")
        BY <2>1, <2>2, <3>3 DEF Offered
      <4>2. Len(queue)' = Len(queue)
        BY <2>1
      <4> QED BY <1>1, <1>2, <2>3, <3>3, <4>1, <4>2 DEF QueueCounted
    <3> QED BY <2>2, <3>1, <3>2, <3>3
  <2>5. Len(Tail(todo[t])) = Len(todo[t]) - 1 /\ Len(todo[t]) \in Nat
    BY <1>4, <2>1, TodosAre
  <2>6. Pending(t)' = Pending(t) - 1 /\ \A u \in Sources \ {t} : Pending(u)' = Pending(u)
    BY <1>5, <2>1, <2>5 DEF Pending, Shapes
  <2>7. Pending("camera")' + Pending("audio")' = Pending("camera") + Pending("audio") - 1
    BY <1>2, <2>6
  <2>8. jobs' = jobs \/ jobs' = jobs + 1
    BY <2>2
  <2>9. JobsCounted'
    <3>1. inputs \in Nat
      BY DEF JobsCounted
    <3>2. jobs' + Pending("camera")' + Pending("audio")' + Owed' + 2 * inputs
            <= jobs + Pending("camera") + Pending("audio") + Owed + 2 * inputs'
      <4>1. PICK j \in Nat, k \in Nat : j = jobs /\ k = jobs' /\ k <= j + 1
        BY <2>0, <2>8
      <4>2. PICK p \in Nat, o \in Nat, n \in Nat :
              p = Pending("camera") + Pending("audio") /\ o = Owed /\ n = 2 * inputs
        BY <1>2, <3>1
      <4>3. PICK q \in Nat : q = Pending("camera")' + Pending("audio")'
        BY <1>3
      <4>4. q + 1 = p
        BY <1>2, <1>3, <2>7, <4>2, <4>3
      <4>5. Owed' = o /\ 2 * inputs' = n
        BY <2>1, <2>3, <4>2
      <4>6. k + q + o + n <= j + p + o + n
        <5>1. k <= j + 1
          BY <4>1
        <5>2. k + q <= j + p
          BY ONLY <5>1, <4>4
        <5> QED BY ONLY <5>2
      <4>7. jobs' + Pending("camera")' + Pending("audio")' = k + q
        BY <1>3, <4>1, <4>3
      <4>8. jobs + Pending("camera") + Pending("audio") = j + p
        BY <1>2, <4>1, <4>2
      <4> QED BY <4>2, <4>5, <4>6, <4>7, <4>8
    <3> QED BY <1>1, <2>1, <2>8, <3>2, JobsGoOn
  <2> QED BY <2>4, <2>9
<1>11. ASSUME NEW t \in Sources, Accept(t) \/ Enqueue(t) PROVE Counting'
  <2>1. pc[t] \in {"accept", "enqueue"} /\ UNCHANGED <<todo, inputs, jobs>>
        /\ \A u \in Sources \ {t} : pc'[u] = pc[u]
    BY <1>5, <1>11, GoesTo DEF Accept, Enqueue
  <2>2. \/ queue' = queue /\ pc'[t] \in {"enqueue", "decide", "inline"}
        \/ queue' = Append(queue, mine[t]) /\ pc'[t] = "decide"
    BY <1>5, <1>11, GoesTo DEF Accept, Enqueue
  <2>3. Sentinels' = Sentinels /\ Owed' = Owed
    BY <2>1, <2>2 DEF Sentinels, Owed
  <2>4. QueueCounted'
    <3>1. CASE queue' = queue
      <4>1. Offered(t)' <= Offered(t) /\ \A u \in Sources \ {t} : Offered(u)' = Offered(u)
        BY <2>1, <2>2 DEF Offered
      <4>2. Offered("camera")' <= Offered("camera")
        BY <1>2, <4>1
      <4>3. Offered("audio")' <= Offered("audio")
        BY <1>2, <4>1
      <4>4. Len(queue') = Len(queue)
        BY <3>1
      <4> QED BY <1>1, <1>2, <1>3, <2>1, <2>3, <4>2, <4>3, <4>4 DEF QueueCounted
    <3>2. CASE queue' = Append(queue, mine[t]) /\ pc'[t] = "decide"
      <4>1. Offered(t) = 1 /\ Offered(t)' = 0 /\ \A u \in Sources \ {t} : Offered(u)' = Offered(u)
        BY <2>1, <3>2 DEF Offered
      <4>2. Len(queue)' = Len(queue) + 1
        BY <1>1, <3>2, QueueTakes
      <4>4. Len(queue') + Offered("camera")' + Offered("audio")'
              = Len(queue) + Offered("camera") + Offered("audio")
        <5>1. CASE t = "camera"
          <6>1. Offered("camera") = 1 /\ Offered("camera")' = 0 /\ Offered("audio")' = Offered("audio")
            BY <4>1, <5>1 DEF Sources
          <6> QED BY <1>1, <1>2, <4>2, <6>1
        <5>2. CASE t = "audio"
          <6>1. Offered("audio") = 1 /\ Offered("audio")' = 0 /\ Offered("camera")' = Offered("camera")
            BY <4>1, <5>2 DEF Sources
          <6> QED BY <1>1, <1>2, <4>2, <6>1
        <5> QED BY <5>1, <5>2 DEF Sources
      <4>5. jobs' + Sentinels' = jobs + Sentinels
        BY <2>1, <2>3
      <4> QED BY <4>4, <4>5 DEF QueueCounted
    <3> QED BY <2>2, <3>1, <3>2
  <2>5. Pending("camera")' = Pending("camera") /\ Pending("audio")' = Pending("audio")
    BY <2>1 DEF Pending
  <2>6. Pending("camera")' + Owed' <= Pending("camera") + Owed /\ Pending("audio")' <= Pending("audio")
    BY <1>2, <2>3, <2>5
  <2> QED BY <2>1, <2>4, <2>6, JobsStay
<1> QED BY <1>6, <1>7, <1>8, <1>9, <1>10, <1>11 DEF Handles

\* A step of a reaction, of the speech or of the close makes no job.
LEMMA OtherCounting ==
  ASSUME Placed, Placed', Counting, Closing, QueueTypes,
         Close \/ Closes \/ Get \/ Speech \/ \E e \in Runners : Execute(e)
  PROVE  Counting'
<1>1. Len(queue) \in Nat /\ jobs \in Nat /\ queue \in Seq({Stop} \cup Jobs)
  BY DEF QueueTypes, Counting, JobsCounted
<1>2. NaturalCounts
  BY Counts
<1>3. NaturalCounts'
  BY Counts, PTL
<1>4. Shapes
  BY DEF Placed
<1> USE DEF Counting, NaturalCounts, Sources
<1>5. UNCHANGED <<todo, inputs, jobs>>
  <2>1. CASE Close \/ Closes
    BY <2>1 DEF Close, Closes, JoinAudio, Cancel, Drain, Sentinel, JoinWorker, ShutExecutor, CloseRobot,
                Still, records
  <2>2. CASE Get \/ Speech
    BY <2>2 DEF Get, Speech, Speak, sources, records
  <2>3. CASE \E e \in Runners : Execute(e)
    BY <1>4, <2>3, ExecuteDoes DEF Inner, Ends, sources
  <2> QED BY <2>1, <2>2, <2>3
<1>6. Pending("camera")' = Pending("camera") /\ Pending("audio")' = Pending("audio")
  BY <1>5 DEF Pending
<1>7. ASSUME Owed' <= Owed PROVE JobsCounted'
  <2>1. Pending("camera")' + Owed' <= Pending("camera") + Owed /\ Pending("audio")' <= Pending("audio")
    BY <1>2, <1>3, <1>6, <1>7
  <2> QED BY <1>5, <2>1, JobsStay
<1>8. ASSUME Len(queue)' \in Nat, Len(queue)' <= Len(queue), Sentinels' = Sentinels,
             Offered("camera")' <= Offered("camera"), Offered("audio")' <= Offered("audio")
      PROVE  QueueCounted'
  BY <1>1, <1>2, <1>3, <1>5, <1>8 DEF QueueCounted
<1>9. CASE Close \/ JoinAudio \/ Drain \/ JoinWorker \/ ShutExecutor \/ CloseRobot
  <2>1. queue' = queue /\ pc'["audio"] = pc["audio"]
        /\ \/ pc["camera"] \in {"idle", "stopping", "drain"} /\ pc'["camera"] \in {"stopping", "cancel", "drain", "sentinel"}
           \/ pc["camera"] \in {"joinWorker", "shutdown", "speech"} /\ pc'["camera"] \in {"shutdown", "speech", "closed"}
    BY <1>4, <1>9, GoesTo DEF Close, JoinAudio, Drain, JoinWorker, ShutExecutor, CloseRobot
  <2>2. Owed' = Owed /\ Sentinels' = Sentinels /\ Offered("camera")' = Offered("camera")
        /\ Offered("audio")' = Offered("audio") /\ Len(queue)' = Len(queue)
    BY <2>1 DEF Owed, Sentinels, Offered
  <2> QED BY <1>1, <1>2, <1>7, <1>8, <2>2
<1>10. CASE Cancel
  <2>1. queue' = <<>> /\ pc'["audio"] = pc["audio"] /\ pc["camera"] = "cancel" /\ pc'["camera"] = "drain"
    BY <1>4, <1>10, GoesTo DEF Cancel
  <2>2. Owed' = Owed /\ Sentinels' = Sentinels /\ Offered("camera")' = Offered("camera")
        /\ Offered("audio")' = Offered("audio") /\ Len(queue)' = 0
    BY <2>1 DEF Owed, Sentinels, Offered
  <2> QED BY <1>1, <1>2, <1>7, <1>8, <2>2
<1>11. CASE Sentinel
  <2>1. queue' = Append(queue, Stop) /\ pc'["audio"] = pc["audio"] /\ pc["camera"] = "sentinel"
        /\ pc'["camera"] = "joinWorker"
    BY <1>4, <1>11, GoesTo DEF Sentinel
  <2>2. Owed' = Owed /\ Sentinels = 0 /\ Sentinels' = 1 /\ Offered("camera")' = Offered("camera")
        /\ Offered("audio")' = Offered("audio")
    BY <2>1 DEF Owed, Sentinels, Offered
  <2>3. Len(queue)' = Len(queue) + 1
    BY <1>1, <2>1, QueueTakes
  <2>4. QueueCounted'
    BY <1>1, <1>2, <1>5, <2>2, <2>3 DEF QueueCounted
  <2> QED BY <1>2, <1>7, <2>2, <2>4
<1>12. CASE Get \/ Speech
  <2>1. UNCHANGED pc
    BY <1>12 DEF Get, Speech, Speak, sources
  <2>2. Owed' = Owed /\ Sentinels' = Sentinels /\ Offered("camera")' = Offered("camera")
        /\ Offered("audio")' = Offered("audio")
    BY <2>1 DEF Owed, Sentinels, Offered
  <2>3. Len(queue)' \in Nat /\ Len(queue)' <= Len(queue)
    <3>1. CASE Get
      BY <1>1, <3>1, HeadTailProperties DEF Get
    <3>2. CASE Speech
      BY <1>1, <3>2 DEF Speech, Speak
    <3> QED BY <1>12, <3>1, <3>2
  <2> QED BY <1>2, <1>7, <1>8, <2>2, <2>3
<1>13. ASSUME NEW e \in Runners, Execute(e) PROVE Counting'
  <2>1. queue' = queue /\ pc'["camera"] = pc["camera"] /\ (pc'["audio"] = pc["audio"] \/ pc'["audio"] = "decide")
    BY <1>4, <1>13, ExecuteDoes, GoesTo DEF Inner, Ends, sources
  <2>2. Owed' = Owed /\ Sentinels' = Sentinels /\ Offered("camera")' = Offered("camera")
        /\ (Offered("audio")' = Offered("audio") \/ Offered("audio")' = 0) /\ Len(queue)' = Len(queue)
    BY <2>1 DEF Owed, Sentinels, Offered
  <2> QED BY <1>1, <1>2, <1>7, <1>8, <2>2
<1> QED BY <1>9, <1>10, <1>11, <1>12, <1>13 DEF Closes

(***************************************************************************)
(* Who is where while the engine closes.                                   *)
(***************************************************************************)

\* Handling an input keeps the order of close: the threads and flags it has passed.
LEMMA HandlesClosing ==
  ASSUME Placed, Closing, Drained, Handles
  PROVE  Closing' /\ Drained'
<1>1. Shapes /\ FlagTypes
  BY DEF Placed
<1>2. UNCHANGED <<worker, shutdown, executor, robotClosed, viewer, gaveUp>>
  BY DEF Handles, Read, Chunk, Update, Check, NoMoreEvents, Decide, Accept, Enqueue, closing
<1>3. at'["worker"] = at["worker"]
  BY <1>1 DEF Handles, Read, Chunk, Update, Check, NoMoreEvents, Decide, Accept, Enqueue, execution,
              Shapes, Closing, Runners, Sources, PastDrain
<1> USE DEF Sources, PastDrain
<1>4. CASE Read \/ Update
  <2>1. pc["camera"] \in {"idle", "update"} /\ pc'["camera"] \in {"update", "decide"}
        /\ pc'["audio"] = pc["audio"]
    BY <1>1, <1>4, GoesTo DEF Read, Update
  <2>2. todo'["audio"] = todo["audio"] /\ at' = at
    BY <1>1, <1>4 DEF Read, Update, execution, Shapes
  <2>3. Closing'
    BY <1>2, <2>1, <2>2 DEF Closing
  <2> QED BY <2>1, <2>3 DEF Drained
<1>5. CASE Chunk
  <2>1. pc["audio"] = "idle" /\ pc'["audio"] = "check" /\ pc'["camera"] = pc["camera"]
        /\ pc["camera"] \in {"idle", "update", "decide", "accept", "enqueue"} /\ ~viewer
    BY <1>1, <1>5, GoesTo DEF Chunk, Audio
  <2>2. at' = at
    BY <1>5 DEF Chunk, execution
  <2>3. Closing'
    BY <1>2, <2>1, <2>2 DEF Closing
  <2> QED BY <2>1, <2>3 DEF Drained
<1>6. CASE Check
  <2>1. pc["audio"] = "check" /\ pc'["audio"] \in {"idle", "decide"} /\ pc'["camera"] = pc["camera"]
        /\ at' = at /\ queue' = queue
    BY <1>1, <1>6, GoesTo DEF Check, execution
  <2>2. Closing'
    BY <1>2, <2>1 DEF Closing
  <2>3. Drained'
    BY <1>2, <2>1 DEF Drained, AudioGoesOn, Runs, OnlySentinels
  <2> QED BY <2>2, <2>3
<1>7. ASSUME NEW t \in Sources, NoMoreEvents(t) PROVE Closing' /\ Drained'
  <2>1. pc[t] = "decide" /\ pc'[t] = "idle" /\ \A u \in Sources \ {t} : pc'[u] = pc[u]
    BY <1>1, <1>7, GoesTo DEF NoMoreEvents
  <2>2. UNCHANGED <<at, queue, todo>>
    BY <1>7 DEF NoMoreEvents, execution
  <2>3. Closing'
    BY <1>2, <2>1, <2>2 DEF Closing
  <2>4. Drained'
    BY <1>2, <2>1, <2>2 DEF Drained, AudioGoesOn, Runs, OnlySentinels
  <2> QED BY <2>3, <2>4
<1>8. ASSUME NEW t \in Sources, Decide(t) PROVE Closing' /\ Drained'
  <2>1. pc[t] = "decide" /\ todo[t] # <<>> /\ UNCHANGED <<at, queue>>
        /\ \A u \in Sources \ {t} : pc'[u] = pc[u] /\ todo'[u] = todo[u]
    BY <1>1, <1>8, GoesTo DEF Decide, execution, Shapes
  <2>2. pc'[t] \in {"decide", "accept", "enqueue"}
    BY <1>1, <1>8, GoesTo DEF Decide
  <2>3. t = "audio" => todo'[t] = <<>>
    <3>1. SUFFICES ASSUME t = "audio" PROVE todo'["audio"] = <<>>
      OBVIOUS
    <3>2. todo["audio"] \in Todos /\ Len(todo["audio"]) <= 1
      BY <1>1 DEF Shapes
    <3>3. Tail(todo["audio"]) \in Todos /\ Len(Tail(todo["audio"])) = Len(todo["audio"]) - 1
          /\ Len(todo["audio"]) \in 0..2
      BY <2>1, <3>1, <3>2, TodosAre
    <3>4. Len(Tail(todo["audio"])) \in 0..2 /\ Len(Tail(todo["audio"])) <= 0
      BY <3>2, <3>3, TodosAre
    <3>5. Tail(todo["audio"]) = <<>>
      BY <3>3, <3>4, TodosAre
    <3> QED BY <1>1, <1>8, <3>1, <3>5 DEF Decide, Shapes
  <2>4. Closing'
    BY <1>2, <2>1, <2>2, <2>3 DEF Closing
  <2>5. Drained'
    BY <1>2, <2>1, <2>2 DEF Drained, AudioGoesOn, Runs, OnlySentinels
  <2> QED BY <2>4, <2>5
<1>9. ASSUME NEW t \in Sources, Accept(t) PROVE Closing' /\ Drained'
  <2>1. pc[t] = "accept" /\ pc'[t] \in {"enqueue", "decide"} /\ \A u \in Sources \ {t} : pc'[u] = pc[u]
    BY <1>1, <1>9, GoesTo DEF Accept
  <2>2. UNCHANGED <<at, queue, todo>>
    BY <1>9 DEF Accept, execution
  <2>3. Closing'
    BY <1>2, <2>1, <2>2 DEF Closing
  <2>4. Drained'
    BY <1>2, <2>1, <2>2 DEF Drained, AudioGoesOn, Runs, OnlySentinels
  <2> QED BY <2>3, <2>4
<1>10. ASSUME NEW t \in Sources, Enqueue(t) PROVE Closing' /\ Drained'
  <2>1. pc[t] = "enqueue" /\ todo' = todo /\ \A u \in Sources \ {t} : pc'[u] = pc[u]
    BY <1>1, <1>10, GoesTo DEF Enqueue
  <2>2. CASE worker
    <3>1. pc'[t] = "decide" /\ at' = at
      BY <1>1, <1>10, <2>2, GoesTo DEF Enqueue
    <3>2. Closing'
      BY <1>2, <2>1, <3>1 DEF Closing
    <3>3. Drained'
      <4>1. CASE t = "camera"
        BY <3>1, <4>1 DEF Drained
      <4>2. CASE t = "audio"
        BY <1>2, <2>1, <3>1, <4>2 DEF Drained, AudioGoesOn, Closing
      <4> QED BY <4>1, <4>2
    <3> QED BY <3>2, <3>3
  <2>3. CASE ~worker
    <3>1. t = "audio"
      BY <2>1, <2>3 DEF Closing
    <3>2. pc'["audio"] = "inline" /\ at'["audio"] = "before" /\ queue' = queue
      BY <1>1, <1>10, <2>3, <3>1, GoesTo DEF Enqueue, Shapes, Runners
    <3>3. Closing'
      BY <1>2, <2>1, <2>3, <3>1, <3>2 DEF Closing
    <3>4. Drained'
      BY <1>2, <1>3, <2>1, <3>1, <3>2 DEF Drained, AudioGoesOn, Runs, OnlySentinels
    <3> QED BY <3>3, <3>4
  <2> QED BY <2>2, <2>3
<1> QED BY <1>4, <1>5, <1>6, <1>7, <1>8, <1>9, <1>10 DEF Handles

\* Closing itself, and the threads it waits for, keep that order.
LEMMA OtherClosing ==
  ASSUME Placed, Closing, Drained, QueueTypes,
         Close \/ Closes \/ Get \/ Speech \/ \E e \in Runners : Execute(e)
  PROVE  Closing' /\ Drained'
<1>1. Shapes /\ FlagTypes
  BY DEF Placed
<1>2. queue \in Seq({Stop} \cup Jobs)
  BY DEF QueueTypes
<1> USE DEF Sources, PastDrain
<1>3. CASE Close \/ JoinAudio \/ Cancel
  <2>1. pc'["camera"] \in {"stopping", "cancel", "drain"} /\ pc'["audio"] = pc["audio"]
        /\ UNCHANGED <<at, todo, worker, executor, robotClosed, viewer>>
    BY <1>1, <1>3, GoesTo DEF Close, JoinAudio, Cancel, Still, execution, closing
  <2>2. CASE Close
    <3>1. pc["camera"] = "idle" /\ shutdown' = viewer
          /\ (viewer => Goto("camera", "cancel")) /\ (~viewer => Goto("camera", "stopping"))
      BY <2>2 DEF Close, Audio
    <3>2. (viewer => pc'["camera"] = "cancel") /\ (~viewer => pc'["camera"] = "stopping")
      BY <1>1, <3>1, GoesTo
    <3>3. CASE viewer
      BY <1>1, <2>1, <3>1, <3>2, <3>3 DEF Closing, Drained, FlagTypes
    <3>4. CASE ~viewer
      BY <1>1, <2>1, <3>1, <3>2, <3>4 DEF Closing, Drained, FlagTypes
    <3> QED BY <3>3, <3>4
  <2>3. CASE JoinAudio
    <3>1. pc["camera"] = "stopping" /\ pc'["camera"] = "drain" /\ gaveUp' = (pc["audio"] # "idle")
          /\ shutdown' = shutdown
      BY <1>1, <2>3, GoesTo DEF JoinAudio
    <3> QED BY <2>1, <3>1 DEF Closing, Drained
  <2>4. CASE Cancel
    <3>1. pc["camera"] = "cancel" /\ pc'["camera"] = "drain" /\ UNCHANGED <<shutdown, gaveUp>>
      BY <1>1, <2>4, GoesTo DEF Cancel, closing
    <3> QED BY <2>1, <3>1 DEF Closing, Drained
  <2> QED BY <1>3, <2>2, <2>3, <2>4
<1>4. CASE Drain \/ Sentinel \/ JoinWorker \/ ShutExecutor \/ CloseRobot
  <2>1. pc["camera"] \in {"drain"} \cup PastDrain /\ pc["camera"] # "closed" /\ pc'["camera"] \in PastDrain
        /\ pc'["audio"] = pc["audio"] /\ UNCHANGED <<at, todo, shutdown, viewer>>
        /\ (pc["camera"] \in {"shutdown", "speech"} => pc'["camera"] \in {"speech", "closed"})
    BY <1>1, <1>4, GoesTo DEF Drain, Sentinel, JoinWorker, ShutExecutor, CloseRobot, Still, execution, closing
  <2>2. (worker' = worker \/ (JoinWorker /\ pc'["camera"] = "shutdown" /\ ~worker'))
        /\ (gaveUp' = gaveUp \/ (gaveUp' = (gaveUp \/ at["worker"] # "gone")))
        /\ (robotClosed' = robotClosed \/ pc'["camera"] = "closed")
    BY <1>1, <1>4, GoesTo DEF Drain, Sentinel, JoinWorker, ShutExecutor, CloseRobot, closing
  <2>3. Closing'
    <3>1. ~gaveUp' => ~gaveUp
      BY <2>2
    <3>2. ~worker' => pc'["camera"] \in {"shutdown", "speech", "closed"}
      BY <2>1, <2>2 DEF Closing
    <3>3. robotClosed' => pc'["camera"] = "closed"
      BY <2>1, <2>2 DEF Closing
    <3>4. worker' = worker \/ ~worker'
      BY <2>2
    <3> QED BY <2>1, <3>1, <3>2, <3>3, <3>4 DEF Closing
  <2>4. Drained'
    <3>1. CASE Drain
      BY <1>1, <2>1, <3>1 DEF Drain, Drained, Runs, OnlySentinels
    <3>2. CASE Sentinel
      <4>1. pc["camera"] \in PastDrain /\ queue' = Append(queue, Stop) /\ gaveUp' = gaveUp
        BY <3>2 DEF Sentinel, closing
      <4>2. OnlySentinels => OnlySentinels'
        BY <1>2, <4>1, QueueTakes DEF OnlySentinels
      <4> QED BY <2>1, <4>1, <4>2 DEF Drained, AudioGoesOn, Runs
    <3>3. CASE JoinWorker \/ ShutExecutor \/ CloseRobot
      <4>1. pc["camera"] \in PastDrain /\ queue' = queue
        BY <3>3 DEF JoinWorker, ShutExecutor, CloseRobot
      <4>2. ~gaveUp' => ~gaveUp
        BY <2>2
      <4> QED BY <2>1, <4>1, <4>2 DEF Drained, AudioGoesOn, Runs, OnlySentinels
    <3> QED BY <1>4, <3>1, <3>2, <3>3
  <2> QED BY <2>3, <2>4
<1>5. CASE Get
  <2>1. at'["audio"] = at["audio"] /\ UNCHANGED <<pc, todo, worker, shutdown, viewer, robotClosed, gaveUp>>
    BY <1>1, <1>5 DEF Get, Shapes, Runners, sources, closing
  <2>2. Closing'
    BY <2>1 DEF Closing
  <2>3. OnlySentinels => at'["worker"] = "gone" /\ OnlySentinels'
    <3>1. SUFFICES ASSUME OnlySentinels PROVE at'["worker"] = "gone" /\ OnlySentinels'
      OBVIOUS
    <3>2. queue # <<>> /\ queue' = Tail(queue) /\ Len(queue) \in Nat /\ DOMAIN queue = 1..Len(queue)
      BY <1>2, <1>5 DEF Get
    <3>3. Len(queue) # 0
      BY <1>2, <3>2, EmptySeq
    <3>4. 1 \in DOMAIN queue /\ Head(queue) = queue[1]
      BY <1>2, <3>2, <3>3
    <3>5. Head(queue) = Stop
      BY <3>1, <3>4 DEF OnlySentinels
    <3>6. \A i \in DOMAIN Tail(queue) : i + 1 \in DOMAIN queue /\ Tail(queue)[i] = queue[i + 1]
      BY <1>2, <3>2, <3>3
    <3> QED BY <1>1, <1>5, <3>1, <3>2, <3>5, <3>6 DEF Get, OnlySentinels, Shapes, Runners
  <2> QED BY <2>1, <2>2, <2>3 DEF Drained, AudioGoesOn, Runs
<1>6. CASE Speech
  <2>1. UNCHANGED <<at, queue, pc, todo, worker, shutdown, viewer, robotClosed, gaveUp>>
    BY <1>6 DEF Speech, Speak, sources, closing
  <2>2. Closing'
    BY <2>1 DEF Closing
  <2> QED BY <2>1, <2>2 DEF Drained, AudioGoesOn, Runs, OnlySentinels
<1>7. ASSUME NEW e \in Runners, Execute(e) PROVE Closing' /\ Drained'
  <2>1. UNCHANGED <<queue, todo, worker, shutdown, viewer, robotClosed, gaveUp>> /\ Runs(e)
        /\ pc'["camera"] = pc["camera"]
        /\ \/ Runs(e)' /\ pc' = pc
           \/ at'[e] = "get" /\ e = "worker" /\ pc' = pc
           \/ at'[e] = "get" /\ e = "audio" /\ pc'["audio"] = "decide"
        /\ \A d \in Runners \ {e} : at'[d] = at[d]
    <3>1. CASE Inner(e)
      BY <3>1 DEF Inner, sources, closing
    <3>2. CASE Ends(e)
      BY <1>1, <3>2, GoesTo DEF Ends, closing, Runs, Shapes
    <3> QED BY <1>1, <1>7, <3>1, <3>2, ExecuteDoes
  <2> USE DEF Runners
  <2>2. Closing'
    BY <2>1 DEF Closing, Runs
  <2>3. Drained'
    BY <2>1 DEF Drained, AudioGoesOn, Runs, OnlySentinels, Closing
  <2> QED BY <2>2, <2>3
<1> QED BY <1>3, <1>4, <1>5, <1>6, <1>7 DEF Closes

(***************************************************************************)
(* Where the jobs are.                                                     *)
(***************************************************************************)

\* Never both threads run a reaction: a late one has outlived the worker.
LEMMA OneRunner ==
  ASSUME Closing, Drained PROVE ~(Runs("audio") /\ Runs("worker"))
<1>1. Runs("audio") => pc["audio"] = "inline" /\ pc["camera"] \in PastDrain
  BY DEF Closing, Runs, PastDrain
<1> QED BY <1>1 DEF Drained, AudioGoesOn

\* A step after which each job is where it was or nowhere keeps the places apart.
Left(j) == /\ \A t \in Sources : Offers(t) => mine[t] # j
           /\ \A i \in DOMAIN queue : queue[i] # j
           /\ \A e \in Runners : Runs(e) => job[e] # j

\* Such a step keeps every job in one place.
LEMMA PlacesShrink ==
  ASSUME OnePlace, jobs \in Nat, jobs' = jobs, queue' = queue \/ queue' = <<>>,
         \A t \in Sources : Offers(t)' => Offers(t) /\ mine'[t] = mine[t],
         \A e \in Runners : Runs(e)' => Runs(e) /\ job'[e] = job[e],
         \A j \in Jobs : Done(j)' => Done(j) \/ (j \in 1..jobs /\ Left(j)')
  PROVE  OnePlace'
<1>1. ASSUME NEW t \in Sources, Offers(t)'
      PROVE  Offers(t) /\ mine'[t] = mine[t] /\ Fresh(mine[t]) /\ ~Done(mine[t])'
  <2>1. Offers(t) /\ mine'[t] = mine[t] /\ Fresh(mine[t])
    BY <1>1 DEF OnePlace
  <2>2. ~Left(mine[t])'
    BY <1>1, <2>1 DEF Left
  <2> QED BY <2>1, <2>2 DEF Fresh
<1>2. ASSUME NEW e \in Runners, Runs(e)'
      PROVE  Runs(e) /\ job'[e] = job[e] /\ Fresh(job[e]) /\ ~Done(job[e])'
  <2>1. Runs(e) /\ job'[e] = job[e] /\ Fresh(job[e])
    BY <1>2 DEF OnePlace
  <2>2. ~Left(job[e])'
    BY <1>2, <2>1 DEF Left
  <2> QED BY <2>1, <2>2 DEF Fresh
<1>3. ASSUME NEW i \in DOMAIN queue'
      PROVE  queue' = queue /\ (queue[i] # Stop => Fresh(queue[i]) /\ ~Done(queue[i])')
  <2>1. queue' = queue
    BY <1>3
  <2>2. ~Left(queue[i])'
    BY <1>3, <2>1 DEF Left
  <2> QED BY <1>3, <2>1, <2>2 DEF OnePlace, Fresh
<1>4. /\ \A t \in Sources : Offers(t)' => Fresh(mine[t])'
      /\ \A e \in Runners : Runs(e)' => Fresh(job[e])'
      /\ \A i \in DOMAIN queue' : queue'[i] # Stop => Fresh(queue[i])'
  BY <1>1, <1>2, <1>3 DEF Fresh, Done
<1>5. \A j \in Jobs : j > jobs' => ~Done(j)'
  <2>1. \A j \in Jobs : j > jobs => ~Done(j) /\ j \notin 1..jobs
    BY DEF OnePlace
  <2> QED BY <2>1
<1>6. /\ \A t \in Sources, i \in DOMAIN queue' : Offers(t)' => queue'[i] # mine'[t]
      /\ \A t \in Sources, e \in Runners : Offers(t)' /\ Runs(e)' => job'[e] # mine'[t]
      /\ Offers("camera")' /\ Offers("audio")' => mine'["camera"] # mine'["audio"]
  BY <1>1, <1>2, <1>3 DEF OnePlace, Sources
<1>7. /\ \A i, k \in DOMAIN queue' : queue'[i] = queue'[k] /\ queue'[i] # Stop => i = k
      /\ \A i \in DOMAIN queue', e \in Runners : Runs(e)' => job'[e] # queue'[i]
  BY <1>2, <1>3 DEF OnePlace
<1> QED BY <1>4, <1>5, <1>6, <1>7 DEF OnePlace

\* Accepting, offering and putting move a job from one place to the next.
LEMMA HandlesOnePlace ==
  ASSUME Placed, Counting, Closing, Drained, TypeOK, OnePlace, Handles
  PROVE  OnePlace'
<1>1. Shapes /\ LabelTypes /\ JobTypes /\ DecisionTypes /\ QueueTypes
  BY DEF Placed, TypeOK
<1>2. state \in [Jobs -> {"none", "ACCEPTED", "STARTED", "COMPLETED", "FAILED"}]
  BY <1>1 DEF JobTypes
<1>3. ASSUME UNCHANGED <<mine, queue, job, at, state, jobs>>,
             \A t \in Sources : Offers(t)' => Offers(t)
      PROVE  OnePlace'
  <2>1. jobs \in Nat
    BY DEF Counting, JobsCounted
  <2>2. \A j \in Jobs : Done(j)' => Done(j)
    BY <1>3 DEF Done
  <2>3. \A e \in Runners : Runs(e)' => Runs(e) /\ job'[e] = job[e]
    BY <1>3 DEF Runs
  <2>4. \A t \in Sources : Offers(t)' => Offers(t) /\ mine'[t] = mine[t]
    BY <1>3
  <2>5. jobs' = jobs /\ queue' = queue
    BY <1>3
  <2> QED BY <2>1, <2>2, <2>3, <2>4, <2>5, PlacesShrink
<1>4. CASE Read \/ Update \/ Chunk \/ Check \/ \E t \in Sources : NoMoreEvents(t)
  <2>1. \E t \in Sources : /\ pc'[t] \in {"idle", "update", "check", "decide"}
                           /\ \A u \in Sources \ {t} : pc'[u] = pc[u]
    <3>1. Read \/ Update \/ Chunk \/ Check
            => \E t \in Sources, to \in {"idle", "update", "check", "decide"} : Goto(t, to)
      BY DEF Read, Update, Chunk, Check, Sources
    <3>2. \A t \in Sources : NoMoreEvents(t) => Goto(t, "idle")
      BY DEF NoMoreEvents
    <3> QED BY <1>1, <1>4, <3>1, <3>2, GoesTo
  <2>2. \A t \in Sources : Offers(t)' => Offers(t)
    BY <2>1 DEF Offers
  <2>3. UNCHANGED <<mine, queue, job, at, state, jobs>>
    BY <1>4 DEF Read, Update, Chunk, Check, NoMoreEvents, execution, records
  <2> QED BY <1>3, <2>2, <2>3
<1>5. ASSUME NEW t \in Sources, Decide(t) PROVE OnePlace'
  <2>1. CASE Rejects(t)
    BY <1>3, <1>5, <2>1 DEF Decide, execution, records, Offers
  <2>2. CASE ~Rejects(t)
    <3>0. PICK n : n = jobs + 1 /\ n \in Jobs /\ n \in 1..n /\ n \notin 1..jobs
      BY <1>1, <1>5, NextJob DEF Decide
    <3>1. /\ jobs' = n /\ mine' = [mine EXCEPT ![t] = n] /\ state' = [state EXCEPT ![n] = "ACCEPTED"]
          /\ UNCHANGED <<queue, job, at>> /\ \A u \in Sources \ {t} : pc'[u] = pc[u]
      BY <1>1, <1>5, <2>2, <3>0, GoesTo DEF Decide, execution
    <3>2. n \in Jobs /\ n \in 1..n /\ n \notin 1..jobs
      BY <3>0
    <3>3. jobs \in Nat
      BY DEF Counting, JobsCounted
    <3>4. ~Done(n)' /\ \A j \in Jobs \ {n} : Done(j)' = Done(j)
      BY <1>2, <3>1, <3>2 DEF Done
    <3>5. mine'[t] = n /\ \A u \in Sources \ {t} : mine'[u] = mine[u] /\ Offers(u)' = Offers(u)
      BY <1>1, <3>1 DEF DecisionTypes, Offers
    <3>6. \A j : Fresh(j) => Fresh(j)' /\ j # n
      <4>1. \A j \in 1..jobs : j \in 1..n /\ j # n
        BY <3>0, <3>3
      <4> QED BY <3>1, <3>4, <4>1 DEF Fresh
    <3>7. Fresh(n)' /\ n # Stop
      <4>1. n # Stop
        BY <3>0, <3>3 DEF Stop
      <4> QED BY <3>1, <3>2, <3>4, <4>1 DEF Fresh
    <3>8. /\ \A u \in Sources \ {t} : Offers(u) => Fresh(mine[u])
          /\ \A i \in DOMAIN queue : queue[i] # Stop => Fresh(queue[i])
          /\ \A e \in Runners : Runs(e) => Fresh(job[e])
      BY DEF OnePlace
    <3>9. \A e \in Runners : Runs(e)' = Runs(e) /\ job'[e] = job[e]
      BY <3>1 DEF Runs
    <3>10. \A j \in Jobs : j > jobs' => ~Done(j)'
      <4>1. \A j \in Jobs : j > jobs => ~Done(j)
        BY DEF OnePlace
      <4>2. \A j \in Jobs : j > n => j > jobs /\ j # n
        BY <3>0, <3>3 DEF Jobs
      <4> QED BY <3>1, <3>4, <4>1, <4>2
    <3>11. /\ \A u \in Sources : Offers(u)' => Fresh(mine[u])'
           /\ \A u \in Sources, i \in DOMAIN queue' : Offers(u)' => queue'[i] # mine'[u]
           /\ \A u \in Sources, e \in Runners : Offers(u)' /\ Runs(e)' => job'[e] # mine'[u]
      <4>1. ASSUME NEW u \in Sources, Offers(u)'
            PROVE  /\ Fresh(mine[u])' /\ \A i \in DOMAIN queue' : queue'[i] # mine'[u]
                   /\ \A e \in Runners : Runs(e)' => job'[e] # mine'[u]
        <5>1. CASE u = t
          <6>1. Fresh(mine[u])'
            BY <3>5, <3>7, <5>1 DEF Fresh, Done
          <6>2. \A i \in DOMAIN queue' : queue'[i] # mine'[u]
            BY <3>1, <3>5, <3>6, <3>7, <3>8, <5>1
          <6>3. \A e \in Runners : Runs(e)' => job'[e] # mine'[u]
            BY <3>5, <3>6, <3>8, <3>9, <5>1
          <6> QED BY <6>1, <6>2, <6>3
        <5>2. CASE u # t
          <6>1. Offers(u) /\ mine'[u] = mine[u]
            BY <3>5, <4>1, <5>2
          <6>2. Fresh(mine[u])'
            BY <3>6, <3>8, <5>2, <6>1 DEF Fresh, Done
          <6> QED BY <3>1, <3>9, <6>1, <6>2 DEF OnePlace
        <5> QED BY <5>1, <5>2
      <4> QED BY <4>1
    <3>12. Offers("camera")' /\ Offers("audio")' => mine'["camera"] # mine'["audio"]
      BY <3>5, <3>6, <3>8 DEF Sources
    <3>13. /\ \A i \in DOMAIN queue' : queue'[i] # Stop => Fresh(queue[i])'
           /\ \A e \in Runners : Runs(e)' => Fresh(job[e])'
      BY <3>1, <3>6, <3>8, <3>9 DEF Fresh, Done
    <3>14. /\ \A i, k \in DOMAIN queue' : queue'[i] = queue'[k] /\ queue'[i] # Stop => i = k
           /\ \A i \in DOMAIN queue', e \in Runners : Runs(e)' => job'[e] # queue'[i]
      BY <3>1, <3>9 DEF OnePlace
    <3> QED BY <3>10, <3>11, <3>12, <3>13, <3>14 DEF OnePlace
  <2> QED BY <2>1, <2>2
<1>6. jobs \in Nat
  BY DEF Counting, JobsCounted
<1>7. ASSUME NEW t \in Sources, Offers(t)
      PROVE  /\ mine[t] \in 1..jobs /\ mine[t] \in Jobs /\ ~Done(mine[t]) /\ mine[t] # Stop
             /\ \A u \in Sources \ {t} : Offers(u) => mine[u] # mine[t]
             /\ \A i \in DOMAIN queue : queue[i] # mine[t]
             /\ \A e \in Runners : Runs(e) => job[e] # mine[t]
  <2>1. Fresh(mine[t])
    BY <1>7 DEF OnePlace
  <2>2. mine[t] # Stop
    BY <2>1, <1>6 DEF Fresh, Stop
  <2>3. \A u \in Sources \ {t} : Offers(u) => mine[u] # mine[t]
    BY <1>7 DEF OnePlace, Sources
  <2>4. \A i \in DOMAIN queue : queue[i] # mine[t]
    BY <1>7 DEF OnePlace
  <2>5. \A e \in Runners : Runs(e) => job[e] # mine[t]
    BY <1>7 DEF OnePlace
  <2> QED BY <2>1, <2>2, <2>3, <2>4, <2>5 DEF Fresh
\* The job the thread holds has failed before it is queued.
<1>8. ASSUME NEW t \in Sources, Offers(t), pc'[t] = "decide", \A u \in Sources \ {t} : pc'[u] = pc[u],
             UNCHANGED <<mine, queue, job, at, jobs>>, state' = [state EXCEPT ![mine[t]] = "FAILED"]
      PROVE  OnePlace'
  <2>1. ~Offers(t)' /\ \A u \in Sources : Offers(u)' => Offers(u) /\ u # t /\ mine'[u] = mine[u]
    BY <1>8 DEF Offers
  <2>2. \A e \in Runners : Runs(e)' => Runs(e) /\ job'[e] = job[e]
    BY <1>8 DEF Runs
  <2>3. \A j \in Jobs : Done(j)' => Done(j) \/ (j \in 1..jobs /\ Left(j)')
    <3>1. \A j \in Jobs \ {mine[t]} : Done(j)' => Done(j)
      BY <1>2, <1>8 DEF Done
    <3>2. ASSUME NEW j, j = mine[t] PROVE j \in 1..jobs /\ Left(j)'
      BY <1>7, <1>8, <2>1, <2>2, <3>2 DEF Left
    <3> QED BY <3>1, <3>2
  <2>4. jobs' = jobs /\ queue' = queue
    BY <1>8
  <2> QED BY <1>6, <2>1, <2>2, <2>3, <2>4, PlacesShrink
<1>9. ASSUME NEW t \in Sources, Accept(t) PROVE OnePlace'
  <2>1. pc[t] = "accept" /\ UNCHANGED <<mine, queue, job, at, jobs>> /\ Offers(t)
    BY <1>9 DEF Accept, execution, Offers
  <2>2. CASE Goto(t, "enqueue") /\ UNCHANGED state
    <3>1. \A u \in Sources : Offers(u)' => Offers(u)
      BY <1>1, <2>1, <2>2, GoesTo DEF Offers
    <3> QED BY <1>3, <2>1, <2>2, <3>1
  <2>3. CASE Goto(t, "decide") /\ state' = [state EXCEPT ![mine[t]] = "FAILED"]
    BY <1>1, <1>8, <2>1, <2>3, GoesTo
  <2> QED BY <1>9, <2>2, <2>3 DEF Accept
<1>10. ASSUME NEW t \in Sources, Enqueue(t) PROVE OnePlace'
  <2>1. UNCHANGED <<mine, jobs>> /\ Offers(t)
    BY <1>10 DEF Enqueue, Offers
  <2>2. CASE worker /\ shutdown
    <3>1. Goto(t, "decide") /\ state' = [state EXCEPT ![mine[t]] = "FAILED"] /\ UNCHANGED <<queue, job, at>>
      BY <1>10, <2>2 DEF Enqueue
    <3> QED BY <1>1, <1>8, <2>1, <3>1, GoesTo
  <2>3. CASE worker /\ ~shutdown
    <3>1. Goto(t, "decide") /\ queue' = Append(queue, mine[t]) /\ UNCHANGED <<state, job, at>>
      BY <1>10, <2>3 DEF Enqueue
    <3>2. \A u \in Sources : Offers(u)' => Offers(u) /\ u # t
      BY <1>1, <3>1, GoesTo DEF Offers
    <3>3. \A e \in Runners : Runs(e)' = Runs(e) /\ job'[e] = job[e]
      BY <3>1 DEF Runs
    <3>4. \A j : Fresh(j)' = Fresh(j)
      BY <2>1, <3>1 DEF Fresh, Done
    <3>5. /\ DOMAIN queue' = DOMAIN queue \cup {Len(queue) + 1} /\ Len(queue) + 1 \notin DOMAIN queue
          /\ \A i \in DOMAIN queue : queue'[i] = queue[i]
          /\ queue'[Len(queue) + 1] = mine[t]
      BY <1>1, <3>1, QueueTakes DEF QueueTypes
    <3>6. /\ \A u \in Sources : Offers(u)' => Fresh(mine[u])'
          /\ \A e \in Runners : Runs(e)' => Fresh(job[e])'
          /\ \A u \in Sources, e \in Runners : Offers(u)' /\ Runs(e)' => job'[e] # mine'[u]
          /\ ~(Offers("camera")' /\ Offers("audio")')
      <4>1. \A u \in Sources : Offers(u)' => Fresh(mine[u])'
        BY <2>1, <3>1, <3>2 DEF OnePlace, Fresh, Done
      <4>2. \A e \in Runners : Runs(e)' => Fresh(job[e])'
        BY <2>1, <3>1, <3>3 DEF OnePlace, Fresh, Done
      <4>3. \A u \in Sources, e \in Runners : Offers(u)' /\ Runs(e)' => job'[e] # mine'[u]
        BY <2>1, <3>2, <3>3 DEF OnePlace
      <4>4. ~(Offers("camera")' /\ Offers("audio")')
        BY <3>2 DEF Sources
      <4> QED BY <4>1, <4>2, <4>3, <4>4
    <3>7. \A j \in Jobs : j > jobs' => ~Done(j)'
      BY <2>1, <3>1 DEF OnePlace, Done
    <3>8. \A i \in DOMAIN queue' : queue'[i] # Stop => Fresh(queue[i])'
      <4>1. ASSUME NEW i \in DOMAIN queue, queue'[i] # Stop PROVE Fresh(queue[i])'
        <5>1. Fresh(queue[i]) /\ queue'[i] = queue[i]
          BY <3>5, <4>1 DEF OnePlace
        <5> QED BY <2>1, <3>1, <5>1 DEF Fresh, Done
      <4>2. ASSUME NEW i, i = Len(queue) + 1 PROVE Fresh(queue[i])'
        <5>1. Fresh(mine[t]) /\ queue'[i] = mine[t]
          BY <2>1, <3>5, <4>2 DEF OnePlace
        <5> QED BY <2>1, <3>1, <5>1 DEF Fresh, Done
      <4> QED BY <3>5, <4>1, <4>2
    <3>9. \A u \in Sources, i \in DOMAIN queue' : Offers(u)' => queue'[i] # mine'[u]
      <4>1. \A u \in Sources, i \in DOMAIN queue : Offers(u)' => queue'[i] # mine'[u]
        BY <2>1, <3>2, <3>5 DEF OnePlace
      <4>2. \A u \in Sources : Offers(u)' => mine[t] # mine'[u]
        BY <1>7, <2>1, <3>2
      <4> QED BY <3>5, <4>1, <4>2
    <3>10. \A i, k \in DOMAIN queue' : queue'[i] = queue'[k] /\ queue'[i] # Stop => i = k
      <4>1. \A i, k \in DOMAIN queue : queue'[i] = queue'[k] /\ queue'[i] # Stop => i = k
        BY <3>5 DEF OnePlace
      <4>2. \A i \in DOMAIN queue : queue'[i] # mine[t]
        BY <1>7, <2>1, <3>5
      <4> QED BY <3>5, <4>1, <4>2
    <3>11. \A i \in DOMAIN queue', e \in Runners : Runs(e)' => job'[e] # queue'[i]
      <4>1. \A i \in DOMAIN queue, e \in Runners : Runs(e)' => job'[e] # queue'[i]
        BY <3>3, <3>5 DEF OnePlace
      <4>2. \A e \in Runners : Runs(e)' => job'[e] # mine[t]
        BY <1>7, <2>1, <3>3
      <4> QED BY <3>5, <4>1, <4>2
    <3> QED BY <3>6, <3>7, <3>8, <3>9, <3>10, <3>11 DEF OnePlace
  <2>4. CASE ~worker
    <3>1. Goto(t, "inline") /\ UNCHANGED <<queue, state>> /\ t = "audio"
          /\ at' = [at EXCEPT !["audio"] = "before"] /\ job' = [job EXCEPT !["audio"] = mine["audio"]]
      BY <1>1, <1>10, <2>4 DEF Enqueue, Closing, Sources
    <3>2. \A u \in Sources : Offers(u)' => Offers(u) /\ u # t
      BY <1>1, <3>1, GoesTo DEF Offers
    <3>3. job'["audio"] = mine[t] /\ \A e \in Runners \ {"audio"} : Runs(e)' = Runs(e) /\ job'[e] = job[e]
      BY <1>1, <3>1 DEF Runs, Runners, JobTypes, Shapes
    <3>4. \A j \in Jobs : j > jobs' => ~Done(j)'
      BY <2>1, <3>1 DEF OnePlace, Done
    <3>5. /\ \A u \in Sources : Offers(u)' => Fresh(mine[u])'
          /\ \A i \in DOMAIN queue' : queue'[i] # Stop => Fresh(queue[i])'
      <4>1. \A u \in Sources : Offers(u)' => Fresh(mine[u])'
        BY <2>1, <3>1, <3>2 DEF OnePlace, Fresh, Done
      <4>2. \A i \in DOMAIN queue' : queue'[i] # Stop => Fresh(queue[i])'
        BY <2>1, <3>1 DEF OnePlace, Fresh, Done
      <4> QED BY <4>1, <4>2
    <3>6. /\ \A u \in Sources, i \in DOMAIN queue' : Offers(u)' => queue'[i] # mine'[u]
          /\ \A i, k \in DOMAIN queue' : queue'[i] = queue'[k] /\ queue'[i] # Stop => i = k
          /\ ~(Offers("camera")' /\ Offers("audio")')
      BY <2>1, <3>1, <3>2 DEF OnePlace, Sources
    <3>7. ASSUME NEW e \in Runners, Runs(e)'
          PROVE  /\ Fresh(job[e])' /\ \A u \in Sources : Offers(u)' => job'[e] # mine'[u]
                 /\ \A i \in DOMAIN queue' : job'[e] # queue'[i]
      <4>1. CASE e = "audio"
        <5>1. Fresh(job[e])'
          <6>1. Fresh(mine[t]) /\ job'[e] = mine[t]
            BY <2>1, <3>3, <4>1 DEF OnePlace
          <6> QED BY <2>1, <3>1, <6>1 DEF Fresh, Done
        <5>2. \A u \in Sources : Offers(u)' => job'[e] # mine'[u]
          BY <1>7, <2>1, <3>2, <3>3, <4>1
        <5>3. \A i \in DOMAIN queue' : job'[e] # queue'[i]
          BY <1>7, <2>1, <3>1, <3>3, <4>1
        <5> QED BY <5>1, <5>2, <5>3
      <4>2. CASE e # "audio"
        <5>1. Runs(e) /\ job'[e] = job[e]
          BY <3>3, <3>7, <4>2
        <5>2. Fresh(job[e])'
          BY <2>1, <3>1, <5>1 DEF OnePlace, Fresh, Done
        <5>3. \A u \in Sources : Offers(u)' => job'[e] # mine'[u]
          BY <2>1, <3>2, <5>1 DEF OnePlace
        <5>4. \A i \in DOMAIN queue' : job'[e] # queue'[i]
          BY <3>1, <5>1 DEF OnePlace
        <5> QED BY <5>2, <5>3, <5>4
      <4> QED BY <4>1, <4>2
    <3> QED BY <3>4, <3>5, <3>6, <3>7 DEF OnePlace
  <2> QED BY <2>2, <2>3, <2>4
<1> QED BY <1>4, <1>5, <1>9, <1>10 DEF Handles

\* Taking, executing, draining and closing do so too.
LEMMA OtherOnePlace ==
  ASSUME Placed, Counting, Closing, Drained, TypeOK, OnePlace,
         Close \/ Closes \/ Get \/ Speech \/ \E e \in Runners : Execute(e)
  PROVE  OnePlace'
<1>1. Shapes /\ LabelTypes /\ JobTypes /\ QueueTypes
  BY DEF Placed, TypeOK
<1>2. state \in [Jobs -> {"none", "ACCEPTED", "STARTED", "COMPLETED", "FAILED"}]
  BY <1>1 DEF JobTypes
<1>3. jobs \in Nat
  BY DEF Counting, JobsCounted
<1>4. queue \in Seq({Stop} \cup Jobs)
  BY <1>1 DEF QueueTypes
<1>5. ASSUME \/ UNCHANGED pc
             \/ \E to : Goto("camera", to) /\ to \notin {"accept", "enqueue"}
             \/ Goto("audio", "decide"),
             mine' = mine
      PROVE  \A t \in Sources : Offers(t)' => Offers(t) /\ mine'[t] = mine[t]
  <2>1. \A t \in Sources : pc'[t] = pc[t] \/ pc'[t] \notin {"accept", "enqueue"}
    BY <1>1, <1>5, GoesTo DEF Sources
  <2> QED BY <1>5, <2>1 DEF Offers
<1>6. CASE Close \/ JoinAudio \/ Drain \/ JoinWorker \/ ShutExecutor \/ CloseRobot \/ Speech
  <2>1. UNCHANGED <<mine, queue, job, at, state, jobs>>
    BY <1>6 DEF Close, JoinAudio, Drain, JoinWorker, ShutExecutor, CloseRobot, Speech, Speak,
                Still, sources, execution, records
  <2>2. UNCHANGED pc \/ \E to : Goto("camera", to) /\ to \notin {"accept", "enqueue"}
    BY <1>6 DEF Close, JoinAudio, Drain, JoinWorker, ShutExecutor, CloseRobot, Speech, Speak, sources
  <2>3. \A j \in Jobs : Done(j)' => Done(j)
    BY <2>1 DEF Done
  <2>4. \A e \in Runners : Runs(e)' => Runs(e) /\ job'[e] = job[e]
    BY <2>1 DEF Runs
  <2> QED BY <1>3, <1>5, <2>1, <2>2, <2>3, <2>4, PlacesShrink
<1>7. CASE Cancel
  <2>1. UNCHANGED <<mine, job, at, jobs>> /\ queue' = <<>> /\ Goto("camera", "drain")
        /\ state' = [j \in Jobs |-> IF \E i \in DOMAIN queue : queue[i] = j THEN "FAILED" ELSE state[j]]
    BY <1>7 DEF Cancel, Still, execution
  <2>2. \A t \in Sources : Offers(t)' => Offers(t) /\ mine'[t] = mine[t]
    BY <1>5, <2>1
  <2>3. \A e \in Runners : Runs(e)' => Runs(e) /\ job'[e] = job[e]
    BY <2>1 DEF Runs
  <2>4. ASSUME NEW j \in Jobs, Done(j)', ~Done(j) PROVE j \in 1..jobs /\ Left(j)'
    <3>1. PICK i \in DOMAIN queue : queue[i] = j
      BY <2>1, <2>4 DEF Done
    <3>2. j # Stop
      BY EngineAssumption DEF Jobs, Stop, EngineAssumption
    <3>3. Fresh(j)
      BY <3>1, <3>2 DEF OnePlace
    <3>4. DOMAIN queue' = {}
      BY <2>1
    <3>5. Left(j)'
      BY <2>1, <2>2, <2>3, <3>1, <3>4 DEF OnePlace, Left
    <3> QED BY <3>3, <3>5 DEF Fresh
  <2> QED BY <1>3, <2>1, <2>2, <2>3, <2>4, PlacesShrink
<1>8. CASE Sentinel
  <2>1. UNCHANGED <<mine, job, at, state, jobs>> /\ queue' = Append(queue, Stop) /\ Goto("camera", "joinWorker")
    BY <1>8 DEF Sentinel, Still, execution, records
  <2>2. \A t \in Sources : Offers(t)' => Offers(t) /\ mine'[t] = mine[t]
    BY <1>5, <2>1
  <2>3. \A e \in Runners : Runs(e)' = Runs(e) /\ job'[e] = job[e]
    BY <2>1 DEF Runs
  <2>4. \A j : Fresh(j)' = Fresh(j)
    BY <2>1 DEF Fresh, Done
  <2>5. /\ DOMAIN queue' = DOMAIN queue \cup {Len(queue) + 1}
        /\ \A i \in DOMAIN queue : queue'[i] = queue[i]
        /\ queue'[Len(queue) + 1] = Stop
    BY <1>4, <2>1, QueueTakes
  <2>6. \A j : Fresh(j) => j # Stop
    BY <1>3 DEF Fresh, Stop
  <2>7. \A t \in Sources : Offers(t) => Fresh(mine[t])
    BY DEF OnePlace
  <2>8. \A e \in Runners : Runs(e) => Fresh(job[e])
    BY DEF OnePlace
  <2>9. \A t \in Sources : Offers(t)' => Fresh(mine[t])'
    BY <2>1, <2>2, <2>7 DEF Fresh, Done
  <2>10. \A e \in Runners : Runs(e)' => Fresh(job[e])'
    BY <2>1, <2>3, <2>8 DEF Fresh, Done
  <2>11. \A t \in Sources, i \in DOMAIN queue' : Offers(t)' => queue'[i] # mine'[t]
    BY <2>2, <2>5, <2>6, <2>7 DEF OnePlace
  <2>12. \A i \in DOMAIN queue', e \in Runners : Runs(e)' => job'[e] # queue'[i]
    BY <2>3, <2>5, <2>6, <2>8 DEF OnePlace
  <2>13. \A t \in Sources, e \in Runners : Offers(t)' /\ Runs(e)' => job'[e] # mine'[t]
    BY <2>2, <2>3 DEF OnePlace
  <2>14. Offers("camera")' /\ Offers("audio")' => mine'["camera"] # mine'["audio"]
    BY <2>2 DEF OnePlace, Sources
  <2>15. \A i \in DOMAIN queue' : queue'[i] # Stop => i \in DOMAIN queue
    BY <2>5
  <2>16. \A i \in DOMAIN queue' : queue'[i] # Stop => Fresh(queue[i])'
    BY <2>1, <2>5, <2>15 DEF OnePlace, Fresh, Done
  <2>17. \A i, k \in DOMAIN queue' : queue'[i] = queue'[k] /\ queue'[i] # Stop => i = k
    BY <2>5, <2>15 DEF OnePlace
  <2>18. \A j \in Jobs : j > jobs' => ~Done(j)'
    BY <2>1 DEF OnePlace, Done
  <2> QED BY <2>9, <2>10, <2>11, <2>12, <2>13, <2>14, <2>16, <2>17, <2>18 DEF OnePlace
<1>9. CASE Get
  <2>1. UNCHANGED <<pc, mine, state, jobs>> /\ queue # <<>> /\ queue' = Tail(queue)
        /\ job' = [job EXCEPT !["worker"] = Head(queue)] /\ at["worker"] = "get"
        /\ at' = [at EXCEPT !["worker"] = IF Head(queue) = Stop THEN "gone" ELSE "before"]
    BY <1>9 DEF Get, sources, records
  <2>2. Len(queue) \in Nat /\ DOMAIN queue = 1..Len(queue) /\ Len(queue) # 0
    BY <1>4, <2>1, EmptySeq
  <2>3. 1 \in DOMAIN queue /\ Head(queue) = queue[1]
    BY <1>4, <2>1, <2>2
  <2>4. \A i \in DOMAIN queue' : i + 1 \in DOMAIN queue /\ queue'[i] = queue[i + 1] /\ i + 1 # 1 /\ i \in Nat
    BY <1>4, <2>1, <2>2
  <2>5. job'["worker"] = queue[1] /\ job'["audio"] = job["audio"] /\ Runs("audio")' = Runs("audio")
        /\ (Runs("worker")' => queue[1] # Stop)
    BY <1>1, <2>1, <2>3 DEF JobTypes, Shapes, Runs, Runners
  <2>6. \A t \in Sources : Offers(t)' = Offers(t) /\ mine'[t] = mine[t]
    BY <2>1 DEF Offers
  <2>7. \A t \in Sources : Offers(t)' => Fresh(mine[t])'
    BY <2>1, <2>6 DEF OnePlace, Fresh, Done
  <2>8. \A t \in Sources, i \in DOMAIN queue' : Offers(t)' => queue'[i] # mine'[t]
    BY <2>4, <2>6 DEF OnePlace
  <2>9. \A t \in Sources, e \in Runners : Offers(t)' /\ Runs(e)' => job'[e] # mine'[t]
    BY <2>3, <2>5, <2>6 DEF OnePlace, Runners
  <2>10. Offers("camera")' /\ Offers("audio")' => mine'["camera"] # mine'["audio"]
    BY <2>6 DEF OnePlace, Sources
  <2>11. \A i \in DOMAIN queue' : queue'[i] # Stop => Fresh(queue[i])'
    BY <2>1, <2>4 DEF OnePlace, Fresh, Done
  <2>12. \A i, k \in DOMAIN queue' : queue'[i] = queue'[k] /\ queue'[i] # Stop => i = k
    <3>1. ASSUME NEW i \in DOMAIN queue', NEW k \in DOMAIN queue', queue'[i] = queue'[k], queue'[i] # Stop
          PROVE  i = k
      <4>1. i + 1 = k + 1
        BY <2>4, <3>1 DEF OnePlace
      <4> QED BY <2>4, <4>1
    <3> QED BY <3>1
  <2>13. \A i \in DOMAIN queue', e \in Runners : Runs(e)' => job'[e] # queue'[i]
    <3>1. ASSUME NEW i \in DOMAIN queue' PROVE Runs("worker")' => queue[1] # queue[i + 1]
      BY <2>3, <2>4, <2>5 DEF OnePlace
    <3>2. ASSUME NEW i \in DOMAIN queue' PROVE Runs("audio")' => job["audio"] # queue[i + 1]
      BY <2>4, <2>5 DEF OnePlace, Runners
    <3> QED BY <2>4, <2>5, <3>1, <3>2 DEF Runners
  <2>14. \A e \in Runners : Runs(e)' => Fresh(job[e])'
    <3>1. Runs("worker")' => Fresh(queue[1])
      BY <2>3, <2>5 DEF OnePlace
    <3>2. Runs("audio")' => Fresh(job["audio"])
      BY <2>5 DEF OnePlace, Runners
    <3> QED BY <2>1, <2>5, <3>1, <3>2 DEF Fresh, Done, Runners
  <2>15. \A j \in Jobs : j > jobs' => ~Done(j)'
    BY <2>1 DEF OnePlace, Done
  <2> QED BY <2>7, <2>8, <2>9, <2>10, <2>11, <2>12, <2>13, <2>14, <2>15 DEF OnePlace
<1>10. ASSUME NEW e \in Runners, Execute(e) PROVE OnePlace'
  <2>1. Inner(e) \/ Ends(e)
    BY <1>1, <1>10, ExecuteDoes
  <2>2. UNCHANGED <<mine, queue, job, jobs>> /\ (UNCHANGED pc \/ Goto("audio", "decide"))
    BY <2>1 DEF Inner, Ends, sources
  <2>3. \A t \in Sources : Offers(t)' => Offers(t) /\ mine'[t] = mine[t]
    BY <1>5, <2>2
  <2>4. Runs(e) /\ \A d \in Runners : Runs(d)' => Runs(d) /\ job'[d] = job[d]
    <3>1. CASE Inner(e)
      BY <3>1 DEF Inner, Runs
    <3>2. CASE Ends(e)
      BY <1>1, <3>2 DEF Ends, Runs, Shapes
    <3> QED BY <2>1, <3>1, <3>2
  <2>5. CASE Inner(e)
    <3>1. \A j \in Jobs : Done(j)' => Done(j)
      BY <1>2, <2>5 DEF Inner, Done
    <3> QED BY <1>3, <2>2, <2>3, <2>4, <3>1, PlacesShrink
  <2>6. CASE Ends(e)
    <3>1. ASSUME NEW j, j = job[e] PROVE j \in 1..jobs /\ Left(j)'
      <4>1. Fresh(j) /\ \A i \in DOMAIN queue : queue[i] # j
        BY <2>4, <3>1 DEF OnePlace
      <4>2. \A t \in Sources : Offers(t)' => mine'[t] # j
        BY <2>3, <2>4, <3>1 DEF OnePlace
      <4>3. \A d \in Runners : ~Runs(d)'
        <5>1. ~Runs(e)'
          BY <1>1, <2>6 DEF Ends, Runs, Shapes
        <5> QED BY <2>4, <5>1, OneRunner DEF Runners
      <4> QED BY <2>2, <4>1, <4>2, <4>3 DEF Fresh, Left
    <3>2. \A j \in Jobs \ {job[e]} : Done(j)' => Done(j)
      BY <1>2, <2>6 DEF Ends, Done
    <3>3. \A j \in Jobs : Done(j)' => Done(j) \/ (j \in 1..jobs /\ Left(j)')
      BY <3>1, <3>2
    <3> QED BY <1>3, <2>2, <2>3, <2>4, <3>3, PlacesShrink
  <2> QED BY <2>1, <2>5, <2>6
<1> QED BY <1>6, <1>7, <1>8, <1>9, <1>10 DEF Closes

(***************************************************************************)
(* What the queue holds, and what is written of the jobs.                  *)
(***************************************************************************)

\* Whatever the step, the queue holds jobs and sentinels.
LEMMA NextQueueTypes ==
  ASSUME Placed, Placed', Counting, Counting', OnePlace, QueueTypes, Next
  PROVE  QueueTypes'
<1>1. jobs' \in Nat /\ queue \in Seq({Stop} \cup Jobs) /\ Len(queue) \in Nat
  BY DEF QueueTypes, Counting, JobsCounted
<1>2. queue' \in Seq({Stop} \cup Jobs)
  <2>1. \/ queue' = queue \/ queue' = <<>> \/ queue' = Append(queue, Stop)
        \/ \E t \in Sources : Offers(t) /\ queue' = Append(queue, mine[t])
        \/ queue # <<>> /\ queue' = Tail(queue)
    <3>1. CASE Read \/ Chunk \/ Close \/ Closes \/ Get \/ Speech
      BY <3>1 DEF Read, Chunk, Close, Closes, JoinAudio, Cancel, Drain, Sentinel, JoinWorker, ShutExecutor,
                  CloseRobot, Get, Speech, Speak
    <3>2. CASE Update \/ Check \/ \E t \in Sources : NoMoreEvents(t) \/ Decide(t) \/ Accept(t)
      BY <3>2 DEF Update, Check, NoMoreEvents, Decide, Accept
    <3>3. ASSUME NEW t \in Sources, Enqueue(t) PROVE <2>1
      BY <3>3 DEF Enqueue, Offers
    <3>4. CASE \E e \in Runners : Execute(e)
      BY <3>4, ExecuteDoes DEF Placed, Inner, Ends
    <3> QED BY <3>1, <3>2, <3>3, <3>4 DEF Next, Camera, Music, Worker, Sources, Runners
  <2>2. \A t \in Sources : Offers(t) => mine[t] \in Jobs
    BY DEF OnePlace, Fresh
  <2>3. ASSUME NEW x \in {Stop} \cup Jobs PROVE Append(queue, x) \in Seq({Stop} \cup Jobs)
    BY <1>1, AppendProperties
  <2>4. queue # <<>> => Tail(queue) \in Seq({Stop} \cup Jobs)
    BY <1>1, HeadTailProperties
  <2>5. <<>> \in Seq({Stop} \cup Jobs)
    BY EmptySeq
  <2> QED BY <1>1, <2>1, <2>2, <2>3, <2>4, <2>5
<1>3. Len(queue') <= jobs' + 1
  <2>1. NaturalCounts'
    BY Counts, PTL
  <2>2. Sentinels' <= 1
    BY DEF Sentinels
  <2>3. Len(queue') \in Nat
    BY <1>2
  <2> QED BY <1>1, <2>1, <2>2, <2>3 DEF NaturalCounts, Counting, QueueCounted
<1> QED BY <1>2, <1>3 DEF QueueTypes

\* What may become of the job of a reaction.
LEMMA NextJobTypes ==
  ASSUME Placed, Counting, Closing, DecisionTypes, QueueTypes, OnePlace, JobTypes, Next
  PROVE  JobTypes'
<1>1. Shapes
  BY DEF Placed
<1>2. jobs \in Nat
  BY DEF Counting, JobsCounted
<1> USE DEF JobTypes
<1>3. \A t \in Sources : Offers(t) => mine[t] \in 0..jobs
  BY <1>2 DEF OnePlace, Fresh
<1>4. CASE Read \/ Chunk \/ Update \/ Check \/ Close \/ JoinAudio \/ Drain \/ Sentinel \/ JoinWorker
           \/ ShutExecutor \/ CloseRobot \/ \E t \in Sources : NoMoreEvents(t)
  <2>1. UNCHANGED <<execution, records>>
    BY <1>4 DEF Read, Chunk, Update, Check, Close, JoinAudio, Drain, Sentinel, JoinWorker,
                ShutExecutor, CloseRobot, NoMoreEvents, Still
  <2> QED BY <2>1 DEF execution, records
<1>5. CASE Cancel
  <2>1. UNCHANGED <<execution, told, jobs>>
        /\ state' = [j \in Jobs |-> IF \E i \in DOMAIN queue : queue[i] = j THEN "FAILED" ELSE state[j]]
    BY <1>5 DEF Cancel, Still
  <2>2. state' \in [Jobs -> {"none", "ACCEPTED", "STARTED", "COMPLETED", "FAILED"}]
    BY <2>1
  <2> QED BY <2>1, <2>2 DEF execution
<1>6. ASSUME NEW t \in Sources, Decide(t) PROVE JobTypes'
  <2>1. UNCHANGED <<execution, told>> /\ (jobs' = jobs \/ jobs' = jobs + 1)
        /\ (state' = state \/ \E j : state' = [state EXCEPT ![j] = "ACCEPTED"])
    BY <1>6 DEF Decide, records
  <2>2. job' \in [Runners -> 0..jobs']
    <3>1. \A n \in 0..jobs : n \in 0..jobs'
      BY <1>2, <2>1
    <3> QED BY <2>1, <3>1 DEF execution
  <2> QED BY <2>1, <2>2 DEF execution
<1>7. ASSUME NEW t \in Sources, Accept(t) PROVE JobTypes'
  <2>1. UNCHANGED <<execution, jobs>>
        /\ (state' = state \/ \E j : state' = [state EXCEPT ![j] = "FAILED"])
        /\ \E c \in {"accepted", "refused"} : \E j : told' = [told EXCEPT ![j] = c]
    BY <1>7 DEF Accept
  <2> QED BY <2>1 DEF execution
<1>8. ASSUME NEW t \in Sources, Enqueue(t) PROVE JobTypes'
  <2>1. UNCHANGED <<motionFailed, speech, told, jobs>>
        /\ (state' = state \/ \E j : state' = [state EXCEPT ![j] = "FAILED"])
        /\ (job' = job \/ job' = [job EXCEPT ![t] = mine[t]]) /\ Offers(t)
    BY <1>8 DEF Enqueue, Offers
  <2> QED BY <1>3, <2>1
<1>9. CASE Get
  <2>1. Head(queue) \in {Stop} \cup Jobs /\ UNCHANGED <<motionFailed, speech, records>>
        /\ job' = [job EXCEPT !["worker"] = Head(queue)]
    BY <1>9, HeadTailProperties DEF Get, QueueTypes
  <2>2. Head(queue) \in 0..jobs
    <3>1. CASE Head(queue) = Stop
      BY <1>2, <3>1 DEF Stop
    <3>2. CASE Head(queue) # Stop
      <4>1. 1 \in DOMAIN queue /\ Head(queue) = queue[1]
        <5>1. queue # <<>> /\ queue \in Seq({Stop} \cup Jobs)
          BY <1>9 DEF Get, QueueTypes
        <5>2. Len(queue) # 0 /\ Len(queue) \in Nat
          BY <5>1, EmptySeq
        <5> QED BY <5>1, <5>2
      <4>2. Fresh(queue[1])
        BY <3>2, <4>1 DEF OnePlace
      <4> QED BY <1>2, <4>1, <4>2 DEF Fresh
    <3> QED BY <3>1, <3>2
  <2> QED BY <2>1, <2>2 DEF records
<1>10. CASE Speech
  <2>1. PICK j \in Jobs : Speak(j)
    BY <1>10 DEF Speech
  <2>2. UNCHANGED <<job, motionFailed, records>>
        /\ \E r \in {"error", "speaking", "done"} : speech' = [speech EXCEPT ![j] = r]
    BY <2>1 DEF Speak
  <2> QED BY <2>2 DEF records
<1>11. ASSUME NEW e \in Runners, Execute(e) PROVE JobTypes'
  <2>1. UNCHANGED <<job, jobs>>
    BY <1>1, <1>11, ExecuteDoes DEF Inner, Ends
  <2>2. motionFailed' \in [Runners -> BOOLEAN]
    BY <1>11 DEF Execute, Start, Outputs, Motion, MotionEnds, JoinSpeech, Custom, CustomSpeech, Confirm,
                 Completes, Fails, Told, Mark, Leaves, execution
  <2>3. speech' \in [Jobs -> {"none", "delay", "speaking", "done", "error"}]
    <3>1. CASE Outputs(e) \/ Custom(e)
      BY <3>1 DEF Outputs, Custom
    <3>2. CASE ~(Outputs(e) \/ Custom(e))
      <4>1. speech' = speech
        BY <1>11, <3>2 DEF Execute, Start, Motion, MotionEnds, JoinSpeech, CustomSpeech, Confirm,
                           Completes, Fails, Told, Mark, Leaves, execution
      <4> QED BY <4>1
    <3> QED BY <3>1, <3>2
  <2>4. told' \in [Jobs -> {"none", "accepted", "refused", "started", "completing", "failed"}]
    <3>1. CASE Start(e)
      BY <3>1 DEF Start
    <3>2. CASE Completes(e) \/ Fails(e)
      BY <3>2 DEF Completes, Fails, Told, Mark
    <3>3. CASE ~(Start(e) \/ Completes(e) \/ Fails(e))
      <4>1. told' = told
        BY <1>11, <3>3 DEF Execute, Outputs, Motion, MotionEnds, JoinSpeech, Custom, CustomSpeech, Confirm, records
      <4> QED BY <4>1
    <3> QED BY <3>1, <3>2, <3>3
  <2>5. state' \in [Jobs -> {"none", "ACCEPTED", "STARTED", "COMPLETED", "FAILED"}]
    <3>1. CASE Inner(e)
      BY <3>1 DEF Inner
    <3>2. CASE Ends(e)
      BY <3>2 DEF Ends
    <3> QED BY <1>1, <1>11, <3>1, <3>2, ExecuteDoes
  <2> QED BY <2>1, <2>2, <2>3, <2>4, <2>5
<1> QED BY <1>4, <1>5, <1>6, <1>7, <1>8, <1>9, <1>10, <1>11
        DEF Next, Camera, Music, Closes, Worker, Sources, Runners

\* The speech under way is that of a reaction whose thread waits for it.
LEMMA NextSpoken ==
  ASSUME Placed, Closing, JobTypes, OnePlace, Spoken, Next
  PROVE  Spoken'
<1>1. Shapes
  BY DEF Placed
<1>2. /\ speech \in [Jobs -> {"none", "delay", "speaking", "done", "error"}]
      /\ job \in [Runners -> 0..jobs]
  BY DEF JobTypes
<1>3. ASSUME \A j \in Jobs : speech'[j] \in {"delay", "speaking"} => speech[j] \in {"delay", "speaking"},
             \A e \in Runners : Waits(e) => Waits(e)' /\ job'[e] = job[e]
      PROVE  Spoken'
  BY <1>3 DEF Spoken, Waits
<1>4. CASE Read \/ Chunk \/ Update \/ Check \/ Close \/ Closes
           \/ \E t \in Sources : NoMoreEvents(t) \/ Decide(t) \/ Accept(t)
  <2>1. UNCHANGED execution
    BY <1>4 DEF Read, Chunk, Update, Check, Close, Closes, JoinAudio, Cancel, Drain, Sentinel, JoinWorker,
                ShutExecutor, CloseRobot, NoMoreEvents, Decide, Accept, Still
  <2> QED BY <1>3, <2>1 DEF execution, Waits
<1>5. ASSUME NEW t \in Sources, Enqueue(t) PROVE Spoken'
  <2>1. speech' = speech /\ (t = "camera" => worker)
    BY <1>5 DEF Enqueue, Closing
  <2>2. \A e \in Runners : Waits(e) => Waits(e)' /\ job'[e] = job[e]
    <3>1. CASE worker
      BY <1>5, <3>1 DEF Enqueue, Waits
    <3>2. CASE ~worker
      <4>1. t = "audio" /\ pc["audio"] = "enqueue"
        BY <1>5, <2>1, <3>2 DEF Enqueue, Sources
      <4>2. ~Waits("audio")
        BY <4>1 DEF Closing, Waits
      <4>3. at'["worker"] = at["worker"] /\ job'["worker"] = job["worker"]
        BY <1>1, <1>2, <1>5, <3>2, <4>1 DEF Enqueue, Shapes, Runners
      <4> QED BY <4>2, <4>3 DEF Waits, Runners
    <3> QED BY <3>1, <3>2
  <2> QED BY <1>3, <2>1, <2>2
<1>6. CASE Get
  <2>1. speech' = speech /\ \A e \in Runners : Waits(e) => Waits(e)' /\ job'[e] = job[e]
    BY <1>1, <1>2, <1>6 DEF Get, Waits, Shapes, Runners
  <2> QED BY <1>3, <2>1
<1>7. CASE Speech
  <2>1. PICK j \in Jobs : Speak(j)
    BY <1>7 DEF Speech
  <2>2. UNCHANGED <<at, job>> /\ speech[j] \in {"delay", "speaking"}
        /\ \E r \in {"error", "speaking", "done"} : speech' = [speech EXCEPT ![j] = r]
    BY <2>1 DEF Speak
  <2>3. \A k \in Jobs : speech'[k] \in {"delay", "speaking"} => speech[k] \in {"delay", "speaking"}
    BY <1>2, <2>2
  <2> QED BY <1>3, <2>2, <2>3 DEF Waits
<1>8. ASSUME NEW e \in Runners, Execute(e) PROVE Spoken'
  <2>1. job' = job /\ Runs(e) /\ \A d \in Runners \ {e} : at'[d] = at[d]
    <3>1. CASE Inner(e)
      BY <3>1 DEF Inner
    <3>2. CASE Ends(e)
      <4>1. Runs(e)
        BY <3>2 DEF Ends, Runs
      <4> QED BY <1>1, <3>2, <4>1 DEF Ends, Shapes
    <3> QED BY <1>1, <1>8, <3>1, <3>2, ExecuteDoes
  <2>2. job[e] \in Jobs
    BY <2>1 DEF OnePlace, Fresh
  <2>3. CASE Outputs(e) \/ Custom(e)
    <3>1. \A j \in Jobs \ {job[e]} : speech'[j] = speech[j]
      BY <1>2, <2>3 DEF Outputs, Custom
    <3>2. ~Waits(e)
      BY <2>3 DEF Outputs, Custom, Step, Waits
    <3>3. speech' = speech \/ Waits(e)'
      BY <1>1, <2>3 DEF Outputs, Custom, Step, Waits, Shapes
    <3>4. ASSUME NEW j \in Jobs, speech'[j] \in {"delay", "speaking"}
          PROVE  \E d \in Runners : Waits(d)' /\ job'[d] = j
      <4>1. CASE speech'[j] # speech[j]
        BY <2>1, <3>1, <3>3, <4>1
      <4>2. CASE speech'[j] = speech[j]
        <5>1. PICK d \in Runners : Waits(d) /\ job[d] = j
          BY <3>4, <4>2 DEF Spoken, Waits
        <5>2. Waits(d)'
          BY <2>1, <3>2, <5>1 DEF Waits
        <5> QED BY <2>1, <5>1, <5>2
      <4> QED BY <4>1, <4>2
    <3> QED BY <3>4 DEF Spoken, Waits
  <2>4. CASE ~(Outputs(e) \/ Custom(e))
    <3>1. speech' = speech
      BY <1>8, <2>4 DEF Execute, Start, Motion, MotionEnds, JoinSpeech, CustomSpeech, Confirm,
                        Completes, Fails, Told, Mark, Leaves, execution
    <3>2. Waits(e) => Waits(e)' \/ speech[job[e]] \in {"done", "error"}
      <4>1. CASE JoinSpeech(e) \/ CustomSpeech(e)
        BY <4>1 DEF JoinSpeech, CustomSpeech
      <4>2. CASE Motion(e) \/ MotionEnds(e)
        BY <1>1, <4>2 DEF Motion, MotionEnds, Step, Waits, Shapes
      <4>3. CASE Start(e) \/ Confirm(e) \/ Completes(e) \/ Fails(e)
        BY <4>3 DEF Start, Confirm, Completes, Fails, Told, Mark, Step, Waits
      <4> QED BY <1>8, <2>4, <4>1, <4>2, <4>3 DEF Execute
    <3>3. ASSUME NEW j \in Jobs, speech'[j] \in {"delay", "speaking"}
          PROVE  \E d \in Runners : Waits(d)' /\ job'[d] = j
      <4>1. PICK d \in Runners : Waits(d) /\ job[d] = j
        BY <3>1, <3>3 DEF Spoken, Waits
      <4>2. Waits(d)'
        BY <2>1, <3>1, <3>2, <3>3, <4>1 DEF Waits
      <4> QED BY <2>1, <4>1, <4>2
    <3> QED BY <3>3 DEF Spoken, Waits
  <2> QED BY <2>3, <2>4
<1> QED BY <1>4, <1>5, <1>6, <1>7, <1>8 DEF Next, Camera, Music, Worker, Sources, Runners

\* The observer hears of the end of a job before its waiters.
LEMMA NextToldFirst ==
  ASSUME Placed, Counting, Closing, Drained, JobTypes, DecisionTypes, OnePlace, ToldFirst, Next
  PROVE  ToldFirst'
<1>1. Shapes
  BY DEF Placed
<1>2. /\ state \in [Jobs -> {"none", "ACCEPTED", "STARTED", "COMPLETED", "FAILED"}]
      /\ told \in [Jobs -> {"none", "accepted", "refused", "started", "completing", "failed"}]
  BY DEF JobTypes
<1>3. viewer' = viewer
  <2>1. CASE \E e \in Runners : Execute(e)
    BY <1>1, <2>1, ExecuteDoes DEF Inner, Ends, closing
  <2>2. CASE ~\E e \in Runners : Execute(e)
    BY <2>2 DEF Next, Camera, Music, Closes, Worker, Speech, Speak, Read, Chunk, Update, Check, Close, JoinAudio,
                Cancel, Drain, Sentinel, JoinWorker, ShutExecutor, CloseRobot, NoMoreEvents, Decide, Accept,
                Enqueue, Get, closing, Runners
  <2> QED BY <2>1, <2>2
<1>4. CASE UNCHANGED <<told, state>> \/ viewer
  BY <1>3, <1>4 DEF ToldFirst, Observed, Done, Ending
<1>5. ASSUME NEW k \in Jobs,
             \A j \in Jobs \ {k} : state'[j] = state[j] /\ told'[j] = told[j],
             Done(k)' => Ending(k)'
      PROVE  ToldFirst'
  BY <1>3, <1>5 DEF ToldFirst, Observed, Done, Ending
<1>6. CASE Read \/ Chunk \/ Update \/ Check \/ Close \/ Get \/ Speech
           \/ JoinAudio \/ Drain \/ Sentinel \/ JoinWorker \/ ShutExecutor \/ CloseRobot
           \/ \E t \in Sources : NoMoreEvents(t)
  <2>1. UNCHANGED <<told, state>>
    BY <1>6 DEF Read, Chunk, Update, Check, Close, Get, Speech, Speak, JoinAudio, Drain, Sentinel, JoinWorker,
                ShutExecutor, CloseRobot, NoMoreEvents, records
  <2> QED BY <1>4, <2>1
<1>7. CASE Cancel
  <2>1. viewer
    BY <1>7 DEF Cancel, Closing
  <2> QED BY <1>4, <2>1
<1>8. ASSUME NEW t \in Sources, Decide(t) PROVE ToldFirst'
  <2>1. CASE Rejects(t)
    BY <1>4, <1>8, <2>1 DEF Decide, records
  <2>2. CASE ~Rejects(t)
    <3>1. PICK n \in Jobs : n = jobs + 1
      BY <1>1, <1>8, NextJob DEF Decide, Placed
    <3>2. state' = [state EXCEPT ![n] = "ACCEPTED"] /\ told' = told
      BY <1>8, <2>2, <3>1 DEF Decide
    <3>3. ~Done(n)'
      BY <1>2, <3>2 DEF Done
    <3> QED BY <1>2, <1>5, <3>2, <3>3
  <2> QED BY <2>1, <2>2
<1>9. ASSUME NEW t \in Sources, Accept(t) PROVE ToldFirst'
  <2>1. PICK n \in Jobs : n = mine[t] /\ ~Done(n)
    BY <1>9 DEF Accept, OnePlace, Fresh, Offers
  <2>2. \/ told' = [told EXCEPT ![n] = "accepted"] /\ state' = state
        \/ told' = [told EXCEPT ![n] = "refused"] /\ state' = [state EXCEPT ![n] = "FAILED"]
    BY <1>9, <2>1 DEF Accept
  <2>3. Done(n)' => Ending(n)'
    BY <1>2, <2>1, <2>2 DEF Done, Ending
  <2> QED BY <1>2, <1>5, <2>2, <2>3
<1>10. ASSUME NEW t \in Sources, Enqueue(t) PROVE ToldFirst'
  <2>1. UNCHANGED <<told, state>> \/ shutdown
    BY <1>10 DEF Enqueue
  <2>2. shutdown => viewer
    BY DEF Closing
  <2> QED BY <1>4, <2>1, <2>2
<1>11. ASSUME NEW e \in Runners, Execute(e) PROVE ToldFirst'
  <2>1. CASE Inner(e)
    <3>1. PICK n \in Jobs : n = job[e] /\ ~Done(n)
      BY <2>1 DEF Inner, OnePlace, Fresh
    <3>2. /\ told' = told \/ \E call : told' = [told EXCEPT ![n] = call]
          /\ state' = state \/ state' = [state EXCEPT ![n] = "STARTED"]
      BY <2>1, <3>1 DEF Inner
    <3>3. ~Done(n)' /\ \A j \in Jobs \ {n} : state'[j] = state[j] /\ told'[j] = told[j]
      BY <1>2, <3>1, <3>2 DEF Done
    <3> QED BY <1>5, <3>3
  <2>2. CASE Ends(e)
    <3>1. PICK n \in Jobs : n = job[e]
      BY <2>2 DEF Ends, OnePlace, Fresh, Runs
    <3>2. CASE viewer
      BY <1>4, <3>2
    <3>3. CASE ~viewer
      <4>1. told' = told /\ told[n] = at[e]
            /\ \/ at[e] = "completing" /\ state' = [state EXCEPT ![n] = "COMPLETED"]
               \/ at[e] = "failed" /\ state' = [state EXCEPT ![n] = "FAILED"]
        BY <2>2, <3>1, <3>3 DEF Ends, Observed
      <4>2. Ending(n)'
        BY <1>2, <4>1 DEF Ending
      <4> QED BY <1>2, <1>5, <4>1, <4>2
    <3> QED BY <3>2, <3>3
  <2> QED BY <1>1, <1>11, <2>1, <2>2, ExecuteDoes
<1> QED BY <1>6, <1>7, <1>8, <1>9, <1>10, <1>11 DEF Next, Camera, Music, Closes, Worker, Sources, Runners

(***************************************************************************)
(* The invariant is inductive.                                             *)
(***************************************************************************)

\* The engine starts in the invariant.
LEMMA InitInv == Init => IInv
<1> SUFFICES ASSUME Init PROVE IInv
  OBVIOUS
<1> USE DEF Init
<1>1. MaxClock \in Nat /\ MaxInputs \in Nat
  BY EngineAssumption DEF EngineAssumption
<1>2. LabelTypes
  BY <1>1 DEF LabelTypes, Sources
<1>3. DecisionTypes
  BY <1>1 DEF DecisionTypes, Stop
<1>4. QueueTypes
  BY DEF QueueTypes
<1>5. JobTypes
  BY DEF JobTypes, Stop
<1>6. Shapes
  <2>1. <<>> \in Todos /\ Len(<<>>) = 0
    BY DEF Todos
  <2> QED BY <2>1 DEF Shapes, Labels, Steps, Sources
<1>7. FlagTypes
  BY DEF FlagTypes
<1>8. Counting
  <2>1. Owed = 0 /\ Sentinels = 0 /\ \A t \in Sources : Offered(t) = 0 /\ Pending(t) = 0
    BY DEF Owed, Sentinels, Offered, Pending, Sources
  <2>2. Len(queue) = 0
    OBVIOUS
  <2> QED BY <1>1, <2>1, <2>2 DEF Counting, JobsCounted, QueueCounted, Sources
<1>9. Closing
  BY DEF Closing, Sources, Runners, PastDrain
<1>10. Drained
  BY DEF Drained, PastDrain, Sources
<1>11. OnePlace
  BY DEF OnePlace, Offers, Runs, Sources, Runners, Done
<1>12. Spoken /\ ToldFirst
  BY DEF Spoken, ToldFirst, Done
<1> QED BY <1>2, <1>3, <1>4, <1>5, <1>6, <1>7, <1>8, <1>9, <1>10, <1>11, <1>12 DEF IInv, TypeOK

\* Every step keeps the invariant.
LEMMA NextInv == IInv /\ [Next]_vars => IInv'
<1>1. ASSUME IInv, Next PROVE IInv'
  <2>1. TypeOK /\ Placed /\ Counting /\ Closing /\ Drained /\ OnePlace /\ Spoken /\ ToldFirst
        /\ DecisionTypes /\ QueueTypes /\ JobTypes
    BY <1>1 DEF IInv, TypeOK, Placed
  <2>2. Handles \/ Close \/ Closes \/ Get \/ Speech \/ \E e \in Runners : Execute(e)
    BY <1>1 DEF Next, Handles, Camera, Music, Worker, Sources, Runners
  <2>3. Placed'
    BY <2>1, <2>2, HandlesPlaced, OtherPlaced
  <2>4. DecisionTypes'
    BY <2>1, <2>2, HandlesDecision, OtherDecision
  <2>5. Counting'
    BY <2>1, <2>2, <2>3, HandlesCounting, OtherCounting
  <2>6. Closing' /\ Drained'
    BY <2>1, <2>2, HandlesClosing, OtherClosing
  <2>7. OnePlace'
    BY <2>1, <2>2, HandlesOnePlace, OtherOnePlace
  <2>8. QueueTypes'
    BY <1>1, <2>1, <2>3, <2>5, NextQueueTypes
  <2>9. JobTypes'
    BY <1>1, <2>1, NextJobTypes
  <2>10. Spoken' /\ ToldFirst'
    BY <1>1, <2>1, NextSpoken, NextToldFirst
  <2> QED BY <2>3, <2>4, <2>5, <2>6, <2>7, <2>8, <2>9, <2>10 DEF IInv, TypeOK, Placed
<1>2. ASSUME IInv, UNCHANGED vars PROVE IInv'
  <2> USE <1>2 DEF IInv, vars, sources, decision, execution, records, closing
  <2>1. TypeOK'
    BY DEF TypeOK, LabelTypes, DecisionTypes, QueueTypes, JobTypes
  <2>2. Shapes' /\ FlagTypes'
    BY DEF Shapes, FlagTypes
  <2>3. Counting'
    BY DEF Counting, JobsCounted, QueueCounted, Owed, Pending, Offered, Sentinels
  <2>4. Closing' /\ Drained'
    BY DEF Closing, Drained, AudioGoesOn, Runs, OnlySentinels
  <2>5. OnePlace'
    BY DEF OnePlace, Offers, Fresh, Runs, Done
  <2>6. Spoken' /\ ToldFirst'
    BY DEF Spoken, ToldFirst, Ending, Done, Observed, Waits
  <2> QED BY <2>1, <2>2, <2>3, <2>4, <2>5, <2>6
<1> QED BY <1>1, <1>2

\* In every state the engine reaches.
LEMMA AlwaysInv == Spec => []IInv
<1> QED BY InitInv, NextInv, PTL DEF Spec

(***************************************************************************)
(* What the engine promises.                                               *)
(***************************************************************************)

\* The invariant says of every state what the run checks.
LEMMA InvImplies == IInv => EngineInv
<1> SUFFICES ASSUME IInv PROVE EngineInv
  OBVIOUS
<1>1. TypeOK /\ Closing /\ Drained /\ OnePlace /\ Spoken /\ ToldFirst /\ Shapes
  BY DEF IInv
<1>2. \A e \in Runners : e \in Executing <=> Runs(e)
  BY DEF Executing, Runs
<1>3. OneReactionAtATime
  <2>1. \E e \in Runners : Executing \subseteq {e}
    BY <1>1, <1>2, OneRunner DEF Runners, Executing
  <2>2. Cardinality(Executing) <= 1
    <3>1. PICK e \in Runners : Executing \subseteq {e}
      BY <2>1
    <3>2. IsFiniteSet({e}) /\ Cardinality({e}) = 1
      BY FS_Singleton
    <3>3. IsFiniteSet(Executing) /\ Cardinality(Executing) <= Cardinality({e})
      BY <3>1, <3>2, FS_Subset
    <3> QED BY <3>2, <3>3
  <2>3. \A j \in Jobs : speech[j] \in {"delay", "speaking"} => \E e \in Executing : job[e] = j
    <3>1. \A e \in Runners : Waits(e) => e \in Executing
      BY DEF Waits, Executing
    <3> QED BY <1>1, <3>1 DEF Spoken
  <2> QED BY <2>2, <2>3 DEF OneReactionAtATime
<1>4. EndedJobsAreOver
  <2>1. ASSUME NEW j \in Jobs, Done(j)
        PROVE  /\ \A i \in DOMAIN queue : queue[i] # j
               /\ \A e \in Executing : job[e] # j
               /\ Observed => Ending(j)
    <3>1. j # Stop
      BY EngineAssumption DEF Jobs, Stop, EngineAssumption
    <3>2. \A i \in DOMAIN queue : queue[i] # j
      BY <1>1, <2>1, <3>1 DEF OnePlace, Fresh
    <3>3. \A e \in Executing : job[e] # j
      BY <1>1, <1>2, <2>1 DEF OnePlace, Fresh, Executing
    <3>4. Observed => Ending(j)
      BY <1>1, <2>1 DEF ToldFirst
    <3> QED BY <3>2, <3>3, <3>4
  <2> QED BY <2>1 DEF EndedJobsAreOver, Ending
<1>5. QuietAfterClose
  <2>1. SUFFICES ASSUME robotClosed, ~gaveUp PROVE Executing = {} /\ OnlySentinels
    BY DEF QuietAfterClose, OnlySentinels
  <2>2. pc["camera"] = "closed" /\ pc["camera"] \in PastDrain
    BY <1>1, <2>1 DEF Closing, PastDrain
  <2>3. ~Runs("worker") /\ OnlySentinels
    BY <1>1, <2>1, <2>2 DEF Drained
  <2>4. ~Runs("audio")
    BY <1>1, <2>1, <2>2 DEF Closing, Runs
  <2>5. Executing = {}
    BY <1>2, <2>3, <2>4 DEF Executing, Runners
  <2> QED BY <2>3, <2>5
<1> QED BY <1>1, <1>3, <1>4, <1>5 DEF EngineInv

\* Whatever comes in, and however the engine is closed, one reaction runs at a time and
\* none without its thread waiting for its speech; a job that has ended is neither queued
\* nor run, and its observer has heard of it; nothing runs after the close unless a join
\* has given up on a thread.
THEOREM EngineSafety == Spec => []EngineInv
<1> QED BY AlwaysInv, InvImplies, PTL

\* A job ends once: what its waiters have read stays true.
THEOREM EndsOnce == Spec => [][\A j \in Jobs : Done(j) => state'[j] = state[j]]_vars
<1>1. IInv /\ [Next]_vars => [\A j \in Jobs : Done(j) => state'[j] = state[j]]_vars
  <2> SUFFICES ASSUME IInv, Next, NEW j \in Jobs, Done(j) PROVE state'[j] = state[j]
    OBVIOUS
  <2>1. Placed /\ Counting /\ OnePlace /\ JobTypes /\ LabelTypes /\ Shapes
    BY DEF IInv, TypeOK, Placed
  <2>2. state \in [Jobs -> {"none", "ACCEPTED", "STARTED", "COMPLETED", "FAILED"}] /\ j # Stop
    BY <2>1, EngineAssumption DEF JobTypes, Jobs, Stop, EngineAssumption
  <2>3. \A t \in Sources : Offers(t) => mine[t] # j
    BY <2>1 DEF OnePlace, Fresh
  <2>4. \A e \in Runners : Runs(e) => job[e] # j
    BY <2>1 DEF OnePlace, Fresh
  <2>5. ASSUME NEW t \in Sources, Decide(t) PROVE state'[j] = state[j]
    <3>1. CASE Rejects(t)
      BY <2>5, <3>1 DEF Decide, records
    <3>2. CASE ~Rejects(t)
      <4>1. state' = [state EXCEPT ![jobs + 1] = "ACCEPTED"] /\ jobs \in Nat
        BY <2>1, <2>5, <3>2 DEF Decide, Counting, JobsCounted
      <4>2. \A k \in Jobs : k > jobs => ~Done(k)
        BY <2>1 DEF OnePlace
      <4>3. j # jobs + 1
        BY <4>1, <4>2 DEF Jobs
      <4> QED BY <2>2, <4>1, <4>3
    <3> QED BY <3>1, <3>2
  <2>6. ASSUME NEW t \in Sources, Accept(t) \/ Enqueue(t) PROVE state'[j] = state[j]
    BY <2>2, <2>3, <2>6 DEF Accept, Enqueue, Offers
  <2>7. ASSUME NEW e \in Runners, Execute(e) PROVE state'[j] = state[j]
    <3>1. CASE Inner(e)
      BY <2>2, <2>4, <3>1 DEF Inner
    <3>2. CASE Ends(e)
      BY <2>2, <2>4, <3>2 DEF Ends, Runs
    <3> QED BY <2>1, <2>7, <3>1, <3>2, ExecuteDoes
  <2>8. CASE Cancel
    <3>1. \A i \in DOMAIN queue : queue[i] # j
      BY <2>1, <2>2 DEF OnePlace, Fresh
    <3> QED BY <2>8, <3>1 DEF Cancel
  <2>9. CASE Read \/ Chunk \/ Update \/ Check \/ Close \/ Get \/ Speech
             \/ JoinAudio \/ Drain \/ Sentinel \/ JoinWorker \/ ShutExecutor \/ CloseRobot
             \/ \E t \in Sources : NoMoreEvents(t)
    BY <2>9 DEF Read, Chunk, Update, Check, Close, Get, Speech, Speak, JoinAudio, Drain, Sentinel, JoinWorker,
                ShutExecutor, CloseRobot, NoMoreEvents, records
  <2> QED BY <2>5, <2>6, <2>7, <2>8, <2>9 DEF Next, Camera, Music, Closes, Worker, Sources, Runners
<1> QED BY AlwaysInv, <1>1, PTL DEF Spec

================================================================================
