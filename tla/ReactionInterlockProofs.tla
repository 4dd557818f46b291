------------------------ MODULE ReactionInterlockProofs ------------------------
(***************************************************************************)
(* For either profile, any backlog and any number of reactions: the types  *)
(* and the ownership of the pause.  For the normal profile also that the   *)
(* arms move only beside a standing patrol, that no abort is lost, and     *)
(* that a resume is earned.                                                *)
(***************************************************************************)
EXTENDS MCReactionInterlock, SequenceTheorems, TLAPS

\* Where each client thread waits for an answer, and to what it has asked there.
Waits == [camera     |-> {"poll", "ask", "closeAbort"},
          worker     |-> {"pausing", "readying1", "readying2", "gateAbort"},
          completion |-> {"starting", "resuming", "aborting"}]
AskedAt(c, label) ==
    CASE label \in {"closeAbort", "gateAbort", "aborting"} -> "stop"
      [] label = "pausing" -> "pause"
      [] label \in {"readying1", "readying2"} -> "reaction_ready"
      [] label \in {"starting", "resuming"} -> "resume"
      [] OTHER -> "status"

\* A connection whose client still listens is that client's only one, and is what the
\* client waits for; only a running server has connections.
Connections ==
    /\ \A c \in Clients : answer[c] # "none" <=> pc[c] \in Waits[c]
    /\ \A i \in DOMAIN queue : queue[i].live =>
         /\ answer[queue[i].from] = "waiting"
         /\ queue[i].op = AskedAt(queue[i].from, pc[queue[i].from])
    /\ \A i, k \in DOMAIN queue :
         queue[i].live /\ queue[k].live /\ queue[i].from = queue[k].from => i = k
    /\ server # "up" => queue = <<>>

\* The threads of one reaction.
Closing == {"closeLock", "closeAbort", "closeEngine", "join", "done"}
Threads ==
    /\ pc.worker # "idle" <=> job = "running"
    /\ pc.voice # "idle" => pc.worker # "idle"
    /\ pc.camera = "ask" =>
         job \notin {"queued", "running"} /\ pc.completion = "none" /\ jobs < MaxJobs
    /\ closing <=> pc.camera \in Closing
    /\ pc.camera \in {"join", "done"} => job # "queued"
    /\ pc.camera = "done" => pc.worker = "idle" /\ pc.completion = "none"
    /\ pc.completion = "resuming" => pc.camera \in {"look", "poll", "ask", "closeLock"}
                                     /\ lock = "completion"

\* The pause is owned from its confirmation on, by a job that has been taken, ...
OwnedByJob ==
    /\ owned => job # "queued" /\ pc.worker \notin {"play", "pausing"}
    /\ owned /\ pc.completion = "none" /\ ~closing =>
         failed /\ pc.worker \in {"ready1", "gateFail", "gateAbort"}
    /\ pc.completion \in {"starting", "resuming"} =>
         job # "queued" /\ pc.worker \notin {"play", "pausing"}
    /\ pc.completion = "aborting" => failed
    /\ (job = "queued" \/ pc.worker \in {"play", "pausing"}) /\ pc.completion = "none" /\ ~closing
         => failed
    /\ pc.completion \in {"judge", "lock", "resuming"} => job \in {"ok", "failed"}

\* ... and nobody gives up on a pause or on a resume of it, but for a process that ends.
PauseIsAwaited ==
    /\ \A i \in DOMAIN queue :
         ~queue[i].live /\ pc.camera # "done" => queue[i].op \notin {"pause", "resume"}
    /\ pc.worker = "pausing" /\ answer["worker"] = "yes" => patrol # "going"
    /\ server = "gone" => patrol = "stopped"

\* The worker between the confirmation of the pause and the end of the motion.
Holding == {"ready1", "readying1", "preflight", "ready2", "readying2", "release", "awaitVoice",
            "act", "moving"}

\* The arms carry weight only between the start of a motion and its proof.
Arms ==
    /\ arms => motion = "failed"
    /\ pc.worker \in Holding \cup {"pausing", "gateFail", "gateAbort"} => motion = "failed"

\* Without the attended profile the patrol goes on only after an earned resume, ...
Confirmed == job = "ok" /\ spoke = "yes" /\ (motion = "good" \/ (motion = "miss" /\ AllowMiss))
NormalThreads ==
    /\ pc.completion \notin {"recover", "start", "starting"}
    /\ pc.camera # "poll" /\ motion # "recoverable"
    /\ pc.completion \in {"lock", "resuming"} => Confirmed

\* ... and a client gives up on nothing but a stop, so that only a stop kills the server.
NormalWire ==
    /\ \A i \in DOMAIN queue : ~queue[i].live => queue[i].op = "stop"
    /\ server # "up" => patrol = "stopped"
HoldsStill == pc.worker \in Holding => patrol # "going"
Normal ==
    /\ NormalThreads /\ NormalWire /\ HoldsStill /\ ArmsOnlyWhileHeld
    /\ Backlog >= 3 => AbortIsFinal

\* The inductive invariant.
IInv ==
    /\ TypeOK /\ Connections /\ Threads /\ OwnedByJob /\ PauseIsAwaited /\ OwnershipIsReal /\ Arms
    /\ ~Hackathon => Normal

(***************************************************************************)
(* The socket.  A step of a thread asks, reads its answer, or leaves the   *)
(* wire alone.                                                             *)
(***************************************************************************)

\* The invariant of the socket.
Wired == WireTypes /\ WaitingIsConnected /\ Connections

StaysOff(c) == pc'[c] = pc[c] \/ (pc[c] \notin Waits[c] /\ pc'[c] \notin Waits[c])
Asks(c) ==
    /\ answer[c] = "none" /\ \E op \in Ops : Request(c, op) /\ op = AskedAt(c, pc'[c])
    /\ pc'[c] \in Waits[c] /\ \A d \in Clients \ {c} : pc'[d] = pc[d]
Reads(c) ==
    /\ \E r \in {"yes", "no"} : Answered(c, r)
    /\ pc'[c] \notin Waits[c] /\ \A d \in Clients \ {c} : StaysOff(d)
KeepsOff == UNCHANGED wire /\ \A c \in Clients : StaysOff(c)

\* The sets of Waits, by client.
LEMMA WaitsAre ==
  /\ Waits["camera"] = {"poll", "ask", "closeAbort"}
  /\ Waits["worker"] = {"pausing", "readying1", "readying2", "gateAbort"}
  /\ Waits["completion"] = {"starting", "resuming", "aborting"}
  BY DEF Waits

\* What the queue is made of.
Connection == [from : Clients, op : Ops, live : BOOLEAN]

\* What waits in the server's backlog are connections.
LEMMA QueueIsOfConnections ==
  ASSUME WireTypes
  PROVE  /\ queue \in Seq(Connection) /\ Len(queue) \in Nat /\ DOMAIN queue = 1..Len(queue)
         /\ \A i \in DOMAIN queue : queue[i] \in Connection /\ queue[i].from \in Clients
<1>1. queue \in Seq(Connection) /\ Len(queue) \in Nat /\ DOMAIN queue = 1..Len(queue)
  BY DEF WireTypes, Connection
<1>2. \A i \in DOMAIN queue : queue[i] \in Connection
  BY <1>1, ElementOfSeq
<1>3. \A x \in Connection : x.from \in Clients
  BY DEF Connection
<1> QED BY <1>1, <1>2, <1>3

\* The connections a client has, of which none is open while it has nothing to wait for.
LEMMA AsksWired == ASSUME Wired, NEW c \in Clients, Asks(c) PROVE Wired'
<1> USE QueueIsOfConnections DEF Wired, WireTypes
<1>1. PICK op \in Ops : Request(c, op) /\ op = AskedAt(c, pc'[c])
  BY DEF Asks
<1>2. CASE server = "gone" \/ Len(queue) >= Backlog
  <2>1. answer' = [answer EXCEPT ![c] = "no"] /\ UNCHANGED <<queue, server, patrol>>
    BY <1>1, <1>2 DEF Request
  <2>2. WireTypes' /\ WaitingIsConnected'
    BY <2>1 DEF Asks, WaitingIsConnected
  <2>3. Connections'
    <3>1. \A i \in DOMAIN queue : queue[i].live => queue[i].from # c
      BY DEF Asks, Connections
    <3> QED BY <2>1, <3>1 DEF Asks, Connections
  <2> QED BY <2>2, <2>3
<1>3. CASE ~(server = "gone" \/ Len(queue) >= Backlog) /\ server = "dead"
  <2>1. answer' = [answer EXCEPT ![c] = "waiting"] /\ UNCHANGED <<queue, server, patrol>>
    BY <1>1, <1>3 DEF Request
  <2>2. WireTypes' /\ WaitingIsConnected'
    BY <1>3, <2>1 DEF Asks, WaitingIsConnected
  <2>3. Connections'
    BY <2>1, <1>3 DEF Asks, Connections
  <2> QED BY <2>2, <2>3
<1>4. CASE ~(server = "gone" \/ Len(queue) >= Backlog) /\ server = "up"
  <2> DEFINE new == [from |-> c, op |-> op, live |-> TRUE]
  <2>1. answer' = [answer EXCEPT ![c] = "waiting"] /\ queue' = Append(queue, new)
        /\ UNCHANGED <<server, patrol>>
    BY <1>1, <1>4 DEF Request
  <2>2. new \in Connection
    BY DEF Connection
  <2>3. queue' \in Seq(Connection) /\ DOMAIN queue' = DOMAIN queue \cup {Len(queue) + 1}
        /\ queue'[Len(queue) + 1] = new /\ Len(queue) + 1 \notin DOMAIN queue
        /\ \A i \in DOMAIN queue : queue'[i] = queue[i]
    BY <2>1, <2>2, AppendProperties
  <2>4. \A i \in DOMAIN queue : queue[i].live => queue[i].from # c
    BY DEF Connections, Asks
  <2>5. WireTypes'
    BY <2>1, <2>3 DEF Connection
  <2>6. WaitingIsConnected'
    BY <2>1, <2>3, <1>4 DEF WaitingIsConnected
  <2>7. Connections'
    <3>1. \A d \in Clients : answer'[d] # "none" <=> pc'[d] \in Waits[d]
      BY <2>1 DEF Asks, Connections
    <3>2. \A i \in DOMAIN queue' : queue'[i].live =>
            /\ answer'[queue'[i].from] = "waiting"
            /\ queue'[i].op = AskedAt(queue'[i].from, pc'[queue'[i].from])
      <4>1. ASSUME NEW i \in DOMAIN queue, queue[i].live
            PROVE  queue[i].from \in Clients \ {c}
        BY <2>4, <4>1
      <4>2. ASSUME NEW i \in DOMAIN queue, queue'[i].live
            PROVE  /\ answer'[queue'[i].from] = "waiting"
                   /\ queue'[i].op = AskedAt(queue'[i].from, pc'[queue'[i].from])
        <5>1. queue'[i] = queue[i] /\ queue[i].live /\ queue[i].from \in Clients \ {c}
          BY <2>3, <4>1, <4>2
        <5>2. answer[queue[i].from] = "waiting"
              /\ queue[i].op = AskedAt(queue[i].from, pc[queue[i].from])
          BY <5>1 DEF Connections
        <5> QED BY <2>1, <5>1, <5>2 DEF Asks
      <4>3. LET i == Len(queue) + 1
            IN  /\ answer'[queue'[i].from] = "waiting"
                /\ queue'[i].op = AskedAt(queue'[i].from, pc'[queue'[i].from])
        BY <1>1, <2>1, <2>3 DEF Asks
      <4> QED BY <2>3, <4>2, <4>3
    <3>3. \A i, k \in DOMAIN queue' :
            queue'[i].live /\ queue'[k].live /\ queue'[i].from = queue'[k].from => i = k
      BY <2>3, <2>4 DEF Connections
    <3> QED BY <2>1, <1>4, <3>1, <3>2, <3>3 DEF Connections
  <2> QED BY <2>5, <2>6, <2>7
<1> QED BY <1>2, <1>3, <1>4

\* An answer is read once, by the thread that waited.
LEMMA ReadsWired == ASSUME Wired, NEW c \in Clients, Reads(c) PROVE Wired'
<1> USE DEF Wired, WireTypes
<1>1. answer[c] \in {"yes", "no"} /\ answer' = [answer EXCEPT ![c] = "none"]
      /\ UNCHANGED <<queue, server, patrol>>
  BY DEF Reads, Answered
<1>2. WireTypes' /\ WaitingIsConnected'
  BY <1>1 DEF WaitingIsConnected
<1>3. Connections'
  <2>1. \A i \in DOMAIN queue : queue[i].live =>
          /\ queue[i].from \in Clients \ {c}
          /\ pc[queue[i].from] \in Waits[queue[i].from] /\ answer[queue[i].from] = "waiting"
    BY <1>1, QueueIsOfConnections DEF Connections
  <2>2. \A i \in DOMAIN queue : queue[i].live => pc'[queue[i].from] = pc[queue[i].from]
    BY <2>1 DEF Reads, StaysOff
  <2>3. \A d \in Clients : answer'[d] # "none" <=> pc'[d] \in Waits[d]
    BY <1>1 DEF Reads, StaysOff, Connections
  <2> QED BY <1>1, <2>1, <2>2, <2>3 DEF Connections
<1> QED BY <1>2, <1>3

\* Who neither asks nor reads changes nothing here.
LEMMA KeepsOffWired == ASSUME Wired, KeepsOff PROVE Wired'
<1> USE DEF Wired, WireTypes
<1>1. WireTypes' /\ WaitingIsConnected'
  BY DEF KeepsOff, wire, WaitingIsConnected
<1>2. \A i \in DOMAIN queue : queue[i].live => queue[i].from \in Clients
                                             /\ pc[queue[i].from] \in Waits[queue[i].from]
  BY QueueIsOfConnections DEF Connections
<1>3. Connections'
  BY <1>2 DEF KeepsOff, StaysOff, wire, Connections
<1> QED BY <1>1, <1>3

\* The oldest connection is served: its client, if it still listens, has its answer.
LEMMA ServeWired == ASSUME Wired, Serve PROVE Wired'
<1> USE QueueIsOfConnections DEF Wired
<1> DEFINE first == Head(queue)
<1>1. server = "up" /\ queue # <<>> /\ first = queue[1] /\ 1 \in DOMAIN queue
      /\ first \in Connection /\ first.from \in Clients /\ pc' = pc
  BY HeadTailProperties, EmptySeq DEF Serve
<1>2. PICK r \in Outcome(first.op) :
        /\ patrol' = r.patrol
        /\ IF first.live
           THEN /\ answer' = [answer EXCEPT ![first.from] = IF r.ok THEN "yes" ELSE "no"]
                /\ queue' = Tail(queue) /\ UNCHANGED server
           ELSE server' = "dead" /\ queue' = <<>> /\ UNCHANGED answer
  BY DEF Serve
<1>3. patrol' \in {"going", "paused", "stopped"}
  BY <1>2 DEF Outcome, WireTypes
<1>4. CASE first.live
  <2> DEFINE reply == IF r.ok THEN "yes" ELSE "no"
  <2>1. answer' = [answer EXCEPT ![first.from] = reply] /\ reply \in {"yes", "no"}
        /\ queue' = Tail(queue) /\ UNCHANGED server
    BY <1>2, <1>4
  <2> HIDE DEF reply
  <2>2. queue' \in Seq(Connection) /\ DOMAIN queue' = 1..(Len(queue) - 1)
        /\ \A i \in DOMAIN queue' : i + 1 \in DOMAIN queue /\ queue'[i] = queue[i + 1]
    BY <1>1, <2>1, HeadTailProperties
  <2>3. WireTypes'
    BY <1>1, <1>3, <2>1, <2>2 DEF WireTypes, Connection
  <2>4. \A i \in DOMAIN queue' : queue'[i].live => queue'[i].from # first.from
    BY <1>1, <1>4, <2>2 DEF Connections
  <2>5. WaitingIsConnected'
    <3> SUFFICES ASSUME NEW c \in Clients
                 PROVE  answer'[c] = "waiting"
                          <=> \E i \in DOMAIN queue' : queue'[i].from = c /\ queue'[i].live
      BY DEF WaitingIsConnected
    <3>1. CASE c = first.from
      BY <1>1, <2>1, <2>4, <3>1 DEF WireTypes
    <3>2. CASE c # first.from
      <4>1. answer'[c] = answer[c]
        BY <1>1, <2>1, <3>2 DEF WireTypes
      <4>2. ASSUME NEW i \in DOMAIN queue, queue[i].from = c
            PROVE  i - 1 \in DOMAIN queue' /\ queue'[i - 1] = queue[i]
        BY <1>1, <2>2, <3>2, <4>2
      <4> QED BY <1>1, <2>2, <4>1, <4>2 DEF WaitingIsConnected
    <3> QED BY <3>1, <3>2
  <2>6. Connections'
    <3>1. \A c \in Clients : answer'[c] # "none" <=> pc'[c] \in Waits[c]
      BY <1>1, <1>4, <2>1 DEF Connections, WireTypes
    <3>2. \A i \in DOMAIN queue' : queue'[i].live =>
            /\ answer'[queue'[i].from] = "waiting"
            /\ queue'[i].op = AskedAt(queue'[i].from, pc'[queue'[i].from])
      BY <1>1, <2>1, <2>2, <2>4 DEF Connections, WireTypes
    <3>3. \A i, k \in DOMAIN queue' :
            queue'[i].live /\ queue'[k].live /\ queue'[i].from = queue'[k].from => i = k
      <4> SUFFICES ASSUME NEW i \in DOMAIN queue', NEW k \in DOMAIN queue', queue'[i].live,
                          queue'[k].live, queue'[i].from = queue'[k].from
                   PROVE  i = k
        OBVIOUS
      <4>1. i + 1 = k + 1
        BY <2>2 DEF Connections
      <4> QED BY <2>2, <4>1
    <3> QED BY <1>1, <2>1, <3>1, <3>2, <3>3 DEF Connections
  <2> QED BY <2>3, <2>5, <2>6
<1>5. CASE ~first.live
  <2>1. server' = "dead" /\ queue' = <<>> /\ UNCHANGED answer
    BY <1>2, <1>5
  <2>2. WireTypes'
    BY <1>3, <2>1 DEF WireTypes
  <2>3. WaitingIsConnected' /\ Connections'
    BY <1>1, <2>1 DEF WaitingIsConnected, Connections
  <2> QED BY <2>2, <2>3
<1> QED BY <1>4, <1>5

\* Who gives up closes the only connection it has.
LEMMA GiveUpWired == ASSUME Wired, NEW c \in Clients, GiveUp(c) PROVE Wired'
<1> USE QueueIsOfConnections DEF Wired
<1>1. answer[c] = "waiting" /\ answer' = [answer EXCEPT ![c] = "no"]
      /\ UNCHANGED <<pc, server, patrol>>
  BY DEF GiveUp
<1>2. CASE server = "dead" /\ UNCHANGED queue
  BY <1>1, <1>2 DEF WireTypes, WaitingIsConnected, Connections
<1>3. ASSUME NEW n \in DOMAIN queue, queue[n].from = c, queue[n].live,
             queue' = [queue EXCEPT ![n].live = FALSE]
      PROVE  Wired'
  <2> DEFINE closed == [queue[n] EXCEPT !.live = FALSE]
  <2>1. closed \in Connection /\ closed.from = c /\ closed.op = queue[n].op /\ ~closed.live
    BY <1>3 DEF Connection
  <2>2. queue' = [queue EXCEPT ![n] = closed]
    BY <1>3
  <2> HIDE DEF closed
  <2>3. queue' \in Seq(Connection) /\ DOMAIN queue' = DOMAIN queue /\ queue'[n] = closed
        /\ \A i \in DOMAIN queue : i # n => queue'[i] = queue[i]
    BY <2>1, <2>2, ExceptSeq
  <2>4. WireTypes'
    BY <1>1, <2>3 DEF WireTypes, Connection
  <2>5. \A i \in DOMAIN queue : i # n /\ queue[i].live => queue[i].from # c
    BY <1>3 DEF Connections
  <2>6. WaitingIsConnected'
    BY <1>1, <1>3, <2>1, <2>3, <2>5 DEF WaitingIsConnected, WireTypes
  <2>7. Connections'
    BY <1>1, <1>3, <2>1, <2>3, <2>5 DEF Connections, WireTypes
  <2> QED BY <2>4, <2>6, <2>7
<1> QED BY <1>2, <1>3 DEF GiveUp

\* A server that closes ends every wait.
LEMMA ServerClosesWired == ASSUME Wired, ServerCloses PROVE Wired'
<1> USE DEF Wired, ServerCloses
<1>1. WireTypes'
  BY DEF WireTypes
<1>2. WaitingIsConnected' /\ Connections'
  BY DEF WireTypes, WaitingIsConnected, Connections
<1> QED BY <1>1, <1>2

\* A process that ends waits for nothing and leaves its connections behind, closed.
LEMMA JoinWired == ASSUME Wired, LabelTypes, Join PROVE Wired'
<1> USE QueueIsOfConnections DEF Wired, Join
<1>1. \A i \in DOMAIN queue : [queue[i] EXCEPT !.live = FALSE] \in Connection
  BY DEF Connection
<1>2. queue' \in Seq(Connection) /\ DOMAIN queue' = DOMAIN queue
      /\ \A i \in DOMAIN queue' : ~queue'[i].live
  <2>1. queue' = [i \in 1..Len(queue) |-> [queue[i] EXCEPT !.live = FALSE]]
    OBVIOUS
  <2>2. \A i \in DOMAIN queue : ~[queue[i] EXCEPT !.live = FALSE].live
    BY DEF Connection
  <2>3. queue' \in [1..Len(queue) -> Connection]
    BY <1>1, <2>1
  <2>4. queue' \in Seq(Connection)
    BY <2>3, SeqDef
  <2> QED BY <2>1, <2>2, <2>4
<1>3. WireTypes'
  BY <1>2 DEF WireTypes, Connection
<1>4. WaitingIsConnected'
  BY <1>2 DEF WaitingIsConnected
<1>5. \A c \in Clients : pc'[c] \notin Waits[c]
  <2>1. pc'["camera"] = "done" /\ pc'["worker"] = "idle" /\ pc'["completion"] = "none"
    BY DEF LabelTypes
  <2> QED BY <2>1, WaitsAre DEF Clients
<1>6. Connections'
  <2>1. server # "up" => queue' = <<>>
    BY <1>2 DEF Connections
  <2> QED BY <1>2, <1>5, <2>1 DEF Connections
<1> QED BY <1>3, <1>4, <1>6

\* Where the threads are after one of them has gone on.
LEMMA GotoOne ==
  ASSUME LabelTypes, NEW t \in {"camera", "worker", "voice", "completion"}, NEW label, Goto(t, label)
  PROVE  /\ pc'[t] = label
         /\ \A u \in {"camera", "worker", "voice", "completion"} \ {t} : pc'[u] = pc[u]
  BY DEF LabelTypes, Goto

\* A thread that is not waiting may ask, and one that reads is not waiting any more.
LEMMA GoesAndAsks ==
  ASSUME LabelTypes, Wired, NEW c \in Clients, NEW op \in Ops, NEW label \in Waits[c],
         pc[c] \notin Waits[c], op = AskedAt(c, label), Goto(c, label), Request(c, op)
  PROVE  Asks(c)
<1>1. pc'[c] = label /\ \A d \in Clients \ {c} : pc'[d] = pc[d]
  BY GotoOne DEF Clients
<1>2. answer[c] = "none"
  BY DEF Wired, Connections
<1> QED BY <1>1, <1>2 DEF Asks

\* A thread that goes on with its answer has read it.
LEMMA GoesAndReads ==
  ASSUME LabelTypes, NEW c \in Clients, NEW r \in {"yes", "no"}, NEW label,
         label \notin Waits[c], Goto(c, label), Answered(c, r)
  PROVE  Reads(c)
<1>1. pc'[c] = label /\ \A d \in Clients \ {c} : pc'[d] = pc[d]
  BY GotoOne DEF Clients
<1> QED BY <1>1 DEF Reads, StaysOff

\* A thread that goes on without a request keeps off the wire.
LEMMA GoesOn ==
  ASSUME LabelTypes, NEW c \in Clients, NEW label, label \notin Waits[c], pc[c] \notin Waits[c],
         Goto(c, label), UNCHANGED wire
  PROVE  KeepsOff
<1>1. pc'[c] = label /\ \A d \in Clients \ {c} : pc'[d] = pc[d]
  BY GotoOne DEF Clients
<1> QED BY <1>1 DEF KeepsOff, StaysOff

\* What a thread does to the socket.
WireStep == KeepsOff \/ \E c \in Clients : Asks(c) \/ Reads(c)

\* The camera loop's steps on the socket, but for its last one.
LEMMA CameraWire == ASSUME LabelTypes, Wired, Threads, Camera, ~Join PROVE WireStep
<1> USE WaitsAre DEF Clients, Ops, AskedAt, WireStep
<1>1. CASE Poll \/ Trigger
  BY <1>1, GoesAndAsks DEF Poll, Trigger
<1>2. CASE Polled \/ NotEligible
  BY <1>2, GoesAndReads DEF Polled, NotEligible
<1>3. CASE Accept
  <2>1. pc'["camera"] = "look" /\ pc'["worker"] = pc["worker"]
        /\ pc'["completion"] \in {"none", "wait"} /\ pc["completion"] = "none"
    BY <1>3, GotoOne DEF Accept, LabelTypes, Threads
  <2>2. Answered("camera", "yes")
    BY <1>3 DEF Accept
  <2>3. Reads("camera")
    BY <2>1, <2>2 DEF Reads, StaysOff
  <2> QED BY <2>3
<1>4. CASE Close
  BY <1>4, GoesOn DEF Close
<1>5. CASE CloseInterlock
  BY <1>5, GoesAndAsks, GoesOn DEF CloseInterlock, AbortRequest
<1>6. CASE CloseAborted
  BY <1>6, GoesAndReads DEF CloseAborted, AbortReply
<1>7. CASE CloseEngine
  BY <1>7, GoesOn DEF CloseEngine
<1> QED BY <1>1, <1>2, <1>3, <1>4, <1>5, <1>6, <1>7 DEF Camera

\* The reaction worker's.
LEMMA WorkerWire == ASSUME LabelTypes, Wired, Worker PROVE WireStep
<1> USE WaitsAre DEF Clients, Ops, AskedAt, WireStep
<1>1. CASE Take \/ Listen
  <2>1. pc["worker"] \notin Waits["worker"] /\ pc'["worker"] \notin Waits["worker"]
        /\ pc'["camera"] = pc["camera"] /\ pc'["completion"] = pc["completion"]
    BY <1>1 DEF Take, Listen, LabelTypes
  <2>2. KeepsOff
    BY <1>1, <2>1 DEF KeepsOff, StaysOff, Take, Listen
  <2> QED BY <2>2
<1>2. CASE Play
  BY <1>2, GoesAndAsks, GoesOn DEF Play
<1>3. CASE Paused
  BY <1>3, GoesAndReads DEF Paused
<1>4. CASE AskReady
  BY <1>4, GoesAndAsks, GoesOn DEF AskReady
<1>5. CASE Ready
  BY <1>5, GoesAndReads DEF Ready
<1>6. CASE Preflight \/ Release \/ AwaitVoice \/ Act \/ Moved
  BY <1>6, GoesOn DEF Preflight, Release, AwaitVoice, Act, Moved
<1>7. CASE GateFail
  BY <1>7, GoesAndAsks DEF GateFail, AbortRequest
<1>8. CASE GateAborted
  BY <1>8, GoesAndReads DEF GateAborted, AbortReply
<1> QED BY <1>1, <1>2, <1>3, <1>4, <1>5, <1>6, <1>7, <1>8 DEF Worker

\* The audio worker keeps off the socket.
LEMMA VoiceWire == ASSUME LabelTypes, Voice PROVE WireStep
<1>1. UNCHANGED wire /\ \E label : Goto("voice", label)
  BY DEF Voice, Speak, GateWait, Spoken
<1>2. \A c \in Clients : pc'[c] = pc[c]
  BY <1>1, GotoOne DEF Clients
<1> QED BY <1>1, <1>2 DEF WireStep, KeepsOff, StaysOff

\* The completion thread's.
LEMMA CompletionWire == ASSUME LabelTypes, Wired, Completion PROVE WireStep
<1> USE WaitsAre DEF Clients, Ops, AskedAt, WireStep
<1>1. CASE JobEnded \/ JobTimeout \/ RecoverSafe \/ RecoverUnsafe \/ Judge
  BY <1>1, GoesOn DEF JobEnded, JobTimeout, RecoverSafe, RecoverUnsafe, Judge
<1>2. CASE RecoverStart \/ Resume
  BY <1>2, GoesAndAsks, GoesOn DEF RecoverStart, Resume, StartRequest
<1>3. CASE RecoverStarted \/ Resumed
  BY <1>3, GoesAndReads DEF RecoverStarted, Resumed
<1>4. CASE Abort
  BY <1>4, GoesAndAsks DEF Abort, AbortRequest
<1>5. CASE Aborted
  BY <1>5, GoesAndReads DEF Aborted, AbortReply
<1> QED BY <1>1, <1>2, <1>3, <1>4, <1>5 DEF Completion

\* Every step keeps the socket's invariant.
LEMMA NextWired == ASSUME LabelTypes, Threads, Wired, Next PROVE Wired'
<1>1. WireStep => Wired'
  BY AsksWired, ReadsWired, KeepsOffWired DEF WireStep
<1>2. PatrolStops => Wired'
  <2> SUFFICES ASSUME PatrolStops PROVE Wired'
    OBVIOUS
  <2>1. WireTypes'
    BY DEF PatrolStops, Wired, WireTypes
  <2> QED BY <2>1 DEF PatrolStops, Wired, WaitingIsConnected, Connections
<1>3. Wire => Wired'
  BY <1>2, ServeWired, GiveUpWired, ServerClosesWired DEF Wire
<1> QED BY <1>1, <1>3, JoinWired, CameraWire, WorkerWire, VoiceWire, CompletionWire DEF Next

(***************************************************************************)
(* The threads.                                                            *)
(***************************************************************************)

\* No thread leaves its labels, no variable its set.
LEMMA CameraTypes ==
  ASSUME LabelTypes, Threads, FlagTypes, WordTypes, jobs \in 0..MaxJobs, Camera
  PROVE  LabelTypes' /\ FlagTypes' /\ WordTypes' /\ jobs' \in 0..MaxJobs
<1>1. LabelTypes'
  <2>1. CASE Poll \/ Polled \/ Trigger \/ NotEligible
    BY <2>1 DEF Poll, Polled, Trigger, NotEligible, Goto, LabelTypes
  <2>2. CASE Accept
    BY <2>2 DEF Accept, Goto, LabelTypes
  <2>4. CASE Join
    BY <2>4 DEF Join, LabelTypes
  <2>3. CASE Close \/ CloseInterlock \/ CloseAborted \/ CloseEngine
    BY <2>3 DEF Close, CloseInterlock, CloseAborted, CloseEngine, AbortRequest, Goto, LabelTypes
  <2> QED BY <2>1, <2>2, <2>3, <2>4 DEF Camera
<1>2. FlagTypes'
  <2>1. CASE Poll \/ Polled \/ Trigger \/ NotEligible
    BY <2>1 DEF Poll, Polled, Trigger, NotEligible, FlagTypes, client, work, outputs, exit
  <2>2. CASE Accept \/ Join
    BY <2>2 DEF Accept, Join, FlagTypes, client, work, outputs, exit
  <2>3. CASE Close \/ CloseInterlock
    BY <2>3 DEF Close, CloseInterlock, AbortRequest, FlagTypes, client, work, outputs, exit
  <2>4. CASE CloseAborted \/ CloseEngine
    BY <2>4 DEF CloseAborted, CloseEngine, AbortReply, FlagTypes, client, work, outputs, exit
  <2> QED BY <2>1, <2>2, <2>3, <2>4 DEF Camera
<1>3. WordTypes'
  BY DEF Camera, Poll, Polled, Trigger, NotEligible, Accept, Close, CloseInterlock, CloseAborted,
         CloseEngine, Join, Cancelled, WordTypes, work, outputs, exit
<1>4. jobs' = jobs \/ (jobs < MaxJobs /\ jobs' = jobs + 1)
  <2>1. Accept => jobs < MaxJobs
    BY DEF Accept, Threads
  <2>2. jobs' = jobs \/ (Accept /\ jobs' = jobs + 1)
    BY DEF Camera, Poll, Polled, Trigger, NotEligible, Accept, Close, CloseInterlock,
           CloseAborted, CloseEngine, Join, work
  <2> QED BY <2>1, <2>2
<1> QED BY <1>1, <1>2, <1>3, <1>4, BoundAssumption DEF BoundAssumption

\* The worker's steps keep the types.
LEMMA WorkerTypes ==
  ASSUME LabelTypes, FlagTypes, WordTypes, Worker
  PROVE  LabelTypes' /\ FlagTypes' /\ WordTypes' /\ jobs' = jobs
<1>1. LabelTypes'
  <2>1. CASE Take \/ Listen
    BY <2>1 DEF Take, Listen, Goto, LabelTypes
  <2>2. CASE Play \/ Paused \/ AskReady \/ Ready \/ Preflight
    BY <2>2 DEF Play, Paused, AskReady, Ready, Preflight, Goto, LabelTypes
  <2>3. CASE Release \/ AwaitVoice \/ GateFail \/ GateAborted \/ Act \/ Moved
    BY <2>3 DEF Release, AwaitVoice, GateFail, GateAborted, Act, Moved, AbortRequest, Goto, LabelTypes
  <2> QED BY <2>1, <2>2, <2>3 DEF Worker
<1>2. FlagTypes'
  BY DEF Worker, Take, Play, Paused, AskReady, Ready, Preflight, Release, AwaitVoice, GateFail,
         GateAborted, Act, Moved, Listen, AbortRequest, AbortReply, FlagTypes, client, work,
         outputs, exit
<1>3. WordTypes'
  BY DEF Worker, Take, Play, Paused, AskReady, Ready, Preflight, Release, AwaitVoice, GateFail,
         GateAborted, Act, Moved, Listen, Cancelled, WordTypes, work, outputs, exit
<1>4. jobs' = jobs
  BY DEF Worker, Take, Play, Paused, AskReady, Ready, Preflight, Release, AwaitVoice, GateFail,
         GateAborted, Act, Moved, Listen, work
<1> QED BY <1>1, <1>2, <1>3, <1>4

\* So do those of the voice, of the completion and of the patrol's server.
LEMMA OtherTypes ==
  ASSUME LabelTypes, FlagTypes, WordTypes, Voice \/ Completion \/ Wire
  PROVE  LabelTypes' /\ FlagTypes' /\ WordTypes' /\ jobs' = jobs
<1>1. CASE Voice
  <2>1. LabelTypes'
    BY <1>1 DEF Voice, Speak, GateWait, Spoken, Goto, LabelTypes
  <2>2. FlagTypes'
    BY <1>1 DEF Voice, Speak, GateWait, Spoken, FlagTypes, client, work, outputs, exit
  <2>3. WordTypes' /\ jobs' = jobs
    BY <1>1 DEF Voice, Speak, GateWait, Spoken, WordTypes, work, outputs, exit
  <2> QED BY <2>1, <2>2, <2>3
<1>2. CASE Completion
  <2> USE <1>2 DEF Completion, JobEnded, JobTimeout, RecoverSafe, RecoverUnsafe, RecoverStart,
                   RecoverStarted, Judge, Resume, Resumed, Abort, Aborted, AbortRequest, AbortReply,
                   StartRequest
  <2>1. LabelTypes'
    BY DEF Goto, LabelTypes
  <2>2. FlagTypes'
    BY DEF FlagTypes, client, work, outputs, exit
  <2>3. WordTypes' /\ jobs' = jobs
    BY DEF WordTypes, work, outputs, exit
  <2> QED BY <2>1, <2>2, <2>3
<1>3. CASE Wire
  <2>1. UNCHANGED <<pc, client, work, exit>>
    BY <1>3 DEF Wire, Serve, GiveUp, PatrolStops, ServerCloses
  <2> QED BY <2>1 DEF LabelTypes, FlagTypes, WordTypes, client, work, outputs, exit
<1> QED BY <1>1, <1>2, <1>3

\* One job at a time goes through the worker, and closing ends the threads in order.
LEMMA CameraThreads == ASSUME LabelTypes, Connections, Threads, Camera PROVE Threads'
<1> USE DEF LabelTypes, Threads, Closing, Goto
<1>1. CASE Poll \/ Polled \/ NotEligible
  BY <1>1 DEF Poll, Polled, NotEligible, work, outputs, exit
<1>2. CASE Trigger
  BY <1>2 DEF Trigger, Busy, CompletionAlive, work, exit
<1>3. CASE Accept
  BY <1>3 DEF Accept, exit
<1>4. CASE Close
  BY <1>4 DEF Close
<1>5. CASE CloseInterlock
  BY <1>5 DEF CloseInterlock, AbortRequest, work
<1>6. CASE CloseAborted
  BY <1>6 DEF CloseAborted, work
<1>7. CASE CloseEngine
  BY <1>7 DEF CloseEngine
<1>8. CASE Join
  BY <1>8 DEF Join, work, exit
<1> QED BY <1>1, <1>2, <1>3, <1>4, <1>5, <1>6, <1>7, <1>8 DEF Camera

\* The worker keeps what one reaction's threads agree on.
LEMMA WorkerThreads == ASSUME LabelTypes, Threads, Worker PROVE Threads'
<1> USE DEF LabelTypes, Threads, Closing, Goto
<1>1. CASE Take
  BY <1>1 DEF Take, exit
<1>2. CASE Play \/ Paused \/ AskReady \/ Ready \/ Preflight
  BY <1>2 DEF Play, Paused, AskReady, Ready, Preflight, work, exit
<1>3. CASE Release \/ AwaitVoice
  BY <1>3 DEF Release, AwaitVoice, work, exit
<1>4. CASE GateFail \/ GateAborted
  BY <1>4 DEF GateFail, GateAborted, AbortRequest, exit
<1>5. CASE Act
  BY <1>5 DEF Act, exit
<1>7. CASE Moved
  BY <1>7 DEF Moved, exit
<1>6. CASE Listen
  BY <1>6 DEF Listen, exit
<1> QED BY <1>1, <1>2, <1>3, <1>4, <1>5, <1>6, <1>7 DEF Worker

\* So do the voice, the completion and the patrol's server.
LEMMA OtherThreads ==
  ASSUME LabelTypes, Threads, Voice \/ Completion \/ Wire PROVE Threads'
<1> USE DEF LabelTypes, Threads, Closing, Goto
<1>1. CASE Voice
  BY <1>1 DEF Voice, Speak, GateWait, Spoken, work, exit
<1>2. CASE JobEnded \/ JobTimeout \/ RecoverSafe \/ RecoverUnsafe \/ Judge
  BY <1>2 DEF JobEnded, JobTimeout, RecoverSafe, RecoverUnsafe, Judge, work, exit
<1>3. CASE RecoverStart \/ RecoverStarted
  BY <1>3 DEF RecoverStart, RecoverStarted, StartRequest, work, exit
<1>4. CASE Resume
  BY <1>4 DEF Resume, StartRequest, work
<1>5. CASE Resumed
  BY <1>5 DEF Resumed, work
<1>6. CASE Abort \/ Aborted
  BY <1>6 DEF Abort, Aborted, AbortRequest, work, exit
<1>7. CASE Wire
  <2>1. UNCHANGED <<pc, work, exit>>
    BY <1>7 DEF Wire, Serve, GiveUp, PatrolStops, ServerCloses
  <2> QED BY <2>1 DEF work, exit
<1> QED BY <1>1, <1>2, <1>3, <1>4, <1>5, <1>6, <1>7 DEF Completion

\* A pause is owned by the job that asked for it, and by nobody when the next is queued.
LEMMA CameraOwned ==
  ASSUME LabelTypes, Connections, Threads, OwnedByJob, Camera PROVE OwnedByJob'
<1> USE DEF LabelTypes, OwnedByJob, Goto
<1>1. CASE Poll \/ Polled \/ NotEligible \/ Trigger
  BY <1>1 DEF Poll, Polled, NotEligible, Trigger, client, work, outputs, exit
<1>2. CASE Accept
  BY <1>2 DEF Accept, Threads, Closing, client, exit
<1>3. CASE Close
  BY <1>3 DEF Close, client
<1>4. CASE CloseInterlock
  BY <1>4 DEF CloseInterlock, AbortRequest, Threads, Closing, client, work
<1>5. CASE CloseAborted
  BY <1>5 DEF CloseAborted, AbortReply, work
<1>6. CASE CloseEngine
  BY <1>6 DEF CloseEngine, client
<1>7. CASE Join
  BY <1>7 DEF Join, Threads, Closing, client, work, exit
<1> QED BY <1>1, <1>2, <1>3, <1>4, <1>5, <1>6, <1>7 DEF Camera

\* The worker keeps the pause with the job that had it confirmed.
LEMMA WorkerOwned ==
  ASSUME LabelTypes, Connections, Threads, OwnedByJob, Worker PROVE OwnedByJob'
<1> USE DEF LabelTypes, OwnedByJob, Goto
<1>1. CASE Take
  BY <1>1 DEF Take, client, exit
<1>2. CASE Play
  BY <1>2 DEF Play, client, exit
<1>3. CASE Paused
  <2>1. job = "running" /\ UNCHANGED <<failed, job, closing>>
    BY <1>3 DEF Paused, Threads, work, exit
  <2>2. pc' = [pc EXCEPT !["worker"] = "ready1"]
        \/ (pc' = [pc EXCEPT !["worker"] = "gateFail"] /\ UNCHANGED owned)
    BY <1>3 DEF Paused
  <2> QED BY <1>3, <2>1, <2>2 DEF Paused
<1>4. CASE AskReady \/ Ready
  BY <1>4 DEF AskReady, Ready, client, work, exit
<1>5. CASE Preflight \/ Release \/ AwaitVoice
  BY <1>5 DEF Preflight, Release, AwaitVoice, client, work, exit
<1>6. CASE GateFail \/ GateAborted
  BY <1>6 DEF GateFail, GateAborted, AbortRequest, AbortReply, exit
<1>7. CASE Act
  BY <1>7 DEF Act, client, exit
<1>8. CASE Moved
  BY <1>8 DEF Moved, client, exit
<1>9. CASE Listen
  BY <1>9 DEF Listen, Threads, client, exit
<1> QED BY <1>1, <1>2, <1>3, <1>4, <1>5, <1>6, <1>7, <1>8, <1>9 DEF Worker

\* So do the voice, the completion and the patrol's server.
LEMMA OtherOwned ==
  ASSUME LabelTypes, OwnedByJob, Voice \/ Completion \/ Wire PROVE OwnedByJob'
<1> USE DEF LabelTypes, OwnedByJob, Goto
<1>1. CASE Voice
  BY <1>1 DEF Voice, Speak, GateWait, Spoken, client, work, exit
<1>2. CASE JobEnded \/ JobTimeout \/ RecoverSafe \/ RecoverUnsafe \/ Judge
  BY <1>2 DEF JobEnded, JobTimeout, RecoverSafe, RecoverUnsafe, Judge, client, work, exit
<1>3. CASE RecoverStart \/ RecoverStarted
  BY <1>3 DEF RecoverStart, RecoverStarted, StartRequest, client, work, exit
<1>4. CASE Resume \/ Resumed
  BY <1>4 DEF Resume, Resumed, StartRequest, client, work
<1>5. CASE Abort \/ Aborted
  BY <1>5 DEF Abort, Aborted, AbortRequest, AbortReply, work, exit
<1>6. CASE Wire
  <2>1. UNCHANGED <<pc, client, work, exit>>
    BY <1>6 DEF Wire, Serve, GiveUp, PatrolStops, ServerCloses
  <2> QED BY <2>1 DEF client, work, exit
<1> QED BY <1>1, <1>2, <1>3, <1>4, <1>5, <1>6 DEF Completion

(***************************************************************************)
(* What a step does to the queue and to the patrol.                        *)
(***************************************************************************)

\* Who asks an operation, of those still connected.
LEMMA LiveOps ==
  ASSUME LabelTypes, Wired, NEW i \in DOMAIN queue, queue[i].live
  PROVE  /\ queue[i].op = "pause" => pc["worker"] = "pausing" /\ queue[i].from = "worker"
         /\ queue[i].op = "reaction_ready" =>
              pc["worker"] \in {"readying1", "readying2"} /\ queue[i].from = "worker"
         /\ queue[i].op = "resume" =>
              pc["completion"] \in {"starting", "resuming"} /\ queue[i].from = "completion"
         /\ queue[i].op = "status" => pc["camera"] \in {"poll", "ask"}
<1>1. /\ queue[i].from \in {"camera", "worker", "completion"}
      /\ pc[queue[i].from] \in Waits[queue[i].from]
      /\ queue[i].op = AskedAt(queue[i].from, pc[queue[i].from])
  BY QueueIsOfConnections DEF Wired, Connections, Clients
<1>2. CASE queue[i].from = "camera"
  BY <1>1, <1>2, WaitsAre DEF AskedAt
<1>3. CASE queue[i].from = "worker"
  BY <1>1, <1>3, WaitsAre DEF AskedAt
<1>4. CASE queue[i].from = "completion"
  BY <1>1, <1>4, WaitsAre DEF AskedAt
<1> QED BY <1>1, <1>2, <1>3, <1>4

\* A thread's own step leaves the patrol, the server and every connection, and adds at
\* most one, still open.
Extends ==
    /\ UNCHANGED <<server, patrol>>
    /\ queue' = queue \/ \E e \in Connection : e.live /\ queue' = Append(queue, e)

\* What a thread does to the socket at most appends a live connection.
LEMMA WireStepExtends == WireStep => Extends
<1>1. \A c \in Clients, op \in Ops : Request(c, op) => Extends
  <2> SUFFICES ASSUME NEW c \in Clients, NEW op \in Ops, Request(c, op) PROVE Extends
    OBVIOUS
  <2>1. [from |-> c, op |-> op, live |-> TRUE] \in Connection
    BY DEF Connection
  <2> QED BY <2>1 DEF Request, Extends
<1>2. \A c \in Clients : Reads(c) => Extends
  BY DEF Reads, Answered, Extends
<1>3. KeepsOff => Extends
  BY DEF KeepsOff, wire, Extends
<1> QED BY <1>1, <1>2, <1>3 DEF WireStep, Asks

\* So does every step of the reaction's threads, but for the join of the worker.
LEMMA ThreadsExtend ==
  ASSUME LabelTypes, Threads, Wired, (Camera /\ ~Join) \/ Worker \/ Voice \/ Completion
  PROVE  Extends
  BY WireStepExtends, CameraWire, WorkerWire, VoiceWire, CompletionWire

\* What is closed after such a step was closed before it, and what was there still is.
LEMMA ExtendsKeeps ==
  ASSUME Wired, Extends
  PROVE  /\ \A i \in DOMAIN queue : i \in DOMAIN queue' /\ queue'[i] = queue[i]
         /\ \A i \in DOMAIN queue' : queue'[i].live \/ (i \in DOMAIN queue /\ queue'[i] = queue[i])
<1> USE QueueIsOfConnections DEF Wired
<1>1. CASE queue' = queue
  BY <1>1
<1>2. ASSUME NEW e \in Connection, e.live, queue' = Append(queue, e)
      PROVE  /\ \A i \in DOMAIN queue : i \in DOMAIN queue' /\ queue'[i] = queue[i]
             /\ \A i \in DOMAIN queue' :
                  queue'[i].live \/ (i \in DOMAIN queue /\ queue'[i] = queue[i])
  <2>1. DOMAIN queue' = DOMAIN queue \cup {Len(queue) + 1} /\ queue'[Len(queue) + 1] = e
        /\ \A i \in DOMAIN queue : queue'[i] = queue[i]
    BY <1>2, AppendProperties
  <2> QED BY <1>2, <2>1
<1> QED BY <1>1, <1>2 DEF Extends

\* The server takes the oldest connection off the queue, or everything with it when its
\* client has gone; only a resume sets the patrol going, only a pause with proof that it
\* stands is acknowledged, and a stopped patrol stays stopped.
LEMMA ServeDoes ==
  ASSUME Wired, Serve
  PROVE  /\ server = "up" /\ 1 \in DOMAIN queue /\ UNCHANGED <<pc, client, work, exit>>
         /\ \A i \in DOMAIN queue' : i + 1 \in DOMAIN queue /\ queue'[i] = queue[i + 1]
         /\ queue[1].live =>
              /\ server' = server
              /\ \A i \in DOMAIN queue : i # 1 => i - 1 \in DOMAIN queue' /\ queue'[i - 1] = queue[i]
              /\ \E reply \in {"yes", "no"} :
                   /\ answer' = [answer EXCEPT ![queue[1].from] = reply]
                   /\ queue[1].op = "pause" /\ reply = "yes" => patrol' # "going"
                   /\ queue[1].op = "resume" /\ patrol # "going" /\ patrol' = "going" => reply = "yes"
         /\ ~queue[1].live => answer' = answer
         /\ patrol' = "going" /\ patrol # "going" => queue[1].op = "resume"
         /\ patrol = "stopped" => patrol' = "stopped"
         /\ queue[1].op = "stop" => patrol' = "stopped"
<1> USE QueueIsOfConnections DEF Wired
<1>1. server = "up" /\ queue # <<>> /\ Head(queue) = queue[1] /\ 1 \in DOMAIN queue
      /\ UNCHANGED <<pc, client, work, exit>>
  BY HeadTailProperties, EmptySeq DEF Serve
<1>2. PICK r \in Outcome(queue[1].op) :
        /\ patrol' = r.patrol
        /\ IF queue[1].live
           THEN /\ answer' = [answer EXCEPT ![queue[1].from] = IF r.ok THEN "yes" ELSE "no"]
                /\ queue' = Tail(queue) /\ UNCHANGED server
           ELSE server' = "dead" /\ queue' = <<>> /\ UNCHANGED answer
  BY <1>1 DEF Serve
<1>3. /\ patrol' = "going" /\ patrol # "going" => queue[1].op = "resume"
      /\ patrol = "stopped" => patrol' = "stopped"
      /\ queue[1].op = "stop" => patrol' = "stopped"
      /\ queue[1].op = "pause" /\ r.ok => patrol' # "going"
      /\ queue[1].op = "resume" /\ patrol # "going" /\ patrol' = "going" => r.ok
  <2> DEFINE op == queue[1].op
  <2> HIDE DEF op
  <2>0. r \in Outcome(op) /\ patrol' = r.patrol /\ op \in Ops
    BY <1>1, <1>2 DEF op, Connection
  <2>1. CASE op = "status"
    BY <2>0, <2>1 DEF Outcome, op
  <2>2. CASE op = "stop"
    BY <2>0, <2>2 DEF Outcome, op
  <2>3. CASE op = "pause"
    BY <2>0, <2>3 DEF Outcome, op
  <2>4. CASE op = "reaction_ready"
    BY <2>0, <2>4 DEF Outcome, op
  <2>5. CASE op = "resume"
    BY <2>0, <2>5 DEF Outcome, op
  <2> QED BY <2>0, <2>1, <2>2, <2>3, <2>4, <2>5 DEF Ops
<1>4. CASE queue[1].live
  <2>1. queue' = Tail(queue) /\ UNCHANGED server
        /\ answer' = [answer EXCEPT ![queue[1].from] = IF r.ok THEN "yes" ELSE "no"]
    BY <1>2, <1>4
  <2>2. DOMAIN queue' = 1..(Len(queue) - 1)
        /\ \A i \in DOMAIN queue' : i + 1 \in DOMAIN queue /\ queue'[i] = queue[i + 1]
    BY <1>1, <2>1, HeadTailProperties
  <2>3. \A i \in DOMAIN queue : i # 1 => i - 1 \in DOMAIN queue' /\ queue'[i - 1] = queue[i]
    BY <2>2
  <2>4. \E reply \in {"yes", "no"} :
          /\ answer' = [answer EXCEPT ![queue[1].from] = reply]
          /\ queue[1].op = "pause" /\ reply = "yes" => patrol' # "going"
          /\ queue[1].op = "resume" /\ patrol # "going" /\ patrol' = "going" => reply = "yes"
    <3>1. CASE r.ok
      BY <1>3, <2>1, <3>1
    <3>2. CASE ~r.ok
      BY <1>3, <2>1, <3>2
    <3> QED BY <3>1, <3>2
  <2> QED BY <1>1, <1>3, <1>4, <2>1, <2>2, <2>3, <2>4
<1>5. CASE ~queue[1].live
  <2>1. queue' = <<>> /\ answer' = answer /\ DOMAIN queue' = {}
    BY <1>2, <1>5
  <2> QED BY <1>1, <1>3, <1>5, <2>1
<1> QED BY <1>4, <1>5

\* A client gives up a connection of its own that waits behind a slower one, or on a dead
\* server.
LEMMA GiveUpDoes ==
  ASSUME Wired, NEW c \in Clients, GiveUp(c)
  PROVE  /\ answer[c] = "waiting" /\ answer' = [answer EXCEPT ![c] = "no"]
         /\ UNCHANGED <<pc, server, patrol, client, work, exit>>
         /\ \/ server = "dead" /\ queue' = queue
            \/ \E n \in DOMAIN queue, k \in DOMAIN queue :
                 /\ queue[n].from = c /\ queue[n].live /\ k # n
                 /\ queue[k].op \in TooSlow(queue[n].op)
                 /\ DOMAIN queue' = DOMAIN queue
                 /\ \A i \in DOMAIN queue : i # n => queue'[i] = queue[i]
                 /\ queue'[n].op = queue[n].op /\ ~queue'[n].live
<1> USE QueueIsOfConnections DEF Wired
<1>1. answer[c] = "waiting" /\ answer' = [answer EXCEPT ![c] = "no"]
      /\ UNCHANGED <<pc, server, patrol, client, work, exit>>
  BY DEF GiveUp
<1>2. ASSUME NEW n \in DOMAIN queue, queue[n].from = c, queue[n].live, NEW k \in 1..n-1,
             queue[k].op \in TooSlow(queue[n].op), queue' = [queue EXCEPT ![n].live = FALSE]
      PROVE  /\ k \in DOMAIN queue /\ k # n /\ DOMAIN queue' = DOMAIN queue
             /\ \A i \in DOMAIN queue : i # n => queue'[i] = queue[i]
             /\ queue'[n].op = queue[n].op /\ ~queue'[n].live
  <2> DEFINE closed == [queue[n] EXCEPT !.live = FALSE]
  <2>1. closed \in Connection /\ closed.op = queue[n].op /\ ~closed.live
    BY <1>2 DEF Connection
  <2>2. queue' = [queue EXCEPT ![n] = closed]
    BY <1>2
  <2> HIDE DEF closed
  <2>3. DOMAIN queue' = DOMAIN queue /\ queue'[n] = closed
        /\ \A i \in DOMAIN queue : i # n => queue'[i] = queue[i]
    BY <2>1, <2>2, ExceptSeq
  <2>4. k \in DOMAIN queue /\ k # n
    BY <1>2
  <2>5. queue'[n].op = queue[n].op /\ ~queue'[n].live
    BY <2>1, <2>3
  <2> QED BY <2>3, <2>4, <2>5
<1>3. \/ server = "dead" /\ queue' = queue
      \/ \E n \in DOMAIN queue : queue[n].from = c /\ queue[n].live
           /\ (\E k \in 1..n-1 : queue[k].op \in TooSlow(queue[n].op))
           /\ queue' = [queue EXCEPT ![n].live = FALSE]
  BY DEF GiveUp
<1> QED BY <1>1, <1>2, <1>3

\* Nobody gives up on a pause, nor on a resume: a resume has no pause before it.
LEMMA PauseIsNotGivenUp ==
  ASSUME Wired, LabelTypes, OwnedByJob, PauseIsAwaited, pc.camera # "done",
         NEW n \in DOMAIN queue, NEW k \in DOMAIN queue, queue[n].live,
         queue[k].op \in TooSlow(queue[n].op)
  PROVE  queue[n].op \notin {"pause", "resume"}
<1>1. queue[n].op # "pause"
  BY DEF TooSlow
<1>2. ASSUME queue[n].op = "resume" PROVE FALSE
  <2>1. queue[k].op = "pause"
    BY <1>2 DEF TooSlow
  <2>2. queue[k].live
    BY <2>1 DEF PauseIsAwaited
  <2> QED BY <1>2, <2>1, <2>2, LiveOps DEF OwnedByJob
<1> QED BY <1>1, <1>2

\* A resume that is served has its client: the completion thread of a reaction whose
\* worker is past its pause.
LEMMA ResumeIsAwaited ==
  ASSUME Wired, LabelTypes, Threads, PauseIsAwaited, pc.camera # "done",
         NEW i \in DOMAIN queue, queue[i].op = "resume"
  PROVE  queue[i].live /\ queue[i].from = "completion" /\ pc["completion"] \in {"starting", "resuming"}
<1>1. queue[i].live
  BY DEF PauseIsAwaited
<1> QED BY <1>1, LiveOps

\* A process that has ended stays so, and its threads with it.
LEMMA DoneStays ==
  ASSUME LabelTypes, Threads, Next, pc.camera = "done"
  PROVE  pc'.camera = "done"
<1>1. ~Camera
  BY DEF Camera, Poll, Polled, Trigger, NotEligible, Accept, Close, CloseInterlock, CloseAborted,
         CloseEngine, Join
<1>2. pc.worker = "idle" /\ pc.completion = "none" /\ pc.voice = "idle" /\ job # "queued"
  BY DEF Threads
<1>3. ~Worker
  BY <1>2 DEF Worker, Take, Play, Paused, AskReady, Ready, Preflight, Release, AwaitVoice,
              GateFail, GateAborted, Act, Moved, Listen
<1>4. ~Completion
  BY <1>2 DEF Completion, JobEnded, JobTimeout, RecoverSafe, RecoverUnsafe, RecoverStart,
              RecoverStarted, Judge, Resume, Resumed, Abort, Aborted
<1>5. ~Voice
  BY <1>2 DEF Voice, Speak, GateWait, Spoken
<1>6. Wire => UNCHANGED pc
  BY DEF Wire, Serve, GiveUp, PatrolStops, ServerCloses
<1> QED BY <1>1, <1>3, <1>4, <1>5, <1>6 DEF Next

(***************************************************************************)
(* The pause is awaited and its ownership real.                            *)
(***************************************************************************)

\* A thread's own step brings no answer, and takes one only from the thread that reads it.
LEMMA AnswersStay ==
  ASSUME Wired, WireStep, NEW c \in Clients
  PROVE  /\ answer'[c] = "yes" => answer[c] = "yes" /\ pc'[c] = pc[c]
         /\ answer[c] = "yes" /\ pc'[c] = pc[c] => answer'[c] = "yes"
<1> USE DEF Wired, WireTypes
<1>1. answer[c] # "none" <=> pc[c] \in Waits[c]
  BY DEF Connections
<1>2. CASE KeepsOff
  BY <1>1, <1>2 DEF KeepsOff, StaysOff, wire
<1>3. ASSUME NEW d \in Clients, Asks(d)
      PROVE  /\ answer'[c] = "yes" => answer[c] = "yes" /\ pc'[c] = pc[c]
             /\ answer[c] = "yes" /\ pc'[c] = pc[c] => answer'[c] = "yes"
  <2>1. answer[d] = "none" /\ \E x \in {"no", "waiting"} : answer' = [answer EXCEPT ![d] = x]
    BY <1>3 DEF Asks, Request
  <2> QED BY <1>3, <2>1 DEF Asks
<1>4. ASSUME NEW d \in Clients, Reads(d)
      PROVE  /\ answer'[c] = "yes" => answer[c] = "yes" /\ pc'[c] = pc[c]
             /\ answer[c] = "yes" /\ pc'[c] = pc[c] => answer'[c] = "yes"
  <2>1. answer' = [answer EXCEPT ![d] = "none"] /\ pc'[d] \notin Waits[d]
        /\ \A e \in Clients \ {d} : StaysOff(e)
    BY <1>4 DEF Reads, Answered
  <2> QED BY <1>1, <2>1 DEF StaysOff
<1> QED BY <1>2, <1>3, <1>4 DEF WireStep

\* What is closed stays awaited by nobody, in a step of a thread, ...
LEMMA ThreadsPauseAwaited ==
  ASSUME LabelTypes, Wired, Threads, OwnedByJob, PauseIsAwaited, Next,
         (Camera /\ ~Join) \/ Worker \/ Voice \/ Completion
  PROVE  PauseIsAwaited'
<1>1. WireStep /\ Extends
  BY ThreadsExtend, CameraWire, WorkerWire, VoiceWire, CompletionWire
<1>2. ASSUME NEW i \in DOMAIN queue', ~queue'[i].live, pc'.camera # "done"
      PROVE  queue'[i].op \notin {"pause", "resume"}
  <2>1. pc.camera # "done"
    BY <1>2, DoneStays
  <2> QED BY <1>1, <1>2, <2>1, ExtendsKeeps DEF PauseIsAwaited
<1>3. pc'.worker = "pausing" /\ answer'["worker"] = "yes" => patrol' # "going"
  BY <1>1, AnswersStay DEF PauseIsAwaited, Extends, Clients
<1> QED BY <1>1, <1>2, <1>3 DEF PauseIsAwaited, Extends

\* ... of the server, ...
LEMMA ServePauseAwaited ==
  ASSUME LabelTypes, Wired, Threads, OwnedByJob, PauseIsAwaited, Serve
  PROVE  PauseIsAwaited'
<1>1. \A i \in DOMAIN queue' : i + 1 \in DOMAIN queue /\ queue'[i] = queue[i + 1]
  BY ServeDoes
<1>2. pc' = pc /\ server = "up" /\ (server' = "up" \/ server' = "dead")
  BY ServeDoes DEF Serve
<1>3. pc.worker = "pausing" /\ answer'["worker"] = "yes" => patrol' # "going"
  <2> SUFFICES ASSUME pc.worker = "pausing", answer'["worker"] = "yes" PROVE patrol' # "going"
    OBVIOUS
  <2>1. pc.camera # "done" /\ pc["completion"] \notin {"starting", "resuming"}
    BY DEF Threads, OwnedByJob
  <2>2. queue[1].op # "resume" /\ 1 \in DOMAIN queue
    BY <2>1, ServeDoes, ResumeIsAwaited
  <2>3. patrol # "going" => patrol' # "going"
    BY <2>2, ServeDoes
  <2>4. CASE answer["worker"] = "yes"
    BY <2>3, <2>4 DEF PauseIsAwaited
  <2>5. CASE answer["worker"] # "yes"
    <3>1. queue[1].live /\ queue[1].from \in Clients
      BY <2>2, <2>5, ServeDoes, QueueIsOfConnections DEF Wired
    <3>2. PICK reply \in {"yes", "no"} :
            /\ answer' = [answer EXCEPT ![queue[1].from] = reply]
            /\ queue[1].op = "pause" /\ reply = "yes" => patrol' # "going"
      BY <3>1, ServeDoes
    <3>3. queue[1].from = "worker" /\ reply = "yes"
      BY <2>5, <3>1, <3>2 DEF Wired, WireTypes
    <3>4. queue[1].op = "pause"
      BY <2>2, <3>1, <3>3 DEF Wired, Connections, AskedAt
    <3> QED BY <3>2, <3>3, <3>4
  <2> QED BY <2>4, <2>5
<1> QED BY <1>1, <1>2, <1>3 DEF PauseIsAwaited

\* ... of a client that gives up, and of the others.
LEMMA OtherPauseAwaited ==
  ASSUME LabelTypes, Wired, Threads, OwnedByJob, PauseIsAwaited,
         Join \/ PatrolStops \/ ServerCloses \/ \E c \in Clients : GiveUp(c)
  PROVE  PauseIsAwaited'
<1>1. CASE Join
  <2>1. pc'.camera = "done" /\ pc'.worker # "pausing" /\ UNCHANGED <<server, patrol>>
    BY <1>1 DEF Join, LabelTypes
  <2> QED BY <2>1 DEF PauseIsAwaited
<1>2. CASE PatrolStops
  BY <1>2 DEF PatrolStops, PauseIsAwaited
<1>3. CASE ServerCloses
  BY <1>3 DEF ServerCloses, PauseIsAwaited, Clients
<1>4. ASSUME NEW c \in Clients, GiveUp(c)
      PROVE  PauseIsAwaited'
  <2>1. answer' = [answer EXCEPT ![c] = "no"] /\ UNCHANGED <<pc, server, patrol>>
    BY <1>4, GiveUpDoes
  <2>2. answer'["worker"] = "yes" => answer["worker"] = "yes"
    BY <2>1 DEF Wired, WireTypes
  <2>3. ASSUME NEW i \in DOMAIN queue', ~queue'[i].live, pc.camera # "done"
        PROVE  queue'[i].op \notin {"pause", "resume"}
    <3>1. CASE queue' = queue
      BY <2>3, <3>1 DEF PauseIsAwaited
    <3>2. ASSUME NEW n \in DOMAIN queue, NEW k \in DOMAIN queue, queue[n].live,
                 queue[k].op \in TooSlow(queue[n].op), DOMAIN queue' = DOMAIN queue,
                 \A j \in DOMAIN queue : j # n => queue'[j] = queue[j],
                 queue'[n].op = queue[n].op
          PROVE  queue'[i].op \notin {"pause", "resume"}
      BY <2>3, <3>2, PauseIsNotGivenUp DEF PauseIsAwaited
    <3> QED BY <1>4, <3>1, <3>2, GiveUpDoes
  <2> QED BY <2>1, <2>2, <2>3 DEF PauseIsAwaited
<1> QED BY <1>1, <1>2, <1>3, <1>4

\* Every step keeps it.
LEMMA NextPauseAwaited ==
  ASSUME LabelTypes, Wired, Threads, OwnedByJob, PauseIsAwaited, Next
  PROVE  PauseIsAwaited'
  BY ThreadsPauseAwaited, ServePauseAwaited, OtherPauseAwaited DEF Next, Wire

\* A thread's step takes a pause only by its confirmation, and leaves a confirmed resume
\* only by giving the pause up.
LEMMA OwnedChanges ==
  ASSUME LabelTypes, Threads, (Camera /\ ~Join) \/ Worker \/ Voice \/ Completion
  PROVE  /\ owned' => owned \/ (pc["worker"] = "pausing" /\ answer["worker"] = "yes")
         /\ pc["completion"] \in {"starting", "resuming"} /\ answer["completion"] = "yes" =>
              ~owned' \/ pc'["completion"] = pc["completion"]
<1>1. CASE Camera /\ ~Join
  <2>1. owned' => owned
    BY <1>1 DEF Camera, Poll, Polled, Trigger, NotEligible, Accept, Close, CloseInterlock,
                CloseAborted, CloseEngine, AbortRequest, AbortReply, client
  <2>2. pc["completion"] # "none" => pc'["completion"] = pc["completion"] \/ Accept
    BY <1>1, GotoOne DEF Camera, Poll, Polled, Trigger, NotEligible, Close, CloseInterlock,
                CloseAborted, CloseEngine, AbortRequest
  <2>3. CASE Accept
    BY <2>1, <2>3 DEF Accept, Threads
  <2> QED BY <2>1, <2>2, <2>3
<1>2. CASE Worker
  <2>1. CASE Take \/ Listen
    <3>1. pc'["completion"] = pc["completion"]
      BY <2>1 DEF Take, Listen, LabelTypes
    <3> QED BY <2>1, <3>1 DEF Take, Listen, client
  <2>2. CASE Play \/ AskReady \/ Ready \/ Preflight \/ Release \/ AwaitVoice \/ GateFail \/ GateAborted
             \/ Act \/ Moved
    <3>1. \E label : Goto("worker", label)
      BY <2>2 DEF Play, AskReady, Ready, Preflight, Release, AwaitVoice, GateFail, GateAborted, Act,
                  Moved, AbortRequest
    <3>2. pc'["completion"] = pc["completion"]
      BY <3>1, GotoOne
    <3>3. owned' => owned
      BY <2>2 DEF Play, AskReady, Ready, Preflight, Release, AwaitVoice, GateFail, GateAborted, Act,
                  Moved, AbortRequest, AbortReply, client
    <3> QED BY <3>2, <3>3
  <2>3. CASE Paused
    <3>1. owned' => owned \/ answer["worker"] = "yes"
      BY <2>3 DEF Paused, Answered
    <3>2. pc["worker"] = "pausing" /\ pc'["completion"] = pc["completion"]
      BY <2>3, GotoOne DEF Paused
    <3> QED BY <3>1, <3>2
  <2> QED BY <1>2, <2>1, <2>2, <2>3 DEF Worker
<1>3. CASE Voice
  <2>1. owned' = owned
    BY <1>3 DEF Voice, Speak, GateWait, Spoken, client
  <2>2. pc'["completion"] = pc["completion"]
    BY <1>3, GotoOne DEF Voice, Speak, GateWait, Spoken
  <2> QED BY <2>1, <2>2
<1>4. CASE Completion
  <2>1. CASE JobEnded \/ JobTimeout \/ RecoverSafe \/ RecoverUnsafe \/ RecoverStart \/ Judge
    BY <2>1 DEF JobEnded, JobTimeout, RecoverSafe, RecoverUnsafe, RecoverStart, Judge, client
  <2>2. CASE Resume \/ Abort \/ Aborted
    BY <2>2 DEF Resume, Abort, Aborted, AbortRequest, AbortReply, client
  <2>3. CASE RecoverStarted \/ Resumed
    BY <2>3 DEF RecoverStarted, Resumed, Answered
  <2> QED BY <1>4, <2>1, <2>2, <2>3 DEF Completion
<1> QED BY <1>1, <1>2, <1>3, <1>4

\* Ownership stays real: the patrol is set going only for a client that will know of it.
LEMMA NextOwnership ==
  ASSUME LabelTypes, Wired, Threads, OwnedByJob, PauseIsAwaited, OwnershipIsReal, Next
  PROVE  OwnershipIsReal'
<1> SUFFICES ASSUME owned', pc'.camera # "done", patrol' = "going"
             PROVE  pc'.completion \in {"starting", "resuming"} /\ answer'["completion"] = "yes"
  BY DEF OwnershipIsReal
<1>1. pc.camera # "done"
  BY DoneStays
<1>2. CASE (Camera /\ ~Join) \/ Worker \/ Voice \/ Completion
  <2>1. WireStep /\ patrol = "going"
    BY <1>2, ThreadsExtend, CameraWire, WorkerWire, VoiceWire, CompletionWire DEF Extends
  <2>2. owned
    BY <1>2, <2>1, OwnedChanges DEF PauseIsAwaited
  <2>3. pc.completion \in {"starting", "resuming"} /\ answer["completion"] = "yes"
    BY <1>1, <2>1, <2>2 DEF OwnershipIsReal
  <2>4. pc'["completion"] = pc["completion"]
    BY <1>2, <2>3, OwnedChanges
  <2> QED BY <2>1, <2>3, <2>4, AnswersStay DEF Clients
<1>3. CASE Serve
  <2>1. pc' = pc /\ owned
    BY <1>3, ServeDoes DEF client
  <2>2. CASE patrol = "going"
    <3>1. pc.completion \in {"starting", "resuming"} /\ answer["completion"] = "yes"
      BY <1>1, <2>1, <2>2 DEF OwnershipIsReal
    <3>2. 1 \in DOMAIN queue /\ queue[1].from \in Clients
      BY <1>3, ServeDoes, QueueIsOfConnections DEF Wired
    <3>3. queue[1].live => queue[1].from # "completion"
      BY <3>1, <3>2 DEF Wired, Connections
    <3>4. answer' = answer \/ \E d \in Clients \ {"completion"}, x \in {"yes", "no"} :
                                answer' = [answer EXCEPT ![d] = x]
      BY <1>3, <3>2, <3>3, ServeDoes
    <3>5. answer'["completion"] = "yes"
      BY <3>1, <3>4 DEF Wired, WireTypes, Clients
    <3> QED BY <2>1, <3>1, <3>5
  <2>3. CASE patrol # "going"
    <3>1. 1 \in DOMAIN queue /\ queue[1].op = "resume"
      BY <1>3, <2>3, ServeDoes
    <3>2. queue[1].live /\ queue[1].from = "completion"
          /\ pc["completion"] \in {"starting", "resuming"}
      BY <1>1, <3>1, ResumeIsAwaited
    <3>3. answer' = [answer EXCEPT !["completion"] = "yes"]
      BY <1>3, <2>3, <3>1, <3>2, ServeDoes
    <3> QED BY <2>1, <3>2, <3>3 DEF Wired, WireTypes, Clients
  <2> QED BY <2>2, <2>3
<1>4. CASE PatrolStops \/ ServerCloses
  <2>1. UNCHANGED <<pc, owned>> /\ patrol' # "going"
    BY <1>4 DEF PatrolStops, ServerCloses, client
  <2> QED BY <2>1
<1>5. ASSUME NEW c \in Clients, GiveUp(c)
      PROVE  pc'.completion \in {"starting", "resuming"} /\ answer'["completion"] = "yes"
  <2>1. answer[c] = "waiting" /\ answer' = [answer EXCEPT ![c] = "no"]
        /\ UNCHANGED <<pc, patrol, owned>>
    BY <1>5, GiveUpDoes DEF client
  <2>2. pc.completion \in {"starting", "resuming"} /\ answer["completion"] = "yes"
    BY <1>1, <2>1 DEF OwnershipIsReal
  <2> QED BY <2>1, <2>2 DEF Wired, WireTypes
<1>6. CASE Join
  BY <1>6 DEF Join, LabelTypes
<1> QED BY <1>2, <1>3, <1>4, <1>5, <1>6 DEF Next, Wire

\* The arms carry weight only from a motion that has not been proved to end well.
LEMMA NextArms == ASSUME LabelTypes, Arms, Next PROVE Arms'
<1>1. CASE Camera
  <2>1. UNCHANGED <<arms, motion>>
    BY <1>1 DEF Camera, Poll, Polled, Trigger, NotEligible, Accept, Close, CloseInterlock,
                CloseAborted, CloseEngine, Join, work, outputs
  <2>2. pc'["worker"] = pc["worker"]
    <3>1. CASE Accept \/ Join
      BY <3>1 DEF Accept, Join, Goto, LabelTypes
    <3>2. CASE ~(Accept \/ Join)
      BY <1>1, <3>2, GotoOne DEF Camera, Poll, Polled, Trigger, NotEligible, Close, CloseInterlock,
                CloseAborted, CloseEngine, AbortRequest
    <3> QED BY <3>1, <3>2
  <2> QED BY <2>1, <2>2 DEF Arms
<1>2. CASE Voice \/ Completion
  <2>1. UNCHANGED <<arms, motion>>
    BY <1>2 DEF Voice, Speak, GateWait, Spoken, Completion, JobEnded, JobTimeout, RecoverSafe,
                RecoverUnsafe, RecoverStart, RecoverStarted, Judge, Resume, Resumed, Abort, Aborted,
                work, outputs
  <2>2. \E t \in {"voice", "completion"} : \E label : Goto(t, label)
    BY <1>2 DEF Voice, Speak, GateWait, Spoken, Completion, JobEnded, JobTimeout, RecoverSafe,
                RecoverUnsafe, RecoverStart, RecoverStarted, Judge, Resume, Resumed, Abort, Aborted,
                AbortRequest, StartRequest
  <2>3. pc'["worker"] = pc["worker"]
    BY <2>2, GotoOne
  <2> QED BY <2>1, <2>3 DEF Arms
<1>3. CASE Worker
  <2> USE DEF Arms, Holding, LabelTypes, Goto
  <2>1. CASE Take
    <3>1. CASE shutdown
      BY <2>1, <3>1 DEF Take, outputs
    <3>2. CASE ~shutdown
      BY <2>1, <3>2 DEF Take, outputs
    <3> QED BY <3>1, <3>2
  <2>7. CASE Play
    BY <2>7 DEF Play
  <2>2. CASE Paused \/ AskReady \/ Ready \/ Preflight
    BY <2>2 DEF Paused, AskReady, Ready, Preflight, work, outputs
  <2>3. CASE Release \/ AwaitVoice \/ GateFail \/ GateAborted
    BY <2>3 DEF Release, AwaitVoice, GateFail, GateAborted, AbortRequest, work, outputs
  <2>4. CASE Act
    BY <2>4 DEF Act
  <2>5. CASE Moved
    BY <2>5 DEF Moved
  <2>6. CASE Listen
    BY <2>6 DEF Listen, outputs
  <2> QED BY <1>3, <2>1, <2>2, <2>3, <2>4, <2>5, <2>6, <2>7 DEF Worker
<1>4. CASE Wire
  <2>1. UNCHANGED <<pc, work>>
    BY <1>4 DEF Wire, Serve, GiveUp, PatrolStops, ServerCloses
  <2> QED BY <2>1 DEF Arms, work, outputs
<1> QED BY <1>1, <1>2, <1>3, <1>4 DEF Next

(***************************************************************************)
(* The normal profile.                                                     *)
(***************************************************************************)

\* Nothing that has been confirmed changes before the resume is over.
LEMMA NextNormalThreads ==
  ASSUME ~Hackathon, LabelTypes, Threads, OwnedByJob, NormalThreads, Next
  PROVE  NormalThreads'
<1> USE DEF NormalThreads, Confirmed, Threads
<1>1. CASE Camera
  <2>1. UNCHANGED <<motion, spoke>>
    BY <1>1 DEF Camera, Poll, Polled, Trigger, NotEligible, Accept, Close, CloseInterlock,
                CloseAborted, CloseEngine, Join, work, outputs
  <2>2. CASE Accept
    <3>1. pc'["camera"] = "look" /\ pc'["completion"] \in {"none", "wait"}
      BY <2>2 DEF Accept, Goto, LabelTypes
    <3> QED BY <2>1, <3>1
  <2>3. CASE Join
    BY <2>1, <2>3 DEF Join, LabelTypes
  <2>4. CASE Poll
    BY <2>4 DEF Poll
  <2>5. CASE Polled \/ Trigger \/ NotEligible \/ Close \/ CloseInterlock \/ CloseAborted
    <3>1. UNCHANGED job /\ \E label : label # "poll" /\ Goto("camera", label)
      BY <2>5 DEF Polled, Trigger, NotEligible, Close, CloseInterlock, CloseAborted, AbortRequest, work
    <3>2. pc'["completion"] = pc["completion"] /\ pc'["camera"] # "poll"
      BY <3>1, GotoOne
    <3> QED BY <2>1, <3>1, <3>2
  <2>6. CASE CloseEngine
    <3>1. Goto("camera", "join") /\ (job = "ok" => job' = "ok")
      BY <2>6 DEF CloseEngine
    <3>2. pc'["completion"] = pc["completion"] /\ pc'["camera"] # "poll"
      BY <3>1, GotoOne
    <3> QED BY <2>1, <3>1, <3>2
  <2> QED BY <1>1, <2>2, <2>3, <2>4, <2>5, <2>6 DEF Camera
<1>2. CASE Worker
  <2>1. CASE Take \/ Listen
    <3>1. pc'["completion"] = pc["completion"] /\ pc'["camera"] = pc["camera"]
          /\ UNCHANGED <<motion, spoke>> /\ job # "ok"
      BY <2>1 DEF Take, Listen, LabelTypes, outputs
    <3> QED BY <3>1
  <2>2. CASE Play \/ AskReady \/ Ready \/ Preflight \/ Release \/ AwaitVoice \/ GateFail \/ GateAborted
             \/ Act \/ Moved \/ Paused
    <3>1. \E label : Goto("worker", label)
      BY <2>2 DEF Play, AskReady, Ready, Preflight, Release, AwaitVoice, GateFail, GateAborted, Act,
                  Moved, Paused, AbortRequest
    <3>2. pc'["completion"] = pc["completion"] /\ pc'["camera"] = pc["camera"]
      BY <3>1, GotoOne
    <3>3. pc.worker # "idle"
      <4>1. AskReady => pc.worker \in {"ready1", "ready2"}
        BY DEF AskReady
      <4>2. Ready => pc.worker \in {"readying1", "readying2"}
        BY DEF Ready
      <4>3. Play \/ Preflight \/ Release \/ AwaitVoice \/ GateFail \/ GateAborted \/ Act \/ Moved \/ Paused
              => pc.worker # "idle"
        BY DEF Play, Preflight, Release, AwaitVoice, GateFail, GateAborted, Act, Moved, Paused
      <4> QED BY <2>2, <4>1, <4>2, <4>3
    <3>4. motion' # "recoverable"
      BY <2>2 DEF Play, AskReady, Ready, Preflight, Release, AwaitVoice, GateFail, GateAborted, Act,
                  Moved, Paused, work, outputs
    <3> QED BY <3>2, <3>3, <3>4
  <2> QED BY <1>2, <2>1, <2>2 DEF Worker
<1>3. CASE Voice
  <2>1. UNCHANGED <<motion, job>> /\ (spoke' = spoke \/ pc.voice # "idle")
    BY <1>3 DEF Voice, Speak, GateWait, Spoken, work, outputs
  <2>2. pc'["completion"] = pc["completion"] /\ pc'["camera"] = pc["camera"]
    BY <1>3, GotoOne DEF Voice, Speak, GateWait, Spoken
  <2> QED BY <2>1, <2>2
<1>4. CASE Completion
  <2>1. UNCHANGED work
    BY <1>4 DEF Completion, JobEnded, JobTimeout, RecoverSafe, RecoverUnsafe, RecoverStart,
                RecoverStarted, Judge, Resume, Resumed, Abort, Aborted
  <2>2. UNCHANGED <<motion, job, spoke>>
    BY <2>1 DEF work, outputs
  <2>3. \E label : Goto("completion", label)
           /\ label \notin {"recover", "start", "starting"}
           /\ (label \in {"lock", "resuming"} => Confirmed)
    <3>1. CASE JobEnded \/ JobTimeout
      BY <3>1 DEF JobEnded, JobTimeout
    <3>2. CASE Judge
      BY <3>2 DEF Judge, Successful
    <3>3. CASE Resume
      BY <3>3 DEF Resume, StartRequest
    <3>4. CASE Resumed \/ Abort \/ Aborted
      BY <3>4 DEF Resumed, Abort, Aborted, AbortRequest
    <3>5. ~(RecoverSafe \/ RecoverUnsafe \/ RecoverStart \/ RecoverStarted)
      BY DEF RecoverSafe, RecoverUnsafe, RecoverStart, RecoverStarted
    <3> QED BY <1>4, <3>1, <3>2, <3>3, <3>4, <3>5 DEF Completion
  <2>4. pc'["camera"] = pc["camera"] /\ pc'["completion"] \notin {"recover", "start", "starting"}
        /\ (pc'["completion"] \in {"lock", "resuming"} => Confirmed)
    BY <2>3, GotoOne
  <2> QED BY <2>2, <2>4
<1>5. CASE Wire
  <2>1. UNCHANGED <<pc, work>>
    BY <1>5 DEF Wire, Serve, GiveUp, PatrolStops, ServerCloses
  <2> QED BY <2>1 DEF work, outputs
<1> QED BY <1>1, <1>2, <1>3, <1>4, <1>5 DEF Next

\* A resume in the queue is one that has been earned.
LEMMA ResumeServedIsEarned ==
  ASSUME LabelTypes, WordTypes, Wired, Threads, Arms, NormalThreads, NormalWire,
         NEW i \in DOMAIN queue, queue[i].op = "resume"
  PROVE  Earned /\ pc.completion = "resuming"
<1>1. queue[i].live
  BY DEF NormalWire
<1>2. pc.completion = "resuming"
  BY <1>1, LiveOps DEF NormalThreads
<1>3. Confirmed
  BY <1>2 DEF NormalThreads
<1>4. pc.worker = "idle" /\ ~arms
  BY <1>3 DEF Confirmed, Threads, Arms
<1> QED BY <1>2, <1>3, <1>4 DEF Confirmed, Earned

\* The patrol is set going by such a resume alone.
LEMMA GoesOnlyIfEarned ==
  ASSUME LabelTypes, WordTypes, Wired, Threads, Arms, NormalThreads, NormalWire, Next,
         patrol' = "going", patrol # "going"
  PROVE  Earned /\ Serve
<1>1. (Camera /\ ~Join) \/ Worker \/ Voice \/ Completion => UNCHANGED patrol
  BY ThreadsExtend DEF Extends
<1>2. Join \/ ServerCloses \/ PatrolStops => UNCHANGED patrol \/ patrol' = "stopped"
  BY DEF Join, ServerCloses, PatrolStops
<1>3. \A c \in Clients : GiveUp(c) => UNCHANGED patrol
  BY DEF GiveUp
<1>4. Serve
  BY <1>1, <1>2, <1>3 DEF Next, Wire
<1>5. 1 \in DOMAIN queue /\ queue[1].op = "resume"
  BY <1>4, ServeDoes
<1> QED BY <1>4, <1>5, ResumeServedIsEarned

\* In the normal profile every connection that waits behind a slower one is a stop.
LEMMA OnlyStopsGiveUp ==
  ASSUME LabelTypes, Wired, Threads, OwnedByJob, NormalThreads, NormalWire,
         NEW n \in DOMAIN queue, NEW k \in DOMAIN queue, queue[n].live, k # n,
         queue[k].op \in TooSlow(queue[n].op)
  PROVE  queue[n].op = "stop"
<1>1. queue[n].op \in Ops
  BY QueueIsOfConnections DEF Wired, Connection
<1>2. queue[k].op # "stop" => queue[k].live
  BY DEF NormalWire
<1>3. CASE queue[n].op = "status"
  <2>1. pc["camera"] = "ask"
    BY <1>3, LiveOps DEF NormalThreads
  <2>2. pc.worker = "idle" /\ pc.completion = "none"
    BY <2>1 DEF Threads
  <2>3. queue[k].op \in {"pause", "reaction_ready", "resume"}
    BY <1>3 DEF TooSlow
  <2> QED BY <1>2, <2>2, <2>3, LiveOps
<1>4. CASE queue[n].op = "pause"
  BY <1>4 DEF TooSlow
<1>5. CASE queue[n].op \in {"reaction_ready", "resume"}
  <2>1. queue[k].op = "pause"
    BY <1>5 DEF TooSlow
  <2>2. pc["worker"] = "pausing"
    BY <1>2, <2>1, LiveOps
  <2>3. queue[n].op # "reaction_ready"
    BY <2>2, LiveOps
  <2>4. queue[n].op # "resume"
    BY <2>2, LiveOps DEF OwnedByJob
  <2> QED BY <1>5, <2>3, <2>4
<1> QED BY <1>1, <1>3, <1>4, <1>5 DEF Ops

\* A dead or closed server leaves a patrol that stands for good.
LEMMA NextNormalWire ==
  ASSUME ~Hackathon, LabelTypes, Wired, Threads, OwnedByJob, NormalThreads, NormalWire, Next
  PROVE  NormalWire'
<1>1. CASE (Camera /\ ~Join) \/ Worker \/ Voice \/ Completion
  <2>1. Extends
    BY <1>1, ThreadsExtend
  <2>2. \A i \in DOMAIN queue' : ~queue'[i].live => queue'[i].op = "stop"
    BY <2>1, ExtendsKeeps DEF NormalWire
  <2> QED BY <2>1, <2>2 DEF NormalWire, Extends
<1>2. CASE Serve
  <2>1. \A i \in DOMAIN queue' : ~queue'[i].live => queue'[i].op = "stop"
    BY <1>2, ServeDoes DEF NormalWire
  <2>2. server = "up" /\ (server' = server \/ patrol' = "stopped")
    BY <1>2, ServeDoes DEF NormalWire
  <2> QED BY <2>1, <2>2 DEF NormalWire
<1>3. CASE PatrolStops \/ ServerCloses
  BY <1>3 DEF PatrolStops, ServerCloses, NormalWire
<1>4. ASSUME NEW c \in Clients, GiveUp(c)
      PROVE  NormalWire'
  <2>1. UNCHANGED <<server, patrol>>
    BY <1>4, GiveUpDoes
  <2>2. ASSUME NEW i \in DOMAIN queue', ~queue'[i].live
        PROVE  queue'[i].op = "stop"
    <3>1. CASE queue' = queue
      BY <2>2, <3>1 DEF NormalWire
    <3>2. ASSUME NEW n \in DOMAIN queue, NEW k \in DOMAIN queue, queue[n].live, k # n,
                 queue[k].op \in TooSlow(queue[n].op), DOMAIN queue' = DOMAIN queue,
                 \A j \in DOMAIN queue : j # n => queue'[j] = queue[j],
                 queue'[n].op = queue[n].op
          PROVE  queue'[i].op = "stop"
      BY <2>2, <3>2, OnlyStopsGiveUp DEF NormalWire
    <3> QED BY <1>4, <3>1, <3>2, GiveUpDoes
  <2> QED BY <2>1, <2>2 DEF NormalWire
<1>5. CASE Join
  <2>1. pc["worker"] = "idle" /\ pc["completion"] \in {"none", "aborting"} \cup
          {"wait", "judge", "lock", "abort"} /\ pc["camera"] = "join"
    <3>1. pc.camera = "join" /\ pc.worker = "idle"
      BY <1>5 DEF Join
    <3>2. pc.completion \notin {"resuming", "recover", "start", "starting"}
      BY <3>1 DEF Threads, NormalThreads
    <3> QED BY <3>1, <3>2 DEF LabelTypes
  <2>2. ASSUME NEW i \in DOMAIN queue
        PROVE  queue[i].op = "stop"
    <3>1. queue[i].op \in Ops
      BY QueueIsOfConnections DEF Wired, Connection
    <3>2. CASE queue[i].live
      BY <2>1, <3>1, <3>2, LiveOps DEF Ops
    <3> QED BY <3>2 DEF NormalWire
  <2>3. DOMAIN queue' = DOMAIN queue /\ \A i \in DOMAIN queue : queue'[i] = [queue[i] EXCEPT !.live = FALSE]
    BY <1>5 DEF Join
  <2>4. \A i \in DOMAIN queue : queue'[i].op = queue[i].op
    BY <2>3, QueueIsOfConnections DEF Wired, Connection
  <2>5. UNCHANGED <<server, patrol>>
    BY <1>5 DEF Join
  <2> QED BY <2>2, <2>3, <2>4, <2>5 DEF NormalWire
<1> QED BY <1>1, <1>2, <1>3, <1>4, <1>5 DEF Next, Wire

\* The worker between its pause and its release, and the arms, have a standing patrol.
LEMMA NextStands ==
  ASSUME ~Hackathon, LabelTypes, WordTypes, Wired, Threads, PauseIsAwaited, Arms, NormalThreads,
         NormalWire, HoldsStill, ArmsOnlyWhileHeld, Next
  PROVE  HoldsStill' /\ ArmsOnlyWhileHeld'
<1>1. CASE patrol' = "going" /\ patrol # "going"
  <2>1. pc.worker = "idle" /\ ~arms /\ UNCHANGED <<pc, arms>>
    BY <1>1, GoesOnlyIfEarned, ServeDoes DEF Earned, work, outputs
  <2> QED BY <2>1 DEF HoldsStill, ArmsOnlyWhileHeld, Holding
<1>2. CASE patrol' # "going"
  BY <1>2 DEF HoldsStill, ArmsOnlyWhileHeld
<1>3. CASE patrol = "going" /\ patrol' = "going"
  <2>1. pc.worker \notin Holding /\ ~arms
    BY <1>3 DEF HoldsStill, ArmsOnlyWhileHeld
  <2>2. ~(pc["worker"] = "pausing" /\ answer["worker"] = "yes")
    BY <1>3 DEF PauseIsAwaited
  <2> SUFFICES pc'["worker"] \notin Holding /\ ~arms'
    BY DEF HoldsStill, ArmsOnlyWhileHeld
  <2>3. CASE Worker
    <3> USE DEF Holding, Goto, LabelTypes
    <3>1. CASE Take
      BY <2>1, <3>1 DEF Take, outputs
    <3>7. CASE Listen
      BY <2>1, <3>7 DEF Listen, outputs
    <3>2. CASE Play
      BY <2>1, <3>2 DEF Play
    <3>3. CASE Paused
      BY <2>1, <2>2, <3>3 DEF Paused, Answered, work, outputs
    <3>4. CASE GateFail \/ GateAborted
      BY <2>1, <3>4 DEF GateFail, GateAborted, AbortRequest
    <3>5. ~(AskReady \/ Ready)
      BY <2>1 DEF AskReady, Ready
    <3>6. ~(Preflight \/ Release \/ AwaitVoice \/ Act \/ Moved)
      BY <2>1 DEF Preflight, Release, AwaitVoice, Act, Moved
    <3> QED BY <2>3, <3>1, <3>2, <3>3, <3>4, <3>5, <3>6, <3>7 DEF Worker
  <2>4. CASE Camera
    <3>1. arms' = arms
      BY <2>4 DEF Camera, Poll, Polled, Trigger, NotEligible, Accept, Close, CloseInterlock,
                  CloseAborted, CloseEngine, Join, work, outputs
    <3>2. CASE Accept \/ Join
      BY <2>1, <3>1, <3>2 DEF Accept, Join, Goto, LabelTypes
    <3>3. CASE ~(Accept \/ Join)
      BY <2>1, <2>4, <3>1, <3>3, GotoOne
         DEF Camera, Poll, Polled, Trigger, NotEligible, Close, CloseInterlock, CloseAborted,
             CloseEngine, AbortRequest
    <3> QED BY <3>2, <3>3
  <2>5. CASE Voice \/ Completion
    <3>1. UNCHANGED arms
      BY <2>5 DEF Voice, Speak, GateWait, Spoken, Completion, JobEnded, JobTimeout, RecoverSafe,
                  RecoverUnsafe, RecoverStart, RecoverStarted, Judge, Resume, Resumed, Abort, Aborted,
                  work, outputs
    <3>2. \E t \in {"voice", "completion"} : \E label : Goto(t, label)
      BY <2>5 DEF Voice, Speak, GateWait, Spoken, Completion, JobEnded, JobTimeout, RecoverSafe,
                  RecoverUnsafe, RecoverStart, RecoverStarted, Judge, Resume, Resumed, Abort, Aborted,
                  AbortRequest, StartRequest
    <3> QED BY <2>1, <3>1, <3>2, GotoOne
  <2>6. CASE Wire
    <3>1. UNCHANGED <<pc, work>>
      BY <2>6 DEF Wire, Serve, GiveUp, PatrolStops, ServerCloses
    <3> QED BY <2>1, <3>1 DEF work, outputs
  <2> QED BY <2>3, <2>4, <2>5, <2>6 DEF Next
<1> QED BY <1>1, <1>2, <1>3

\* Three connections suffice for the queue to take a stop: with none of them a stop, each
\* is some other client's only one.
LEMMA StopIsTaken ==
  ASSUME Wired, NormalWire, Backlog >= 3, NEW t \in Clients, answer[t] = "none",
         Request(t, "stop")
  PROVE  (patrol = "stopped" /\ UNCHANGED patrol) \/ StopComing'
<1> USE QueueIsOfConnections DEF Wired
<1>1. CASE server # "up"
  BY <1>1 DEF NormalWire, Request
<1>2. CASE server = "up" /\ ~(Len(queue) >= Backlog)
  <2> DEFINE new == [from |-> t, op |-> "stop", live |-> TRUE]
  <2>1. queue' = Append(queue, new)
    BY <1>2 DEF Request
  <2>2. new \in Connection /\ new.op = "stop"
    BY DEF Connection, Ops
  <2>3. Len(queue) + 1 \in DOMAIN queue' /\ queue'[Len(queue) + 1] = new
    BY <2>1, <2>2, AppendProperties
  <2> HIDE DEF new
  <2> QED BY <2>2, <2>3 DEF StopComing
<1>3. CASE server = "up" /\ Len(queue) >= Backlog
  <2>1. queue' = queue
    BY <1>3 DEF Request
  <2>2. 1 \in DOMAIN queue /\ 2 \in DOMAIN queue /\ 3 \in DOMAIN queue
    BY <1>3, BoundAssumption DEF BoundAssumption
  <2>3. ASSUME ~StopComing PROVE FALSE
    <3>1. \A i \in DOMAIN queue : queue[i].live
      BY <2>3 DEF StopComing, NormalWire
    <3>2. \A i \in DOMAIN queue : queue[i].from \in {"camera", "worker", "completion"} \ {t}
      BY <3>1 DEF Connections, Clients
    <3>3. queue[1].from # queue[2].from /\ queue[1].from # queue[3].from
          /\ queue[2].from # queue[3].from
      BY <2>2, <3>1 DEF Connections
    <3> QED BY <2>2, <3>2, <3>3 DEF Clients
  <2> QED BY <2>1, <2>3 DEF StopComing
<1> QED BY <1>1, <1>2, <1>3 DEF WireTypes

\* A stop that is coming comes, or is carried out, and a stopped patrol stays so.
LEMMA StopStays ==
  ASSUME LabelTypes, Wired, Threads, NormalWire, Next, patrol = "stopped" \/ StopComing
  PROVE  patrol' = "stopped" \/ StopComing'
<1>1. CASE (Camera /\ ~Join) \/ Worker \/ Voice \/ Completion
  <2>1. Extends
    BY <1>1, ThreadsExtend
  <2> QED BY <2>1, ExtendsKeeps DEF StopComing, Extends
<1>2. CASE Serve
  <2>1. patrol = "stopped" => patrol' = "stopped"
    BY <1>2, ServeDoes
  <2>2. ASSUME NEW i \in DOMAIN queue, queue[i].op = "stop" PROVE patrol' = "stopped" \/ StopComing'
    <3>1. CASE i = 1
      BY <1>2, <2>2, <3>1, ServeDoes
    <3>2. CASE i # 1 /\ queue[1].live
      BY <1>2, <2>2, <3>2, ServeDoes DEF StopComing
    <3>3. CASE ~queue[1].live
      BY <1>2, <3>3, ServeDoes DEF NormalWire
    <3> QED BY <3>1, <3>2, <3>3
  <2> QED BY <2>1, <2>2 DEF StopComing
<1>3. CASE PatrolStops \/ ServerCloses
  BY <1>3 DEF PatrolStops, ServerCloses
<1>4. ASSUME NEW c \in Clients, GiveUp(c)
      PROVE  patrol' = "stopped" \/ StopComing'
  <2>1. UNCHANGED patrol
    BY <1>4, GiveUpDoes
  <2>2. \A i \in DOMAIN queue : i \in DOMAIN queue' /\ queue'[i].op = queue[i].op
    BY <1>4, GiveUpDoes
  <2> QED BY <2>1, <2>2 DEF StopComing
<1>5. CASE Join
  <2>1. UNCHANGED patrol /\ DOMAIN queue' = DOMAIN queue
        /\ \A i \in DOMAIN queue : queue'[i] = [queue[i] EXCEPT !.live = FALSE]
    BY <1>5 DEF Join
  <2>2. \A i \in DOMAIN queue : queue'[i].op = queue[i].op
    BY <2>1, QueueIsOfConnections DEF Wired, Connection
  <2> QED BY <2>1, <2>2 DEF StopComing
<1> QED BY <1>1, <1>2, <1>3, <1>4, <1>5 DEF Next, Wire

\* No abort is lost.
LEMMA NextAbort ==
  ASSUME LabelTypes, Wired, Threads, NormalWire, Backlog >= 3, AbortIsFinal, Next
  PROVE  AbortIsFinal'
<1>1. CASE failed
  BY <1>1, StopStays DEF AbortIsFinal
<1>2. CASE ~failed /\ failed'
  <2>1. CloseInterlock \/ GateFail \/ Abort
    <3>1. ~(Voice \/ Wire)
      BY <1>2 DEF Voice, Speak, GateWait, Spoken, Wire, Serve, PatrolStops, ServerCloses, GiveUp, client
    <3>2. Camera => CloseInterlock
      BY <1>2 DEF Camera, Poll, Polled, Trigger, NotEligible, Accept, Close, CloseAborted,
                  CloseEngine, Join, AbortReply, client
    <3>3. Worker => GateFail
      BY <1>2 DEF Worker, Take, Play, Paused, AskReady, Ready, Preflight, Release, AwaitVoice,
                  GateAborted, Act, Moved, Listen, AbortReply, client
    <3>4. Completion => Abort
      BY <1>2 DEF Completion, JobEnded, JobTimeout, RecoverSafe, RecoverUnsafe, RecoverStart,
                  RecoverStarted, Judge, Resume, Resumed, Aborted, AbortReply, client
    <3> QED BY <3>1, <3>2, <3>3, <3>4 DEF Next
  <2>2. \E t \in Clients : Request(t, "stop") /\ pc[t] \in {"closeLock", "gateFail", "abort"}
    BY <1>2, <2>1 DEF CloseInterlock, GateFail, Abort, AbortRequest, Clients, client
  <2>3. PICK t \in Clients : Request(t, "stop") /\ pc[t] \in {"closeLock", "gateFail", "abort"}
    BY <2>2
  <2>4. answer[t] = "none"
    BY <2>3, WaitsAre DEF Wired, Connections, Clients
  <2>5. patrol' = "stopped" \/ StopComing'
    BY <2>3, <2>4, StopIsTaken
  <2> QED BY <2>5 DEF AbortIsFinal
<1>3. CASE ~failed'
  BY <1>3 DEF AbortIsFinal
<1> QED BY <1>1, <1>2, <1>3

(***************************************************************************)
(* The theorems.                                                           *)
(***************************************************************************)

\* The reaction process starts in the invariant ...
LEMMA InitInv == Init => IInv
<1> SUFFICES ASSUME Init PROVE IInv
  OBVIOUS
<1>1. LabelTypes
  BY DEF Init, LabelTypes
<1>2. WireTypes /\ WaitingIsConnected /\ DOMAIN queue = {}
  BY DEF Init, WireTypes, WaitingIsConnected, Clients
<1>3. FlagTypes /\ WordTypes /\ jobs \in 0..MaxJobs
  <2>1. FlagTypes
    BY DEF Init, FlagTypes
  <2>2. WordTypes
    BY DEF Init, WordTypes
  <2>3. jobs \in 0..MaxJobs
    BY BoundAssumption DEF Init, BoundAssumption
  <2> QED BY <2>1, <2>2, <2>3
<1>4. pc["camera"] = "look" /\ pc["worker"] = "idle" /\ pc["voice"] = "idle"
      /\ pc["completion"] = "none"
  BY DEF Init
<1>5. Connections
  BY <1>2, <1>4, WaitsAre DEF Init, Connections, Clients
<1>6. Threads /\ OwnedByJob /\ Arms
  BY <1>4 DEF Init, Threads, Closing, OwnedByJob, Arms, Holding
<1>7. PauseIsAwaited /\ OwnershipIsReal
  BY <1>2, <1>4 DEF Init, PauseIsAwaited, OwnershipIsReal
<1>8. Normal
  BY <1>2, <1>4 DEF Init, Normal, NormalThreads, NormalWire, HoldsStill, Holding, ArmsOnlyWhileHeld,
                    AbortIsFinal
<1> QED BY <1>1, <1>2, <1>3, <1>5, <1>6, <1>7, <1>8 DEF IInv, TypeOK

\* ... and no step leaves it, in either profile.
LEMMA NextInv == IInv /\ [Next]_vars => IInv'
<1> SUFFICES ASSUME IInv, [Next]_vars PROVE IInv'
  OBVIOUS
<1> USE DEF IInv, TypeOK
<1>1. Wired
  BY DEF Wired
<1>2. CASE Next
  <2>1. LabelTypes' /\ FlagTypes' /\ WordTypes' /\ (jobs \in 0..MaxJobs)'
    BY <1>2, CameraTypes, WorkerTypes, OtherTypes DEF Next
  <2>2. WireTypes' /\ WaitingIsConnected' /\ Connections'
    BY <1>1, <1>2, NextWired DEF Wired
  <2>3. Threads' /\ OwnedByJob'
    BY <1>2, CameraThreads, WorkerThreads, OtherThreads, CameraOwned, WorkerOwned, OtherOwned DEF Next
  <2>4. PauseIsAwaited' /\ OwnershipIsReal' /\ Arms'
    BY <1>1, <1>2, NextPauseAwaited, NextOwnership, NextArms
  <2>5. ~Hackathon => Normal'
    BY <1>1, <1>2, NextNormalThreads, NextNormalWire, NextStands, NextAbort DEF Normal
  <2> QED BY <2>1, <2>2, <2>3, <2>4, <2>5
<1>3. CASE UNCHANGED vars
  <2> USE <1>3 DEF vars, wire, client, work, outputs, exit
  <2>1. LabelTypes' /\ WordTypes' /\ (jobs \in 0..MaxJobs)'
    BY DEF LabelTypes, WordTypes
  <2>2. FlagTypes'
    BY DEF FlagTypes
  <2>3. WireTypes' /\ WaitingIsConnected' /\ Connections'
    BY DEF WireTypes, WaitingIsConnected, Connections
  <2>4. Threads' /\ OwnedByJob' /\ PauseIsAwaited' /\ OwnershipIsReal' /\ Arms'
    BY DEF Threads, OwnedByJob, PauseIsAwaited, OwnershipIsReal, Arms
  <2>5. ~Hackathon => Normal'
    BY DEF Normal, NormalThreads, Confirmed, NormalWire, HoldsStill, ArmsOnlyWhileHeld, AbortIsFinal,
           StopComing
  <2> QED BY <2>1, <2>2, <2>3, <2>4, <2>5
<1> QED BY <1>2, <1>3

\* In either profile, for any backlog and any number of reactions: every variable keeps to
\* its set, a client waits exactly while it holds one open connection, and a pause that
\* LocalPatrolController believes it owns is in force (_pause_owned).
THEOREM OwnershipHolds == Spec => [](TypeOK /\ OwnershipIsReal)
<1>1. IInv => TypeOK /\ OwnershipIsReal
  BY DEF IInv
<1> QED BY InitInv, NextInv, <1>1, PTL DEF Spec

\* In the normal profile the arms never carry weight beside a walking patrol, and, once the
\* socket holds three connections (the code's listen(4) does), no abort is lost: with the
\* profile as the flag of the run, all that is checked there.
THEOREM ProfilesAreSafe ==
  ASSUME Backlog >= 3
  PROVE  Spec /\ [](attended = Hackathon) => []InterlockInv
<1>1. IInv /\ attended = Hackathon => InterlockInv
  BY DEF IInv, Normal, InterlockInv
<1> QED BY InitInv, NextInv, <1>1, PTL DEF Spec

\* In the normal profile the patrol is resumed only after the job, its motion and its voice
\* have all been confirmed, with the worker at rest: no uncertain reaction is resumed from.
THEOREM NormalResumeIsEarned ==
  Spec /\ [](attended = Hackathon) => ResumesAreEarned
<1>1. IInv /\ attended = Hackathon /\ [Next]_vars
        => [~attended /\ patrol = "paused" /\ patrol' = "going" => Earned]_vars
  <2> SUFFICES ASSUME IInv, Next, ~Hackathon, patrol = "paused", patrol' = "going" PROVE Earned
    OBVIOUS
  <2>1. Wired
    BY DEF IInv, TypeOK, Wired
  <2> QED BY <2>1, GoesOnlyIfEarned DEF IInv, TypeOK, Normal
<1> QED BY InitInv, NextInv, <1>1, PTL DEF Spec, ResumesAreEarned

================================================================================
