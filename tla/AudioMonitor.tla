----------------------------- MODULE AudioMonitor -----------------------------
(***************************************************************************)
(* AudioMonitor between a microphone's callback and the one thread that    *)
(* classifies: a bounded queue that drops its oldest chunk, and a sentinel *)
(* that ends the thread.  The source tries RAW capture first and falls     *)
(* back to the normal one.  PortAudio (external) calls back from a thread  *)
(* of its own while a stream is started, and stopping or closing a stream  *)
(* waits for the callback under way.                                       *)
(***************************************************************************)
EXTENDS Naturals, Sequences

CONSTANTS QueueMax, \* queue_max_chunks
          MaxChunks \* bound: chunks captured

ASSUME MonitorAssumption == QueueMax \in Nat \ {0} /\ MaxChunks \in Nat

Sentinel == 0

VARIABLES program,   \* the main thread: new, starting, running, stopping, ending,
                     \* making room, joining, over
          mode,      \* the source tried: raw or normal
          stream,    \* its stream: none, open, started
          callback,  \* idle, putting, full, retrying
          captured,  \* number of the last chunk captured
          chunks,    \* the queue
          worker,    \* none, getting, processing, gone
          inWork,    \* the chunk it processes
          order,     \* history: chunks came to the worker in order
          failed,    \* error: classification has failed once
          raised     \* start() has raised

sourceVars == <<mode, stream>>
queueVars == <<callback, captured, chunks>>
workVars == <<worker, inWork, order, failed>>
monitorVars == <<program, sourceVars, queueVars, workVars, raised>>

MonitorInit ==
    /\ program = "new" /\ mode \in {"raw", "normal"} /\ stream = "none"
    /\ callback = "idle" /\ captured = 0 /\ chunks = <<>>
    /\ worker = "none" /\ inWork = 0 /\ order = TRUE /\ failed = FALSE /\ raised = FALSE

(* start(): the worker first, then the source.                             *)
StartMonitor ==
    /\ program = "new" /\ program' = "starting" /\ worker' = "getting"
    /\ UNCHANGED <<sourceVars, queueVars, inWork, order, failed, raised>>

OpenStream ==
    /\ program = "starting" /\ stream = "none" /\ stream' = "open"
    /\ UNCHANGED <<program, mode, queueVars, workVars, raised>>
StartStream ==
    /\ program = "starting" /\ stream = "open" /\ stream' = "started"
    /\ UNCHANGED <<program, mode, queueVars, workVars, raised>>
Started ==
    /\ program = "starting" /\ stream = "started" /\ program' = "running"
    /\ UNCHANGED <<sourceVars, queueVars, workVars, raised>>

\* A rejected stream is closed; RAW gives way to the normal capture, and
\* start() raises when that fails too, once the worker has been told.
SourceFails ==
    /\ program = "starting" /\ callback = "idle"
    /\ stream' = "none"
    /\ IF mode = "raw" THEN mode' = "normal" /\ UNCHANGED <<program, raised>>
       ELSE program' = "ending" /\ raised' = TRUE /\ UNCHANGED mode
    /\ UNCHANGED <<queueVars, workVars>>

(* submit(), in the callback: it never blocks.                             *)
Capture ==
    /\ stream = "started" /\ callback = "idle" /\ captured < MaxChunks
    /\ captured' = captured + 1 /\ callback' = "putting"
    /\ UNCHANGED <<program, sourceVars, chunks, workVars, raised>>

Room == Len(chunks) < QueueMax

\* Mutant: a full queue drops the chunk that has come.
SubmitIfRoom ==
    /\ callback = "putting" /\ callback' = "idle"
    /\ chunks' = IF Room THEN Append(chunks, captured) ELSE chunks
    /\ UNCHANGED <<program, sourceVars, captured, workVars, raised>>

Submit ==
    /\ \/ /\ callback \in {"putting", "retrying"}
          /\ chunks' = IF Room THEN Append(chunks, captured) ELSE chunks
          /\ callback' = IF Room \/ callback = "retrying" THEN "idle" ELSE "full"
       \/ /\ callback = "full" /\ callback' = "retrying"
          /\ chunks' = IF chunks = <<>> THEN chunks ELSE Tail(chunks)
    /\ UNCHANGED <<program, sourceVars, captured, workVars, raised>>

(* _run: whatever happens to a chunk, the next one is taken.               *)
GetChunk ==
    /\ worker = "getting" /\ chunks # <<>>
    /\ chunks' = Tail(chunks)
    /\ IF Head(chunks) = Sentinel
       THEN worker' = "gone" /\ UNCHANGED <<inWork, order>>
       ELSE /\ worker' = "processing" /\ inWork' = Head(chunks)
            /\ order' = (order /\ Head(chunks) > inWork)
    /\ UNCHANGED <<program, sourceVars, callback, captured, failed, raised>>

ProcessChunk ==
    /\ worker = "processing" /\ worker' = "getting"
    /\ failed' \in {failed, TRUE}
    /\ UNCHANGED <<program, sourceVars, queueVars, inWork, order, raised>>

(* run_audio_only: it ends when it is interrupted or the worker has        *)
(* failed; stop() stops the source, then the worker.                       *)
StopMonitor ==
    /\ program = "running" /\ program' = "stopping"
    /\ UNCHANGED <<sourceVars, queueVars, workVars, raised>>
StopSource ==
    /\ program = "stopping" /\ callback = "idle"
    /\ stream' = "none" /\ program' = "ending"
    /\ UNCHANGED <<mode, queueVars, workVars, raised>>

\* Mutant: the sentinel is dropped when the queue is full.
PutSentinelOnce ==
    /\ program = "ending" /\ program' = "joining"
    /\ chunks' = IF Room THEN Append(chunks, Sentinel) ELSE chunks
    /\ UNCHANGED <<sourceVars, callback, captured, workVars, raised>>

\* _stop_worker makes room for its sentinel by dropping the oldest chunks.
PutSentinel ==
    /\ program = "ending"
    /\ chunks' = IF Room THEN Append(chunks, Sentinel) ELSE chunks
    /\ program' = IF Room THEN "joining" ELSE "making room"
    /\ UNCHANGED <<sourceVars, callback, captured, workVars, raised>>
MakeRoom ==
    /\ program = "making room" /\ program' = "ending"
    /\ chunks' = IF chunks = <<>> THEN chunks ELSE Tail(chunks)
    /\ UNCHANGED <<sourceVars, callback, captured, workVars, raised>>

\* join(timeout=5): the worker may be busy for longer.
JoinMonitor ==
    /\ program = "joining" /\ worker \in {"gone", "processing"} /\ program' = "over"
    /\ UNCHANGED <<sourceVars, queueVars, workVars, raised>>

WorkerStep == GetChunk \/ ProcessChunk
MainStep == OpenStream \/ StartStream \/ Started \/ SourceFails
            \/ StopSource \/ PutSentinel \/ MakeRoom \/ JoinMonitor
MonitorNext == StartMonitor \/ MainStep \/ Capture \/ Submit \/ WorkerStep \/ StopMonitor
MonitorFairness ==
    /\ WF_monitorVars(WorkerStep) /\ WF_monitorVars(MainStep)
    /\ WF_monitorVars(Submit)
MonitorSpec == MonitorInit /\ [][MonitorNext]_monitorVars /\ MonitorFairness
-----------------------------------------------------------------------------
(* Between captures the newest chunk is never the one that was dropped: it *)
(* waits at the end of the queue or has reached the worker, to which       *)
(* chunks come in order.                                                   *)
NewestIsKept ==
    /\ order
    /\ callback = "idle" /\ captured > 0 /\ program \in {"starting", "running", "stopping"} =>
         inWork = captured \/ (chunks # <<>> /\ chunks[Len(chunks)] = captured)

(* A monitor that has been stopped, or whose source would not start, ends  *)
(* with its stream closed, and its worker goes: the sentinel gets through  *)
(* a full queue and is not dropped for a chunk.                            *)
MonitorEnds ==
    (program = "stopping" \/ raised) ~> [](program = "over" /\ stream = "none" /\ worker = "gone")
=============================================================================
