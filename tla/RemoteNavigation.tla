--------------------------- MODULE RemoteNavigation ---------------------------
(***************************************************************************)
(* RemoteNavigationAdapter: application threads and a heartbeat thread     *)
(* share one transport to the navigation bridge under _request_lock.  Any  *)
(* fault of a request latches movement inhibition; only reconnect() clears *)
(* it, and it restarts the heartbeat.                                      *)
(*                                                                         *)
(* One action per section under _lock, and two per request: the lock is    *)
(* taken, then the transport answers or fails.  What a thread does with    *)
(* the answer comes after the lock has been given back.                    *)
(***************************************************************************)
EXTENDS Naturals, FiniteSets

CONSTANTS Callers,    \* the application's threads
          Beats,      \* bound: the heartbeat threads alive at a time
          NoThread,   \* None, in _heartbeat_worker and for a free _request_lock
          MaxCalls,   \* bound: calls of the application
          MaxFaults   \* bound: faults of the transport or the bridge

ASSUME ThreadsAssumption ==
    /\ IsFiniteSet(Callers) /\ IsFiniteSet(Beats) /\ Beats # {}
    /\ Callers \cap Beats = {} /\ NoThread \notin Callers \cup Beats
ASSUME BoundsAssumption == MaxCalls \in Nat /\ MaxFaults \in Nat

Threads == Callers \cup Beats

VARIABLES bridge,      \* what the bridge does
          pc, op,      \* where each thread is, with which operation
          reply,       \* the state in the answer a thread holds
          requestLock, \* the holder of _request_lock
          shown,       \* _status.state; "unread" before the first answer
          latched,     \* _resume_inhibited
          enabled,     \* _heartbeat_enabled
          beat,        \* _heartbeat_worker
          stopBeats,   \* _heartbeat_stop
          closing, closed,   \* close() has begun; the transport is closed
          calls, faults,
          seen         \* history: reconnects whose answer is newer than any fault

link   == <<bridge, requestLock>>
thread == <<pc, op, reply>>
view   == <<shown, latched>>
pulse  == <<enabled, beat, stopBeats>>
count  == <<calls, faults>>
vars   == <<link, thread, view, pulse, closing, closed, count, seen>>

Moving == {"start_patrol", "resume"}
Calls == Moving \cup {"pause", "stop", "status", "health", "reconnect"}
Down == {"DISCONNECTED", "ERROR"}

Goto(t, label) == pc' = [pc EXCEPT ![t] = label]

\* The end of a thread's work, and of its locals.
Rest(t, label) ==
    /\ Goto(t, label) /\ op' = [op EXCEPT ![t] = "none"]
    /\ reply' = [reply EXCEPT ![t] = "none"]

\* The adapter has been made and its heartbeat started.
Init ==
    /\ bridge = "STOPPED" /\ requestLock = NoThread
    /\ beat \in Beats
    /\ pc = [t \in Threads |-> IF t \in Callers THEN "idle"
                               ELSE IF t = beat THEN "wait" ELSE "unborn"]
    /\ op = [t \in Threads |-> "none"] /\ reply = [t \in Threads |-> "none"]
    /\ shown = "unread" /\ latched = FALSE
    /\ enabled = TRUE /\ stopBeats = FALSE
    /\ closing = FALSE /\ closed = FALSE
    /\ calls = 0 /\ faults = 0 /\ seen = {}

(***************************************************************************)
(* The bridge.                                                             *)
(***************************************************************************)

Does(o) == CASE o = "start_patrol" /\ bridge = "STOPPED" -> "PATROLLING"
             [] o = "resume" /\ bridge = "PAUSED"        -> "PATROLLING"
             [] o = "pause"  /\ bridge = "PATROLLING"    -> "PAUSED"
             [] o = "stop"                               -> "STOPPED"
             [] OTHER                                    -> bridge

\* Its own lease watchdog pauses it, it fails, or its operator clears an error.
BridgeActs ==
    /\ \/ bridge = "PATROLLING" /\ bridge' = "PAUSED" /\ UNCHANGED faults
       \/ faults < MaxFaults /\ bridge # "ERROR" /\ bridge' = "ERROR" /\ faults' = faults + 1
       \/ bridge = "ERROR" /\ bridge' = "STOPPED" /\ UNCHANGED faults
    /\ UNCHANGED <<requestLock, thread, view, pulse, closing, closed, calls, seen>>

(***************************************************************************)
(* A request.                                                              *)
(***************************************************************************)

\* Before its request a movement looks at the latch, and status() answers from the
\* cache while the adapter is latched and shows DISCONNECTED.
MayAsk(o) ==
    /\ o \in Moving => ~latched
    /\ o = "status" => ~(latched /\ shown = "DISCONNECTED")

Call(c, o) ==
    /\ pc[c] = "idle" /\ ~closing /\ calls < MaxCalls /\ MayAsk(o)
    /\ Goto(c, "lock") /\ op' = [op EXCEPT ![c] = o] /\ calls' = calls + 1
    /\ UNCHANGED <<link, reply, view, pulse, closing, closed, faults, seen>>

TakeLock(t) ==
    /\ pc[t] = "lock" /\ requestLock = NoThread
    /\ requestLock' = t /\ Goto(t, "sent")
    /\ UNCHANGED <<bridge, op, reply, view, pulse, closing, closed, count, seen>>

Answer(t) ==
    /\ pc[t] = "sent" /\ ~closed
    /\ bridge' = Does(op[t]) /\ reply' = [reply EXCEPT ![t] = bridge']
    /\ requestLock' = NoThread /\ Goto(t, "answered")
    /\ seen' = IF op[t] = "reconnect" THEN seen \cup {t} ELSE seen
    /\ UNCHANGED <<op, view, pulse, closing, closed, count>>

\* A timeout or an error: the request may have been carried out.
Fail(t) ==
    /\ pc[t] = "sent" /\ (closed \/ faults < MaxFaults)
    /\ bridge' \in IF closed THEN {bridge} ELSE {bridge, Does(op[t])}
    /\ faults' = IF closed THEN faults ELSE faults + 1
    /\ requestLock' = NoThread /\ Goto(t, "failed")
    /\ UNCHANGED <<op, reply, view, pulse, closing, closed, calls, seen>>

\* _mark_disconnected.
MarkDisconnected == latched' = TRUE /\ shown' = "DISCONNECTED" /\ seen' = {}

\* _request marks the fault and raises; heartbeat() marks it once more.
Failed(t) ==
    /\ pc[t] = "failed" /\ MarkDisconnected
    /\ IF t \in Beats THEN Goto(t, "rejected") /\ UNCHANGED <<op, reply>> ELSE Rest(t, "idle")
    /\ UNCHANGED <<link, pulse, closing, closed, count>>

\* What a caller does with an answer.
Store(c) ==
    /\ pc[c] = "answered" /\ op[c] \in Calls \ {"health", "reconnect"}
    /\ Rest(c, "idle") /\ shown' = reply[c]
    /\ latched' = (latched \/ reply[c] \in Down)
    /\ seen' = IF reply[c] \in Down THEN {} ELSE seen
    /\ UNCHANGED <<link, pulse, closing, closed, count>>

Healthy(c) ==
    /\ pc[c] = "answered" /\ op[c] = "health" /\ Rest(c, "idle")
    /\ UNCHANGED <<link, view, pulse, closing, closed, count, seen>>

\* reconnect(): a state that does not move clears the latch ...
Reconnected(c) ==
    /\ pc[c] = "answered" /\ op[c] = "reconnect" /\ reply[c] \notin {"ERROR", "PATROLLING"}
    /\ shown' = reply[c] /\ latched' = FALSE /\ Rest(c, "restart")
    /\ seen' = seen \ {c}
    /\ UNCHANGED <<link, pulse, closing, closed, count>>

\* ... any other is a fault ...
NotReconnected(c) ==
    /\ pc[c] = "answered" /\ op[c] = "reconnect" /\ reply[c] \in {"ERROR", "PATROLLING"}
    /\ MarkDisconnected /\ Rest(c, "idle")
    /\ UNCHANGED <<link, pulse, closing, closed, count>>

\* ... and a heartbeat that has ended is started again.
Restart(c) ==
    /\ pc[c] = "restart"
    /\ Goto(c, IF enabled /\ beat = NoThread THEN "start" ELSE "idle")
    /\ UNCHANGED <<link, op, reply, view, pulse, closing, closed, count, seen>>

(***************************************************************************)
(* The heartbeat.                                                          *)
(***************************************************************************)

\* Mutant: the worker is not looked at before another is started.
StartHeartbeatBlind(t, label) ==
    /\ pc[t] = "start" /\ enabled' = TRUE /\ stopBeats' = FALSE
    /\ \E b \in Beats : /\ pc[b] = "unborn" /\ beat' = b
                        /\ pc' = [pc EXCEPT ![t] = label, ![b] = "wait"]
    /\ UNCHANGED <<link, op, reply, view, closing, closed, count, seen>>

\* start_heartbeat, after which t goes to label: it does nothing beside a worker.
StartHeartbeat(t, label) ==
    /\ pc[t] = "start" /\ enabled' = TRUE
    /\ \/ beat # NoThread /\ Goto(t, label) /\ UNCHANGED <<beat, stopBeats>>
       \/ /\ beat = NoThread /\ stopBeats' = FALSE
          /\ \E b \in Beats : /\ pc[b] = "unborn" /\ beat' = b
                              /\ pc' = [pc EXCEPT ![t] = label, ![b] = "wait"]
    /\ UNCHANGED <<link, op, reply, view, closing, closed, count, seen>>

Restarted(c) == StartHeartbeat(c, "idle")
StartNext(b) == StartHeartbeat(b, "unborn")

Beat(b) ==
    /\ pc[b] = "wait"
    /\ Goto(b, IF stopBeats THEN "ending" ELSE "lock")
    /\ op' = [op EXCEPT ![b] = IF stopBeats THEN "none" ELSE "heartbeat"]
    /\ UNCHANGED <<link, reply, view, pulse, closing, closed, count, seen>>

Beaten(b) ==
    /\ pc[b] = "answered" /\ Rest(b, "wait")
    /\ UNCHANGED <<link, view, pulse, closing, closed, count, seen>>

\* The second mark, or the first of an answer that is not ok; the loop returns.
Rejected(b) ==
    /\ \/ pc[b] = "rejected" /\ UNCHANGED faults
       \/ pc[b] = "answered" /\ faults < MaxFaults /\ faults' = faults + 1
    /\ MarkDisconnected /\ Rest(b, "ending")
    /\ UNCHANGED <<link, pulse, closing, closed, calls>>

\* Mutant: a loop that returns stays registered.
EndingKeepsHandle(b) ==
    /\ pc[b] = "ending"
    /\ Goto(b, IF enabled /\ ~latched THEN "start" ELSE "unborn")
    /\ UNCHANGED <<link, op, reply, view, beat, enabled, stopBeats, closing, closed, count, seen>>

\* The loop's finally: a reconnect may already have cleared the latch.
Ending(b) ==
    /\ pc[b] = "ending"
    /\ beat' = IF beat = b THEN NoThread ELSE beat
    /\ Goto(b, IF enabled /\ ~latched THEN "start" ELSE "unborn")
    /\ UNCHANGED <<link, op, reply, view, enabled, stopBeats, closing, closed, count, seen>>

(***************************************************************************)
(* close(): no more heartbeats, then the transport is closed.  The join    *)
(* in between may time out.                                                *)
(***************************************************************************)

Close ==
    /\ ~closing /\ closing' = TRUE
    /\ beat' = NoThread /\ enabled' = FALSE /\ stopBeats' = TRUE
    /\ UNCHANGED <<link, thread, view, closed, count, seen>>

CloseTransport ==
    /\ closing /\ ~closed /\ closed' = TRUE
    /\ UNCHANGED <<link, thread, view, pulse, closing, count, seen>>

Caller(c) == \/ TakeLock(c) \/ Answer(c) \/ Fail(c) \/ Failed(c) \/ Store(c) \/ Healthy(c)
             \/ Reconnected(c) \/ NotReconnected(c) \/ Restart(c) \/ Restarted(c)
Heartbeat(b) == \/ Beat(b) \/ TakeLock(b) \/ Answer(b) \/ Fail(b) \/ Failed(b)
                \/ Beaten(b) \/ Rejected(b) \/ Ending(b) \/ StartNext(b)

Next ==
    \/ BridgeActs
    \/ \E c \in Callers : Caller(c) \/ \E o \in Calls : Call(c, o)
    \/ \E b \in Beats : Heartbeat(b)
    \/ Close \/ CloseTransport

Spec == Init /\ [][Next]_vars

\* Every thread that can run does, and the transport answers or fails in time.  Each
\* holder of _request_lock gives it back, and the heartbeat sleeps before it asks
\* again, so a thread that waits for the lock gets it.
Fairness == /\ \A c \in Callers : WF_vars(Caller(c))
            /\ \A b \in Beats : WF_vars(Heartbeat(b))
            /\ \A t \in Threads : SF_vars(TakeLock(t))

FairSpec == Spec /\ Fairness

(***************************************************************************)
(* Properties.                                                             *)
(***************************************************************************)

\* Every variable has its type.
ThreadTypes ==
    /\ pc \in [Threads -> {"idle", "lock", "sent", "answered", "failed", "restart", "start",
                           "unborn", "wait", "rejected", "ending"}]
    /\ op \in [Threads -> Calls \cup {"none", "heartbeat"}]
    /\ reply \in [Threads -> {"none", "PATROLLING", "PAUSED", "STOPPED", "ERROR"}]
StateTypes ==
    /\ bridge \in {"PATROLLING", "PAUSED", "STOPPED", "ERROR"}
    /\ shown \in {"unread", "PATROLLING", "PAUSED", "STOPPED", "ERROR", "DISCONNECTED"}
    /\ requestLock \in Threads \cup {NoThread}
    /\ beat \in Beats \cup {NoThread} /\ seen \subseteq Callers
FlagTypes ==
    /\ latched \in BOOLEAN /\ enabled \in BOOLEAN /\ stopBeats \in BOOLEAN
    /\ closing \in BOOLEAN /\ closed \in BOOLEAN
TypeOK ==
    /\ ThreadTypes /\ StateTypes /\ FlagTypes
    /\ calls \in 0..MaxCalls /\ faults \in 0..MaxFaults

\* A fault that the adapter shows inhibits movement, whichever thread met it and
\* whatever older answers are stored after it.
ShownFaultIsLatched == shown \in Down => latched

\* While movement is not inhibited there is a heartbeat, or a thread on its way to
\* start one: a reconnect that finds the old one still ending leaves the restart to
\* it, and one that finds none does it itself.
HeartbeatCovers ==
    enabled /\ ~latched =>
        \/ beat # NoThread
        \/ \E t \in Threads : pc[t] = "start"
        \/ \E c \in Callers : pc[c] = "restart"

\* Until close() begins no two heartbeat loops run side by side.
OneHeartbeat ==
    ~closing => Cardinality({b \in Beats : pc[b] \in {"wait", "lock", "sent", "answered"}}) <= 1

\* "Latches movement inhibition": the bridge does not start to move on a request of
\* an adapter that is latched.
NoMovementWhileLatched ==
    [][bridge' = "PATROLLING" /\ bridge # "PATROLLING" => ~latched]_vars

\* "fault -> explicit reconnect in a connected non-moving state": the latch of a fault
\* is cleared only by a reconnect whose answer came after that fault.
FaultNeedsReconnect ==
    [][latched /\ ~latched' => \E c \in seen : pc[c] = "answered"]_vars

\* The heartbeat goes on, over restarts, until a fault latches or close() ends it.
KeepsBeating ==
    ~latched /\ ~closing ~> latched \/ closing \/ \E b \in Beats : pc[b] = "sent"

\* Well typed, no fault unlatched, and one heartbeat, no more and no fewer.
AdapterInv == TypeOK /\ ShownFaultIsLatched /\ HeartbeatCovers /\ OneHeartbeat

===============================================================================
