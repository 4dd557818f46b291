------------------------------ MODULE LidarRelay ------------------------------
(***************************************************************************)
(* What the patrol sees of the LiDAR.  On the robot's PC LidarGuard        *)
(* debounces the scans of one direction and the relay sends a snapshot     *)
(* every 0.1 s; the network loses, delays, reorders and duplicates the     *)
(* datagrams; on the patrol's PC UdpRelayGuard keeps the last one received *)
(* and answers from it.                                                    *)
(*                                                                         *)
(* Time counts in periods of the relay.  The directions do not influence   *)
(* each other; the module follows one of them.                             *)
(***************************************************************************)
EXTENDS Integers, FiniteSets

CONSTANTS StaleAfter,    \* stale_after_s and stale_timeout_s
          ClearHold,     \* clear_hold_s
          BlockConfirm,  \* block_confirm_s
          MaxDelay,      \* bound: periods a datagram is under way
          MaxInFlight    \* bound: datagrams under way at a time

ASSUME LidarAssumption ==
    /\ StaleAfter \in Nat /\ ClearHold \in Nat \ {0} /\ BlockConfirm \in Nat \ {0}
    /\ MaxDelay \in Nat /\ MaxInFlight \in Nat

VARIABLES blocked, blockingAge, clearAge,  \* _blocked; time since _blocking_since, _clear_since
          scanAge, error,                  \* time since _last_scan_at; _error
          snap,                            \* the snapshots begun: none, or the first half of one
          net,                             \* the datagrams under way, with their delay
          last, relayAge,                  \* _last; time since _received_at
          sinceObstacle,                   \* history: time since a scan with an obstacle
          sinceClear                       \* history: time since the guard said CLEAR

guard    == <<blocked, blockingAge, clearAge, scanAge, error>>
receiver == <<last, relayAge>>
history  == <<sinceObstacle, sinceClear>>
vars     == <<guard, snap, net, receiver, history>>

None == -1
States == {"CLEAR", "CONFIRMING", "BLOCKED", "STALE"}
Halves == [scanAge : -1..StaleAfter + 1, ready : BOOLEAN]
\* basis is history: the age of the scan the state rests on, which may be a later one.
Messages == [state : States, scanAge : -1..StaleAfter + 1, ready : BOOLEAN,
             basis : -1..StaleAfter + 1, delay : 0..MaxDelay]
NoMessage == [state |-> "STALE", scanAge |-> None, ready |-> FALSE, basis |-> None, delay |-> 0]

\* An age past its bound tells no more than the bound does.
Older(age, bound) == IF age = None THEN None ELSE IF age < bound THEN age + 1 ELSE bound

\* The longest time for which a CLEAR can go on being shown.
Horizon == StaleAfter + MaxDelay

Init ==
    /\ blocked = TRUE /\ blockingAge = None /\ clearAge = None
    /\ scanAge = None /\ error = TRUE
    /\ snap = {} /\ net = {}
    /\ last = NoMessage /\ relayAge = None
    /\ sinceObstacle = ClearHold /\ sinceClear = Horizon + 1

(***************************************************************************)
(* LidarGuard                                                              *)
(***************************************************************************)

GuardState ==
    IF error \/ scanAge = None \/ scanAge > StaleAfter THEN "STALE"
    ELSE IF blocked THEN "BLOCKED"
    ELSE IF blockingAge # None THEN "CONFIRMING" ELSE "CLEAR"

Watch == sinceClear' = IF GuardState' = "CLEAR" THEN 0 ELSE sinceClear

\* Mutant: an obstacle does not end the time without one.
ObstacleKeepsClear ==
    /\ blockingAge' = IF blockingAge = None THEN 0 ELSE blockingAge
    /\ blocked' = (blocked \/ (blockingAge # None /\ blockingAge >= BlockConfirm))
    /\ UNCHANGED clearAge

\* Five points in the stop zone of one scan and of one confirm_s later block.
Obstacle ==
    /\ clearAge' = None
    /\ blockingAge' = IF blockingAge = None THEN 0 ELSE blockingAge
    /\ blocked' = (blocked \/ (blockingAge # None /\ blockingAge >= BlockConfirm))

\* A blocked direction clears after clear_hold_s without an obstacle.
NoObstacle ==
    /\ blockingAge' = None
    /\ IF blocked
       THEN /\ clearAge' = IF clearAge = None THEN 0 ELSE clearAge
            /\ blocked' = (clearAge = None \/ clearAge < ClearHold)
       ELSE clearAge' = 0 /\ UNCHANGED blocked

\* A scan counts for the debounce also when it has too few points to be valid.
Scan(obstacle, enough) ==
    /\ IF obstacle THEN Obstacle ELSE NoObstacle
    /\ scanAge' = 0 /\ error' = ~enough
    /\ sinceObstacle' = IF obstacle THEN 0 ELSE sinceObstacle
    /\ Watch
    /\ UNCHANGED <<snap, net, receiver>>

\* A cloud that cannot be decoded.
BadScan ==
    /\ error' = TRUE
    /\ UNCHANGED <<blocked, blockingAge, clearAge, scanAge, snap, net, receiver, sinceObstacle>>
    /\ Watch

(***************************************************************************)
(* The relay: the age and the health of the sensor and the states are read *)
(* one after the other, and a scan may come in between.                    *)
(***************************************************************************)

Snapshot ==
    /\ snap = {} /\ Cardinality(net) < MaxInFlight
    /\ \E rateInRange \in BOOLEAN :
        snap' = {[scanAge |-> scanAge,
                  ready |-> scanAge # None /\ scanAge <= StaleAfter /\ ~error /\ rateInRange]}
    /\ UNCHANGED <<guard, net, receiver, history>>

Send ==
    /\ \E h \in snap :
        net' = net \cup {[state |-> GuardState, scanAge |-> h.scanAge, ready |-> h.ready,
                          basis |-> scanAge, delay |-> 0]}
    /\ snap' = {}
    /\ UNCHANGED <<guard, receiver, history>>

Lose(m) == net' = net \ {m} /\ UNCHANGED <<guard, snap, receiver, history>>

(***************************************************************************)
(* UdpRelayGuard                                                           *)
(***************************************************************************)

\* The number and the time stamp of a message are not looked at: the last one received
\* counts.  It may be received once more.  A receiver whose thread has died shows what one
\* shows that loses everything.
Receive(m, again) ==
    /\ last' = m /\ relayAge' = 0
    /\ net' = IF again THEN net ELSE net \ {m}
    /\ UNCHANGED <<guard, snap, history>>

\* Mutant: the time since the reception does not count.
ShownForEver ==
    IF relayAge = None \/ last.scanAge = None \/ last.scanAge > StaleAfter \/ ~last.ready
    THEN "STALE" ELSE IF last.state \in {"CLEAR", "CONFIRMING"} THEN last.state ELSE "BLOCKED"

\* state(): what is neither CLEAR nor CONFIRMING is BLOCKED.
Shown ==
    IF \/ relayAge = None \/ relayAge > StaleAfter
       \/ last.scanAge = None \/ last.scanAge > StaleAfter \/ ~last.ready
    THEN "STALE" ELSE IF last.state \in {"CLEAR", "CONFIRMING"} THEN last.state ELSE "BLOCKED"

\* A period passes; a datagram that has been long enough under way is not left there, and
\* the relay completes a snapshot within the period.
Tick ==
    /\ snap = {} /\ \A m \in net : m.delay < MaxDelay
    /\ net' = {[m EXCEPT !.delay = @ + 1] : m \in net}
    /\ blockingAge' = Older(blockingAge, BlockConfirm)
    /\ clearAge' = Older(clearAge, ClearHold)
    /\ scanAge' = Older(scanAge, StaleAfter + 1)
    /\ relayAge' = Older(relayAge, StaleAfter + 1)
    /\ sinceObstacle' = Older(sinceObstacle, ClearHold)
    /\ UNCHANGED <<blocked, error, snap, last>>
    /\ sinceClear' = IF GuardState' = "CLEAR" THEN 0 ELSE Older(sinceClear, Horizon + 1)

Next == \/ Tick \/ Snapshot \/ Send \/ BadScan
        \/ \E obstacle, enough \in BOOLEAN : Scan(obstacle, enough)
        \/ \E m \in net : Lose(m) \/ \E again \in BOOLEAN : Receive(m, again)

Spec == Init /\ [][Next]_vars

(***************************************************************************)
(* Properties.                                                             *)
(***************************************************************************)

\* Every variable has its type, and a direction opens only once its debounce has begun.
TypeOK ==
    /\ blocked \in BOOLEAN /\ error \in BOOLEAN
    /\ blockingAge \in -1..BlockConfirm /\ clearAge \in -1..ClearHold
    /\ scanAge \in -1..StaleAfter + 1 /\ relayAge \in -1..StaleAfter + 1
    /\ snap \subseteq Halves /\ net \subseteq Messages /\ last \in Messages
    /\ sinceObstacle \in 0..ClearHold /\ sinceClear \in 0..Horizon + 1
    /\ ~blocked => blockingAge # None \/ clearAge # None

\* The debounce holds against the scans themselves: a direction that was blocked opens only
\* after clear_hold_s without a single scan that shows an obstacle.
OpensAfterHold == [][blocked /\ ~blocked' => sinceObstacle = ClearHold]_vars

\* However datagrams are lost, late, reordered or repeated, CLEAR is not shown for
\* longer than the receiver's timeout and one delay after the guard has stopped saying CLEAR.
ClearIsRecent == Shown = "CLEAR" => sinceClear <= Horizon

\* A LiDAR that is stale stops the patrol (patrol/README.md:20-21): nothing is shown CLEAR
\* on a scan older than the timeout of 0.5 s.
ClearOnFreshScan == Shown = "CLEAR" => last.basis + last.delay + relayAge <= StaleAfter
=============================================================================
