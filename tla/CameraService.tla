------------------------------ MODULE CameraService ------------------------------
(***************************************************************************)
(* backend/app/services/camera_service.py with stream_health.py: one RTSP  *)
(* stream read by asyncio tasks, its buffer of frames, its reconnects and  *)
(* the health state shown for it.                                          *)
(*                                                                         *)
(* start creates three tasks: the ingest loop opens the capture, reads     *)
(* frames and waits between attempts; the dispatch loop hands frames to    *)
(* the subscribers; the health loop looks at the frame rate every five     *)
(* seconds.  stop cancels the tasks start made last.  Callers do not call  *)
(* start and stop at the same time.  Nothing else limits the number of     *)
(* ingest loops, so each start gets a loop of its own here.                *)
(***************************************************************************)
EXTENDS Integers, Sequences

CONSTANTS
    MaxStarts,     \* bound on the calls of start; each may make one ingest loop
    BufferSize,    \* buffer_size of the frame queue
    Policies,      \* the max_attempts a service may be made with, 0 for no limit
    MaxDelay,      \* ReconnectPolicy.max_delay
    MaxFailures,   \* read failures in a row that end the read loop (10 in the code)
    GraceChecks,   \* slow health checks that make up the grace period (3: 0, 5, 10 s)
    MaxFrames,     \* bound on the frames read
    MaxOutages     \* bound on the changes of the stream's reachability

ASSUME BoundAssumption ==
    /\ {BufferSize, MaxFailures, GraceChecks, MaxDelay} \subseteq Nat \ {0}
    /\ {MaxStarts, MaxFrames, MaxOutages} \subseteq Nat /\ Policies \subseteq Nat

VARIABLES
    state,          \* StreamHealthMonitor._state
    degraded,       \* slow checks in a row so far (_degraded_since, 0 for None)
    fps_low,        \* avg_fps < 60 % of target_fps
    running,        \* CameraService._running
    stop_event,     \* CameraService._stop_event
    loops,          \* where each ingest loop stands
    task,           \* the ingest loop among CameraService._tasks
    capture,        \* whether _capture is open
    failures,       \* consecutive_failures of each loop
    max_attempts, attempt, delay, \* ReconnectPolicy
    queue,          \* frames waiting for dispatch, by number
    dispatched,     \* number of the last frame handed to the subscribers
    frames, up, outages

serviceVars == <<state, degraded, fps_low, running, stop_event, loops, task, capture, failures,
                 max_attempts, attempt, delay, queue, dispatched, frames, up, outages>>

Loops == 1 .. MaxStarts
NoTask == 0

\* Where an ingest loop may stand.
Places == {"none", "begin", "open", "read", "lost", "retry", "waiting", "done"}

-----------------------------------------------------------------------------
(* The health state machine.                                               *)

VALID_TRANSITIONS ==
    [initializing |-> {"connecting", "error"},
     connecting   |-> {"active", "error", "reconnecting"},
     active       |-> {"degraded", "error", "disconnected", "reconnecting"},
     degraded     |-> {"active", "error", "reconnecting", "disconnected"},
     error        |-> {"reconnecting", "disconnected"},
     reconnecting |-> {"connecting", "error", "disconnected"},
     disconnected |-> {"connecting"}]

StreamState == DOMAIN VALID_TRANSITIONS

\* transition: a change that is not in the table is ignored.
Transition(from, to) == IF to \in VALID_TRANSITIONS[from] THEN to ELSE from

-----------------------------------------------------------------------------
InitService ==
    /\ state = "initializing" /\ degraded = 0 /\ fps_low = TRUE
    /\ running = FALSE /\ stop_event = FALSE
    /\ loops = [l \in Loops |-> "none"]
    /\ task = NoTask
    /\ capture = FALSE
    /\ failures = [l \in Loops |-> 0]
    /\ max_attempts \in Policies /\ attempt = 0 /\ delay = 1
    /\ queue = <<>> /\ dispatched = 0 /\ frames = 0
    /\ up \in BOOLEAN /\ outages = 0

Health == <<state, degraded, fps_low>>
Lifecycle == <<running, stop_event, task>>
Policy == <<max_attempts, attempt, delay>>
Buffer == <<queue, dispatched, frames>>
Stream == <<up, outages>>

Goto(l, where) == loops' = [loops EXCEPT ![l] = where]

\* Mutant: the stop event of an earlier stop stays set.
StartWithoutClear ==
    /\ ~running
    /\ \E l \in Loops :
        /\ loops[l] = "none" /\ \A k \in Loops : k < l => loops[k] # "none"
        /\ Goto(l, "begin")
        /\ task' = l
    /\ running' = TRUE
    /\ state' = Transition(state, "connecting")
    /\ UNCHANGED <<degraded, fps_low, stop_event, capture, failures, Policy, Buffer, Stream>>

\* start: ignored while running, else a new set of tasks.
Start ==
    /\ ~running
    /\ \E l \in Loops :
        /\ loops[l] = "none" /\ \A k \in Loops : k < l => loops[k] # "none"
        /\ Goto(l, "begin")
        /\ task' = l
    /\ running' = TRUE /\ stop_event' = FALSE
    /\ state' = Transition(state, "connecting")
    /\ UNCHANGED <<degraded, fps_low, capture, failures, Policy, Buffer, Stream>>

\* stop: ignored unless running; cancels and awaits the tasks, closes the
\* capture.  A frame a cancelled dispatch held is gone; the buffer stays.
Stop ==
    /\ running
    /\ running' = FALSE /\ stop_event' = TRUE
    /\ loops' = [loops EXCEPT ![task] = "done"]
    /\ task' = NoTask
    /\ capture' = FALSE
    /\ state' = Transition(state, "disconnected")
    /\ UNCHANGED <<degraded, fps_low, failures, Policy, Buffer, Stream>>

-----------------------------------------------------------------------------
(* The ingest loop.                                                        *)

Begin(l) ==
    /\ loops[l] = "begin"
    /\ Goto(l, "open")
    /\ attempt' = 0 /\ delay' = 1
    /\ UNCHANGED <<Health, Lifecycle, capture, failures, max_attempts, Buffer, Stream>>

\* The while condition, at the head of either loop.
LeaveLoop(l) ==
    /\ stop_event
    /\ \/ loops[l] = "open" /\ Goto(l, "done")
       \/ loops[l] = "read" /\ Goto(l, "lost")
    /\ UNCHANGED <<Health, Lifecycle, capture, failures, Policy, Buffer, Stream>>

OpenSucceeds(l) ==
    /\ loops[l] = "open" /\ ~stop_event /\ up
    /\ Goto(l, "read")
    /\ capture' = TRUE
    /\ state' = Transition(state, "active")
    /\ degraded' = 0 /\ fps_low' = TRUE
    /\ failures' = [failures EXCEPT ![l] = 0]
    /\ attempt' = 0 /\ delay' = 1
    /\ UNCHANGED <<Lifecycle, max_attempts, Buffer, Stream>>

OpenFails(l) ==
    /\ loops[l] = "open" /\ ~stop_event /\ ~up
    /\ Goto(l, "retry")
    /\ state' = Transition(state, "reconnecting")
    /\ UNCHANGED <<degraded, fps_low, Lifecycle, capture, failures, Policy, Buffer, Stream>>

\* Mutant: a full buffer refuses the new frame instead of the oldest.
DropNewest(q, frame) == IF Len(q) = BufferSize THEN q ELSE Append(q, frame)

\* A full buffer loses its oldest frame.
Push(q, frame) ==
    IF Len(q) = BufferSize THEN Append(Tail(q), frame) ELSE Append(q, frame)

\* One good frame; the rate it brings about is the environment's choice.
ReadFrame(l) ==
    /\ loops[l] = "read" /\ ~stop_event /\ capture /\ up /\ frames < MaxFrames
    /\ failures' = [failures EXCEPT ![l] = 0]
    /\ fps_low' \in BOOLEAN
    /\ degraded' = IF fps_low' THEN degraded ELSE 0
    /\ frames' = frames + 1
    /\ queue' = Push(queue, frames + 1)
    /\ UNCHANGED <<state, Lifecycle, loops, capture, Policy, dispatched, Stream>>

\* The tenth failure in a row leaves the read loop, closing the capture.
ReadFails(l) ==
    /\ loops[l] = "read" /\ ~stop_event /\ (~capture \/ ~up)
    /\ IF failures[l] + 1 >= MaxFailures
       THEN Goto(l, "lost") /\ UNCHANGED failures
       ELSE /\ failures' = [failures EXCEPT ![l] = @ + 1]
            /\ UNCHANGED loops
    /\ UNCHANGED <<Health, Lifecycle, capture, Policy, Buffer, Stream>>

\* After the read loop; a service that gave up before goes straight back.
StreamLost(l) ==
    /\ loops[l] = "lost"
    /\ capture' = FALSE
    /\ IF running
       THEN Goto(l, "retry") /\ state' = Transition(state, "reconnecting")
       ELSE Goto(l, "open") /\ UNCHANGED state
    /\ UNCHANGED <<degraded, fps_low, Lifecycle, failures, Policy, Buffer, Stream>>

\* Mutant: 0 is taken for a limit like any other.
RetryBelowLimit == attempt < max_attempts

ShouldRetry == max_attempts = 0 \/ attempt < max_attempts

\* _wait_for_reconnect: the delay before the next attempt, or giving up, which
\* marks the service as not running but does not end the loop.  Attempts are
\* counted here only where there is a limit on them.
WaitForReconnect(l) ==
    /\ loops[l] = "retry"
    /\ IF ShouldRetry
       THEN /\ Goto(l, "waiting")
            /\ attempt' = IF max_attempts = 0 THEN attempt ELSE attempt + 1
            /\ delay' = IF 2 * delay < MaxDelay THEN 2 * delay ELSE MaxDelay
            /\ UNCHANGED <<state, running, max_attempts>>
       ELSE /\ Goto(l, "open")
            /\ state' = Transition(state, "error")
            /\ running' = FALSE
            /\ UNCHANGED Policy
    /\ UNCHANGED <<degraded, fps_low, stop_event, task, capture, failures, Buffer, Stream>>

Wake(l) ==
    /\ loops[l] = "waiting"
    /\ Goto(l, "open")
    /\ UNCHANGED <<Health, Lifecycle, capture, failures, Policy, Buffer, Stream>>

Ingest(l) ==
    \/ Begin(l) \/ LeaveLoop(l) \/ OpenSucceeds(l) \/ OpenFails(l) \/ ReadFrame(l)
    \/ ReadFails(l) \/ StreamLost(l) \/ WaitForReconnect(l) \/ Wake(l)

-----------------------------------------------------------------------------
(* The two other loops and the environment.                                *)

\* Tasks of one start live as long as stop_event is clear or until cancelled.
TasksLive == ~stop_event /\ task # NoTask

Dispatch ==
    /\ TasksLive /\ queue # <<>>
    /\ dispatched' = Head(queue)
    /\ queue' = Tail(queue)
    /\ UNCHANGED <<Health, Lifecycle, loops, capture, failures, Policy, frames, Stream>>

\* check_degradation: it returns at once unless the state is active, so that
\* its branch back from degraded is never reached.
CheckDegradation ==
    /\ TasksLive
    /\ state = "active" /\ fps_low
    /\ IF degraded + 1 < GraceChecks
       THEN degraded' = degraded + 1 /\ UNCHANGED state
       ELSE state' = Transition(state, "degraded") /\ UNCHANGED degraded
    /\ UNCHANGED <<fps_low, Lifecycle, loops, capture, failures, Policy, Buffer, Stream>>

StreamChanges ==
    /\ outages < MaxOutages /\ outages' = outages + 1
    /\ up' = ~up
    /\ UNCHANGED <<Health, Lifecycle, loops, capture, failures, Policy, Buffer>>

NextService ==
    \/ Start \/ Stop
    \/ \E l \in Loops : Ingest(l)
    \/ Dispatch \/ CheckDegradation \/ StreamChanges

Fairness ==
    /\ \A l \in Loops : WF_serviceVars(Ingest(l))
    /\ WF_serviceVars(Dispatch) /\ WF_serviceVars(CheckDegradation)

ServiceSpec == InitService /\ [][NextService]_serviceVars /\ Fairness
-----------------------------------------------------------------------------
(* Properties.                                                             *)

\* Types of all variables, with the bounds of the buffer and of the back-off.
ServiceTypeOK ==
    /\ state \in StreamState /\ degraded \in 0 .. GraceChecks /\ fps_low \in BOOLEAN
    /\ running \in BOOLEAN /\ stop_event \in BOOLEAN /\ task \in Loops \cup {NoTask}
    /\ loops \in [Loops -> Places]
    /\ capture \in BOOLEAN /\ up \in BOOLEAN
    /\ failures \in [Loops -> 0 .. MaxFailures - 1]
    /\ max_attempts \in Policies /\ attempt \in 0 .. max_attempts /\ delay \in 1 .. MaxDelay
    /\ queue \in Seq(1 .. MaxFrames) /\ Len(queue) <= BufferSize
    /\ dispatched \in 0 .. MaxFrames /\ frames \in 0 .. MaxFrames
    /\ outages \in 0 .. MaxOutages

Left == capture \/ \E l \in Loops : loops[l] \notin {"none", "done"}

\* With the default policy a service that says it is not running has no ingest
\* loop left and holds no open capture: otherwise stop does nothing about them
\* (it returns at once) and the next start puts a second loop on the capture.
NotRunningIsStopped == max_attempts = 0 /\ ~running => ~Left

\* The buffer holds the newest frames without a gap, oldest first, and the
\* subscribers are only ever given newer ones than they have seen: a full
\* buffer loses its oldest frame, across stops, restarts and reconnects.
FreshestFrames ==
    /\ \A i \in 1 .. Len(queue) : queue[i] = frames - Len(queue) + i
    /\ queue # <<>> => dispatched < Head(queue)

\* With the default policy a service left running on a stream that stays
\* readable reads it in the end, whatever stops, starts and outages came before.
\* (With a limit, a second loop may close the capture of the first for ever.)
ReadsInTheEnd ==
    <>[](running /\ up /\ max_attempts = 0) => <>[](\E l \in Loops : loops[l] = "read")

=============================================================================
