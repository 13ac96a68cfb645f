----------------------------- MODULE CameraPipeline -----------------------------
(***************************************************************************)
(* The control side of apps/backend/services/cv_pipeline: which capture    *)
(* process runs for which camera, and how the states the processes report  *)
(* travel to the camera's row in SQLite.                                   *)
(*                                                                         *)
(* Three kinds of actor meet here.  HTTP requests (routers/cameras.py) are *)
(* coroutines: each reads the row, flushes its UPDATE (from then until its *)
(* commit it holds SQLite's write lock), and calls the engine manager.     *)
(* remove_camera joins the process for up to two seconds inside the event  *)
(* loop, so no coroutine runs meanwhile.  Capture processes run on their   *)
(* own and report states through event_queue, a bounded queue that drops   *)
(* what does not fit; the bridge moves each event to an unbounded asyncio  *)
(* queue, and EventEngine writes one status per event.                     *)
(*                                                                         *)
(* The shared frame queue is one slot here, the latest frame's camera.     *)
(* Detection events carry no state and matter only for the room they take  *)
(* in event_queue.                                                         *)
(***************************************************************************)
EXTENDS Integers, Sequences, FiniteSets

CONSTANTS
    Cameras,     \* ids a camera row may get; an id is never used twice
    NoCamera,    \* the empty frame queue
    Requests,    \* requests the server handles at the same time
    NoRequest,   \* a request slot that is free
    Kinds,       \* the kinds of request the clients send
    QueueSize,   \* capacity of event_queue (1000 in the code)
    MaxDelay,    \* _max_delay of the back-off in seconds (30 in the code)
    CommitsFail, \* whether the commit at the end of a request may fail
    MaxBacklog,  \* bound on the unbounded asyncio queue
    MaxRequests, \* bound on the requests handled in all
    MaxOutages,  \* bound on the changes of a stream's reachability
    MaxFaults    \* bound on failed commits and inferences, dying processes, restarts

AllKinds == {"create", "enable", "disable", "restart", "delete", "patch"}

ASSUME KindAssumption == Kinds \subseteq AllKinds
ASSUME NameAssumption == NoCamera \notin Cameras
ASSUME BoundAssumption ==
    /\ QueueSize \in Nat \ {0} /\ MaxDelay \in Nat \ {0} /\ CommitsFail \in BOOLEAN
    /\ {MaxBacklog, MaxRequests, MaxOutages, MaxFaults} \subseteq Nat

VARIABLES
    rows,            \* table cameras
    requests,        \* requests in flight
    capture_workers, \* EngineManager.capture_workers: the slot of a camera's process
    processes,       \* capture processes, two slots for each camera
    camera_states,   \* EngineManager.camera_states
    frame_queue,     \* camera of the frame waiting for inference
    event_queue,     \* multiprocessing queue of events
    async_queue,     \* EngineManager._async_event_queue
    up,              \* cameras whose stream can be read
    sent, outages, faults

vars == <<rows, requests, capture_workers, processes, camera_states, frame_queue,
          event_queue, async_queue, up, sent, outages, faults>>

-----------------------------------------------------------------------------
(* Data.                                                                   *)

\* The states a worker may report; EventEngine stores one status for each.
Connecting == {"CONNECTING", "AUTHENTICATING", "STREAM STARTING"}
Streaming == {"CONNECTED", "INFERENCE RUNNING"}
Failing == {"MEDIA SERVER OFFLINE", "STREAM OFFLINE", "CAMERA OFFLINE", "DECODER ERROR"}
WorkerStates == Connecting \cup Streaming \cup Failing

\* Mutant: the mapping was not told of INFERENCE RUNNING.
OldDbStatus(state) ==
    CASE state \in Connecting -> "connecting"
      [] state = "CONNECTED"  -> "active"
      [] state \in Failing    -> "error"
      [] OTHER                -> "inactive"

DbStatus(state) ==
    CASE state \in Connecting -> "connecting"
      [] state \in Streaming  -> "active"
      [] state \in Failing    -> "error"

\* A row is unused until its camera is created and deleted for good.
Row == [present : {"never", "yes", "deleted"}, is_enabled : BOOLEAN,
        status : {"active", "inactive", "error", "connecting"}]
AbsentRow(present) == [present |-> present, is_enabled |-> FALSE, status |-> "inactive"]

Slots == {1, 2}
NoSlot == 0

\* seen is the row as loaded at the start of the request; value is the
\* is_enabled of a create or patch; a removal joins the process in slot.
Request == [kind : AllKinds, camera : Cameras, value : BOOLEAN, seen : Row,
            phase : {"loaded", "flushed", "joining", "removed"}, slot : {NoSlot} \cup Slots]
ASSUME NoRequestAssumption == NoRequest \notin Request

Delays == 1 .. MaxDelay

\* A capture process: where it is, _running, _reconnect_delay and whether a
\* frame was read on the present connection (_frames_read > 0).
CaptureWorker == [stage : {"dead", "starting", "connect", "opening", "reading", "sleeping"},
                  running : BOOLEAN, delay : Delays, frames_read : BOOLEAN]
DeadWorker == [stage |-> "dead", running |-> FALSE, delay |-> 1, frames_read |-> FALSE]
NewWorker == [DeadWorker EXCEPT !.stage = "starting"]

Event == [camera : Cameras, state : WorkerStates \cup {"detections"}]

\* put_nowait inside try/except: an event that finds the queue full is lost.
Emit(queue, c, state) ==
    IF Len(queue) < QueueSize THEN Append(queue, [camera |-> c, state |-> state]) ELSE queue

-----------------------------------------------------------------------------
Init ==
    /\ rows = [c \in Cameras |-> AbsentRow("never")]
    /\ requests = [r \in Requests |-> NoRequest]
    /\ capture_workers = [c \in Cameras |-> NoSlot]
    /\ processes = [c \in Cameras |-> [s \in Slots |-> DeadWorker]]
    /\ camera_states = [c \in Cameras |-> "UNKNOWN"]
    /\ frame_queue = NoCamera
    /\ event_queue = <<>>
    /\ async_queue = <<>>
    /\ up \in SUBSET Cameras
    /\ sent = 0 /\ outages = 0 /\ faults = 0

InPhase(r, phases) == requests[r] # NoRequest /\ requests[r].phase \in phases

\* A request holds SQLite's write lock from its flush to its commit.
Locked ==
    \E r \in Requests :
        \/ InPhase(r, {"flushed"})
        \/ InPhase(r, {"joining", "removed"}) /\ requests[r].kind # "delete"

\* worker.join blocks the event loop; a restart goes on to add_camera at once.
LoopBlocked ==
    \E r \in Requests :
        \/ InPhase(r, {"joining"})
        \/ InPhase(r, {"removed"}) /\ requests[r].kind = "restart"

Present(c) == rows[c].present = "yes"

Answer(r) == requests' = [requests EXCEPT ![r] = NoRequest]
Enter(r, phase) == requests' = [requests EXCEPT ![r].phase = phase]

-----------------------------------------------------------------------------
(* Requests.                                                               *)

\* db.get, or the construction of a new Camera; 404 changes nothing.
Receive(r) ==
    /\ ~LoopBlocked /\ requests[r] = NoRequest /\ sent < MaxRequests
    /\ \E kind \in Kinds, c \in Cameras, value \in BOOLEAN :
        /\ rows[c].present = (IF kind = "create" THEN "never" ELSE "yes")
        /\ kind = "create" =>
            \A q \in Requests : requests[q] # NoRequest => requests[q].camera # c
        /\ value \/ kind \in {"create", "patch"}
        /\ requests' = [requests EXCEPT ![r] =
            [kind |-> kind, camera |-> c, value |-> value, seen |-> rows[c],
             phase |-> "loaded", slot |-> NoSlot]]
    /\ sent' = sent + 1
    /\ UNCHANGED <<rows, capture_workers, processes, camera_states, frame_queue,
                   event_queue, async_queue, up, outages, faults>>

\* db.flush: takes the write lock; an UPDATE of a row deleted meanwhile raises
\* StaleDataError, and the request fails before it calls the engine.
Flush(r) ==
    /\ ~LoopBlocked /\ ~Locked /\ InPhase(r, {"loaded"})
    /\ requests[r].kind # "delete"
    /\ IF Present(requests[r].camera) \/ requests[r].kind = "create"
       THEN Enter(r, "flushed") ELSE Answer(r)
    /\ UNCHANGED <<rows, capture_workers, processes, camera_states, frame_queue,
                   event_queue, async_queue, up, sent, outages, faults>>

\* An attribute set to the value it was loaded with is not part of the UPDATE.
Changed(seen, now, value) == IF seen = value THEN now ELSE value

\* Mutant: the UPDATE of an enable forgets is_enabled.
WrittenWithoutFlag(r) == [rows[requests[r].camera] EXCEPT !.status = "connecting"]

Written(r) ==
    LET request == requests[r]
        row == rows[request.camera]
        Set(is_enabled, status) ==
            [row EXCEPT !.is_enabled = Changed(request.seen.is_enabled, @, is_enabled),
                        !.status = Changed(request.seen.status, @, status)]
    IN  CASE request.kind = "create" ->
               [present |-> "yes", is_enabled |-> request.value,
                status |-> IF request.value THEN "connecting" ELSE "inactive"]
          [] request.kind = "enable" -> Set(TRUE, "connecting")
          [] request.kind = "disable" -> Set(FALSE, "inactive")
          [] request.kind = "restart" -> Set(row.is_enabled, "connecting")
          [] request.kind = "patch" -> Set(request.value, row.status)
          [] request.kind = "delete" -> AbsentRow("deleted")

\* The commit of get_db, which may fail after the engine was called.
Commit(r) ==
    \/ /\ rows' = [rows EXCEPT ![requests[r].camera] = Written(r)]
       /\ UNCHANGED faults
    \/ /\ CommitsFail /\ faults < MaxFaults /\ faults' = faults + 1
       /\ UNCHANGED rows

\* Mutant: a second process is started for a camera that has one.
AddAnyway(c) ==
    \E s \in Slots :
        /\ processes[c][s].stage = "dead"
        /\ capture_workers' = [capture_workers EXCEPT ![c] = s]
        /\ processes' = [processes EXCEPT ![c][s] = NewWorker]
        /\ camera_states' = [camera_states EXCEPT ![c] = "INITIALIZING"]

\* add_camera: does nothing if the camera has an entry, even of a dead process.
AddCamera(c) ==
    IF capture_workers[c] # NoSlot
    THEN UNCHANGED <<capture_workers, processes, camera_states>>
    ELSE \E s \in Slots :
            /\ processes[c][s].stage = "dead"
            /\ capture_workers' = [capture_workers EXCEPT ![c] = s]
            /\ processes' = [processes EXCEPT ![c][s] = NewWorker]
            /\ camera_states' = [camera_states EXCEPT ![c] = "INITIALIZING"]

\* remove_camera as far as the join: pop the entry, clear _running, report.
StartRemove(r) ==
    LET c == requests[r].camera
        s == capture_workers[c]
    IN  /\ ~LoopBlocked
        /\ \/ requests[r] # NoRequest /\ requests[r].kind = "delete" /\ InPhase(r, {"loaded"})
           \/ InPhase(r, {"flushed"}) /\ requests[r].kind \in {"disable", "restart"}
        /\ IF s = NoSlot
           THEN /\ Enter(r, "removed")
                /\ camera_states' = [camera_states EXCEPT ![c] = "UNKNOWN"]
                /\ UNCHANGED <<capture_workers, processes, event_queue>>
           ELSE /\ requests' = [requests EXCEPT ![r].phase = "joining", ![r].slot = s]
                /\ capture_workers' = [capture_workers EXCEPT ![c] = NoSlot]
                /\ processes' = [processes EXCEPT ![c][s].running = FALSE]
                /\ event_queue' = Emit(event_queue, c, "CAMERA OFFLINE")
                /\ UNCHANGED camera_states
        /\ UNCHANGED <<rows, frame_queue, async_queue, up, sent, outages, faults>>

\* The rest of remove_camera: the process has left its loop or is terminated.
Join(r) ==
    LET c == requests[r].camera
    IN  /\ InPhase(r, {"joining"})
        /\ Enter(r, "removed")
        /\ processes' = [processes EXCEPT ![c][requests[r].slot] = DeadWorker]
        /\ camera_states' = [camera_states EXCEPT ![c] = "UNKNOWN"]
        /\ UNCHANGED <<rows, capture_workers, frame_queue, event_queue,
                       async_queue, up, sent, outages, faults>>

\* The end of the handler: add_camera where there is one, commit, response.
Finish(r) ==
    LET kind == requests[r].kind
    IN  /\ \/ ~LoopBlocked /\ InPhase(r, {"flushed"}) /\ kind \in {"create", "enable", "patch"}
           \/ ~LoopBlocked /\ InPhase(r, {"removed"}) /\ kind = "disable"
           \/ ~LoopBlocked /\ ~Locked /\ InPhase(r, {"removed"}) /\ kind = "delete"
           \/ InPhase(r, {"removed"}) /\ kind = "restart"
        /\ IF kind \in {"enable", "restart"} \/ (kind = "create" /\ requests[r].value)
           THEN AddCamera(requests[r].camera)
           ELSE UNCHANGED <<capture_workers, processes, camera_states>>
        /\ Commit(r)
        /\ Answer(r)
        /\ UNCHANGED <<frame_queue, event_queue, async_queue, up, sent, outages>>

-----------------------------------------------------------------------------
(* Capture processes.                                                      *)

\* One process moves; it may report a state.
Move(c, s, worker) == processes' = [processes EXCEPT ![c][s] = worker]
Report(c, state) == event_queue' = Emit(event_queue, c, state)

Others == <<rows, requests, capture_workers, camera_states, async_queue, up,
            sent, outages, faults>>

\* run: sets _running, which undoes a stop that came before it.
Run(c, s) ==
    LET w == processes[c][s]
    IN  /\ w.stage = "starting"
        /\ Move(c, s, [w EXCEPT !.stage = "connect", !.running = TRUE])
        /\ Report(c, "CONNECTING")
        /\ UNCHANGED <<Others, frame_queue>>

\* The head of _capture_loop: _running is looked at only here.
LeaveLoop(c, s) ==
    /\ processes[c][s].stage \in {"connect", "reading"} /\ ~processes[c][s].running
    /\ Move(c, s, DeadWorker)
    /\ UNCHANGED <<Others, frame_queue, event_queue>>

Connect(c, s) ==
    LET w == processes[c][s]
    IN  /\ w.stage = "connect" /\ w.running
        /\ Move(c, s, [w EXCEPT !.stage = "opening"])
        /\ Report(c, "AUTHENTICATING")
        /\ UNCHANGED <<Others, frame_queue>>

OpenSucceeds(c, s) ==
    LET w == processes[c][s]
    IN  /\ w.stage = "opening" /\ c \in up
        /\ Move(c, s, [w EXCEPT !.stage = "reading", !.delay = 1, !.frames_read = FALSE])
        /\ Report(c, "STREAM STARTING")
        /\ UNCHANGED <<Others, frame_queue>>

\* isOpened is false, or VideoCapture raised.
OpenFails(c, s) ==
    LET w == processes[c][s]
    IN  /\ w.stage = "opening" /\ c \notin up
        /\ Move(c, s, [w EXCEPT !.stage = "sleeping"])
        /\ \E state \in {"MEDIA SERVER OFFLINE", "DECODER ERROR"} : Report(c, state)
        /\ UNCHANGED <<Others, frame_queue>>

\* After the sleep the delay doubles, up to _max_delay.
Wake(c, s) ==
    LET w == processes[c][s]
    IN  /\ w.stage = "sleeping"
        /\ Move(c, s, [w EXCEPT !.stage = "connect",
                                !.delay = IF 2 * @ < MaxDelay THEN 2 * @ ELSE MaxDelay])
        /\ UNCHANGED <<Others, frame_queue, event_queue>>

\* A good frame goes to the frame queue in place of what is there; CONNECTED is
\* reported with the first one and again every thirty frames or so.
ReadFrame(c, s) ==
    LET w == processes[c][s]
    IN  /\ w.stage = "reading" /\ w.running /\ c \in up
        /\ Move(c, s, [w EXCEPT !.frames_read = TRUE])
        /\ \/ Report(c, "CONNECTED")
           \/ w.frames_read /\ UNCHANGED event_queue
        /\ frame_queue' = c
        /\ UNCHANGED Others

ReadFails(c, s) ==
    LET w == processes[c][s]
    IN  /\ w.stage = "reading" /\ w.running /\ c \notin up
        /\ Move(c, s, [w EXCEPT !.stage = "sleeping"])
        /\ Report(c, "STREAM OFFLINE")
        /\ UNCHANGED <<Others, frame_queue>>

Capture(c, s) ==
    \/ Run(c, s) \/ LeaveLoop(c, s) \/ Connect(c, s) \/ OpenSucceeds(c, s)
    \/ OpenFails(c, s) \/ Wake(c, s) \/ ReadFrame(c, s) \/ ReadFails(c, s)

-----------------------------------------------------------------------------
(* Inference, the bridge and EventEngine.                                  *)

\* One frame through the model: its state and its detections, or an error.
Infer ==
    /\ frame_queue # NoCamera
    /\ frame_queue' = NoCamera
    /\ \/ /\ event_queue' = Emit(Emit(event_queue, frame_queue, "INFERENCE RUNNING"),
                                 frame_queue, "detections")
          /\ UNCHANGED faults
       \/ /\ faults < MaxFaults /\ faults' = faults + 1
          /\ Report(frame_queue, "DECODER ERROR")
    /\ UNCHANGED <<rows, requests, capture_workers, processes, camera_states,
                   async_queue, up, sent, outages>>

\* _event_queue_bridge; the backlog guard bounds the model, not the code.
Bridge ==
    /\ ~LoopBlocked /\ event_queue # <<>> /\ Len(async_queue) < MaxBacklog
    /\ LET event == Head(event_queue)
       IN  /\ event_queue' = Tail(event_queue)
           /\ async_queue' = Append(async_queue, event)
           /\ camera_states' = IF event.state = "detections" THEN camera_states
                               ELSE [camera_states EXCEPT ![event.camera] = event.state]
    /\ UNCHANGED <<rows, requests, capture_workers, processes, frame_queue, up,
                   sent, outages, faults>>

\* Mutant: the status is inserted, so a late event brings a deleted row back.
UpsertStatus(event) ==
    [rows EXCEPT ![event.camera] =
        IF @.present = "never" THEN @
        ELSE [@ EXCEPT !.present = "yes", !.status = DbStatus(event.state)]]

\* UPDATE ... WHERE id = camera: nothing happens if there is no such row.
UpdateStatus(event) ==
    [rows EXCEPT ![event.camera] =
        IF @.present = "yes" THEN [@ EXCEPT !.status = DbStatus(event.state)] ELSE @]

\* _process_event in its own session, which waits for the write lock.
ProcessEvent ==
    /\ ~LoopBlocked /\ async_queue # <<>>
    /\ LET event == Head(async_queue)
       IN  IF event.state = "detections" THEN UNCHANGED rows
           ELSE ~Locked /\ rows' = UpdateStatus(event)
    /\ async_queue' = Tail(async_queue)
    /\ UNCHANGED <<requests, capture_workers, processes, camera_states, frame_queue,
                   event_queue, up, sent, outages, faults>>

-----------------------------------------------------------------------------
(* The environment.                                                        *)

StreamChanges(c) ==
    /\ outages < MaxOutages /\ outages' = outages + 1
    /\ up' = IF c \in up THEN up \ {c} ELSE up \cup {c}
    /\ UNCHANGED <<rows, requests, capture_workers, processes, camera_states,
                   frame_queue, event_queue, async_queue, sent, faults>>

\* A capture process crashes; nothing watches it, its entry stays.
WorkerDies(c, s) ==
    /\ processes[c][s].stage # "dead"
    /\ faults < MaxFaults /\ faults' = faults + 1
    /\ Move(c, s, DeadWorker)
    /\ UNCHANGED <<rows, requests, capture_workers, camera_states, frame_queue,
                   event_queue, async_queue, up, sent, outages>>

\* Mutant: the startup starts every camera in the table.
AllPresent == {c \in Cameras : Present(c)}

\* The cameras the startup starts.
Enabled == {c \in Cameras : Present(c) /\ rows[c].is_enabled}

\* The backend stops at any point and its lifespan starts it again.
Restart ==
    /\ faults < MaxFaults /\ faults' = faults + 1
    /\ requests' = [r \in Requests |-> NoRequest]
    /\ capture_workers' = [c \in Cameras |-> IF c \in Enabled THEN 1 ELSE NoSlot]
    /\ processes' = [c \in Cameras |-> [s \in Slots |->
                        IF c \in Enabled /\ s = 1 THEN NewWorker ELSE DeadWorker]]
    /\ camera_states' = [c \in Cameras |->
                            IF c \in Enabled THEN "INITIALIZING" ELSE "UNKNOWN"]
    /\ frame_queue' = NoCamera
    /\ event_queue' = <<>>
    /\ async_queue' = <<>>
    /\ UNCHANGED <<rows, up, sent, outages>>

-----------------------------------------------------------------------------
Handle(r) == Receive(r) \/ Flush(r) \/ StartRemove(r) \/ Join(r) \/ Finish(r)

Next ==
    \/ \E r \in Requests : Handle(r)
    \/ \E c \in Cameras, s \in Slots : Capture(c, s) \/ WorkerDies(c, s)
    \/ Infer \/ Bridge \/ ProcessEvent
    \/ \E c \in Cameras : StreamChanges(c)
    \/ Restart

\* Every process and every coroutine that can go on does so; streams, clients
\* and faults do as they like.
Fairness ==
    /\ \A r \in Requests : WF_vars(Flush(r) \/ StartRemove(r) \/ Join(r) \/ Finish(r))
    /\ \A c \in Cameras, s \in Slots : WF_vars(Capture(c, s))
    /\ WF_vars(Infer) /\ WF_vars(Bridge) /\ WF_vars(ProcessEvent)

Spec == Init /\ [][Next]_vars /\ Fairness
-----------------------------------------------------------------------------
(* Properties.                                                             *)

\* Types of all variables, and the bounds of both queues.
TypeOK ==
    /\ rows \in [Cameras -> Row]
    /\ requests \in [Requests -> Request \cup {NoRequest}]
    /\ capture_workers \in [Cameras -> {NoSlot} \cup Slots]
    /\ processes \in [Cameras -> [Slots -> CaptureWorker]]
    /\ camera_states \in [Cameras -> WorkerStates \cup {"UNKNOWN", "INITIALIZING"}]
    /\ frame_queue \in Cameras \cup {NoCamera}
    /\ event_queue \in Seq(Event) /\ Len(event_queue) <= QueueSize
    /\ async_queue \in Seq(Event) /\ Len(async_queue) <= MaxBacklog
    /\ up \subseteq Cameras
    /\ sent \in 0 .. MaxRequests /\ outages \in 0 .. MaxOutages /\ faults \in 0 .. MaxFaults

Idle == \A r \in Requests : requests[r] = NoRequest

\* Between requests exactly the enabled cameras have a capture worker.
WorkersMatchRows ==
    Idle => \A c \in Cameras :
                capture_workers[c] # NoSlot <=> rows[c].present = "yes" /\ rows[c].is_enabled

\* A camera has at most one living process, and it is the one on the books;
\* only a removal in progress has a process that is off them.  Two processes
\* would feed one camera's frames twice into tracking and counting.
OneProcessPerCamera ==
    \A c \in Cameras, s \in Slots :
        processes[c][s].stage # "dead" =>
            \/ capture_workers[c] = s
            \/ \E r \in Requests :
                InPhase(r, {"joining"}) /\ requests[r].camera = c /\ requests[r].slot = s

\* The row of a deleted camera never comes back, however late its events are.
DeletedForGood ==
    [][\A c \in Cameras : rows[c].present = "deleted" => rows'[c].present = "deleted"]_vars

\* Whatever requests and failed commits have left behind, a restart of the
\* backend brings workers and rows together again.
RestartHeals == [][Restart => WorkersMatchRows']_vars

Running(c) ==
    \E s \in Slots : capture_workers[c] = s /\ processes[c][s].stage # "dead"

\* A camera whose process lives and whose stream stays readable is shown as
\* active in the end, through outages, back-off, dropped events and restarts.
Recovers ==
    \A c \in Cameras :
        <>[](Idle /\ Present(c) /\ Running(c) /\ c \in up) => <>[](rows[c].status = "active")
=============================================================================
