-------------------------- MODULE CameraPipelineProofs --------------------------
(***************************************************************************)
(* Proofs about CameraPipeline for all values of its constants: its types, *)
(* that a camera never has two living capture processes, that deleted rows *)
(* stay deleted, and when workers and rows agree.                          *)
(***************************************************************************)
EXTENDS CameraPipeline, SequenceTheorems, TLAPS

EventState == WorkerStates \cup {"detections"}

\* Emit keeps the queue's type and capacity.
LEMMA EmitType ==
    ASSUME NEW q \in Seq(Event), Len(q) <= QueueSize, NEW c \in Cameras,
           NEW state \in EventState
    PROVE  Emit(q, c, state) \in Seq(Event) /\ Len(Emit(q, c, state)) <= QueueSize
<1> DEFINE e == [camera |-> c, state |-> state]
<1>1. e \in Event
  BY DEF Event, EventState
<1> HIDE DEF e
<1>2. Append(q, e) \in Seq(Event) /\ Len(Append(q, e)) = Len(q) + 1
  BY <1>1, AppendProperties
<1>3. Len(q) \in Nat /\ QueueSize \in Nat
  BY LenProperties, BoundAssumption
<1>4. CASE Len(q) < QueueSize
  <2>1. Emit(q, c, state) = Append(q, e)
    BY <1>4 DEF Emit, e
  <2> QED BY <1>2, <1>3, <1>4, <2>1
<1>5. CASE ~(Len(q) < QueueSize)
  <2>1. Emit(q, c, state) = q
    BY <1>5 DEF Emit
  <2> QED BY <2>1
<1> QED BY <1>4, <1>5

LEMMA StatesAreStrings ==
    /\ \A state \in {"CONNECTING", "AUTHENTICATING", "STREAM STARTING", "CONNECTED",
                     "INFERENCE RUNNING", "MEDIA SERVER OFFLINE", "STREAM OFFLINE",
                     "CAMERA OFFLINE", "DECODER ERROR"} : state \in EventState
    /\ "detections" \in EventState
  BY DEF EventState, WorkerStates, Connecting, Streaming, Failing

-----------------------------------------------------------------------------
(* Type correctness, split by the variables an action disturbs.            *)

RowsOK == rows \in [Cameras -> Row]
RequestsOK == requests \in [Requests -> Request \cup {NoRequest}]
WorkersOK ==
    /\ capture_workers \in [Cameras -> {NoSlot} \cup Slots]
    /\ processes \in [Cameras -> [Slots -> CaptureWorker]]
    /\ camera_states \in [Cameras -> WorkerStates \cup {"UNKNOWN", "INITIALIZING"}]
QueuesOK ==
    /\ frame_queue \in Cameras \cup {NoCamera}
    /\ event_queue \in Seq(Event) /\ Len(event_queue) <= QueueSize
    /\ async_queue \in Seq(Event) /\ Len(async_queue) <= MaxBacklog
BoundsOK ==
    /\ up \subseteq Cameras
    /\ sent \in 0 .. MaxRequests /\ outages \in 0 .. MaxOutages /\ faults \in 0 .. MaxFaults

LEMMA TypeParts == TypeOK <=> RowsOK /\ RequestsOK /\ WorkersOK /\ QueuesOK /\ BoundsOK
  BY DEF TypeOK, RowsOK, RequestsOK, WorkersOK, QueuesOK, BoundsOK

LEMMA PartsTypeNext ==
    RowsOK' /\ RequestsOK' /\ WorkersOK' /\ QueuesOK' /\ BoundsOK' => TypeOK'
  BY DEF TypeOK, RowsOK, RequestsOK, WorkersOK, QueuesOK, BoundsOK

LEMMA Bounds ==
    /\ QueueSize \in Nat /\ MaxDelay \in Nat /\ MaxDelay > 0 /\ MaxBacklog \in Nat
    /\ MaxRequests \in Nat /\ MaxOutages \in Nat /\ MaxFaults \in Nat
  BY BoundAssumption

LEMMA WorkerTypes == DeadWorker \in CaptureWorker /\ NewWorker \in CaptureWorker
<1>1. 1 \in Delays
  BY Bounds DEF Delays
<1>2. DeadWorker \in CaptureWorker
  BY <1>1 DEF DeadWorker, CaptureWorker
<1>3. NewWorker = [DeadWorker EXCEPT !.stage = "starting"]
  BY DEF NewWorker
<1>4. NewWorker \in CaptureWorker
  BY <1>2, <1>3 DEF CaptureWorker
<1> QED BY <1>2, <1>4

LEMMA AbsentRowType ==
    ASSUME NEW present \in {"never", "deleted"} PROVE AbsentRow(present) \in Row
  BY DEF AbsentRow, Row

LEMMA InitType == Init => TypeOK
<1> SUFFICES ASSUME Init PROVE TypeOK
  OBVIOUS
<1>1. RowsOK
  BY AbsentRowType DEF Init, RowsOK
<1>2. RequestsOK
  BY DEF Init, RequestsOK
<1>3. WorkersOK
  BY WorkerTypes DEF Init, WorkersOK
<1>4. QueuesOK /\ BoundsOK
  BY Bounds DEF Init, QueuesOK, BoundsOK
<1> QED BY <1>1, <1>2, <1>3, <1>4, TypeParts

\* The row a request writes is a row.
LEMMA WrittenType ==
    ASSUME RowsOK, RequestsOK, NEW r \in Requests, requests[r] # NoRequest
    PROVE  Written(r) \in Row
<1> DEFINE request == requests[r]
           row == rows[request.camera]
<1>1. request \in Request /\ row \in Row /\ request.seen \in Row /\ request.value \in BOOLEAN
      /\ request.kind \in AllKinds
  BY DEF RowsOK, RequestsOK, Request
<1> HIDE DEF request, row
<1>2. ASSUME NEW e \in BOOLEAN, NEW st \in {"active", "inactive", "error", "connecting"}
      PROVE [row EXCEPT !.is_enabled = Changed(request.seen.is_enabled, @, e),
                        !.status = Changed(request.seen.status, @, st)] \in Row
  BY <1>1, <1>2 DEF Row, Changed
<1>3. CASE request.kind = "create"
  BY <1>1, <1>3 DEF Written, Row, request
<1>4. CASE request.kind = "delete"
  BY <1>4, AbsentRowType DEF Written, request
<1>5. row.is_enabled \in BOOLEAN /\ row.status \in {"active", "inactive", "error", "connecting"}
  BY <1>1 DEF Row
<1>6. CASE request.kind = "enable"
  BY <1>6, <1>2 DEF Written, request, row
<1>7. CASE request.kind = "disable"
  BY <1>7, <1>2 DEF Written, request, row
<1>8. CASE request.kind = "restart"
  BY <1>8, <1>2, <1>5 DEF Written, request, row
<1>9. CASE request.kind = "patch"
  BY <1>9, <1>1, <1>2, <1>5 DEF Written, request, row
<1> QED BY <1>1, <1>3, <1>4, <1>6, <1>7, <1>8, <1>9 DEF AllKinds

\* What Commit leaves is a table of rows.
LEMMA CommitType ==
    ASSUME RowsOK, RequestsOK, faults \in 0 .. MaxFaults,
           NEW r \in Requests, requests[r] # NoRequest, Commit(r)
    PROVE  RowsOK' /\ faults' \in 0 .. MaxFaults
<1>1. requests[r].camera \in Cameras
  BY DEF RequestsOK, Request
<1>2. CASE rows' = [rows EXCEPT ![requests[r].camera] = Written(r)] /\ faults' = faults
  BY <1>1, <1>2, WrittenType DEF RowsOK
<1>3. CASE rows' = rows /\ faults < MaxFaults /\ faults' = faults + 1
  BY <1>3, Bounds DEF RowsOK
<1> QED BY <1>2, <1>3 DEF Commit

LEMMA AddCameraType ==
    ASSUME WorkersOK, NEW c \in Cameras, AddCamera(c) PROVE WorkersOK'
<1>1. CASE UNCHANGED <<capture_workers, processes, camera_states>>
  BY <1>1 DEF WorkersOK
<1>2. CASE \E s \in Slots :
            /\ capture_workers' = [capture_workers EXCEPT ![c] = s]
            /\ processes' = [processes EXCEPT ![c][s] = NewWorker]
            /\ camera_states' = [camera_states EXCEPT ![c] = "INITIALIZING"]
  BY <1>2, WorkerTypes DEF WorkersOK
<1> QED BY <1>1, <1>2 DEF AddCamera

\* A process that moves to a well-typed worker keeps the table well-typed.
LEMMA MoveType ==
    ASSUME WorkersOK, NEW c \in Cameras, NEW s \in Slots, NEW w \in CaptureWorker,
           Move(c, s, w), UNCHANGED <<capture_workers, camera_states>>
    PROVE  WorkersOK'
  BY DEF WorkersOK, Move

LEMMA ReceiveType == ASSUME TypeOK, NEW r \in Requests, Receive(r) PROVE TypeOK'
<1>1. RowsOK /\ RequestsOK /\ WorkersOK /\ QueuesOK /\ BoundsOK
  BY TypeParts
<1>2. PICK kind \in Kinds, c \in Cameras, value \in BOOLEAN :
        requests' = [requests EXCEPT ![r] =
            [kind |-> kind, camera |-> c, value |-> value, seen |-> rows[c],
             phase |-> "loaded", slot |-> NoSlot]]
  BY DEF Receive
<1>3. [kind |-> kind, camera |-> c, value |-> value, seen |-> rows[c],
       phase |-> "loaded", slot |-> NoSlot] \in Request
  BY <1>1, KindAssumption DEF Request, RowsOK
<1>4. RequestsOK'
  BY <1>1, <1>2, <1>3 DEF RequestsOK
<1>5. sent' \in 0 .. MaxRequests
  BY <1>1, Bounds DEF Receive, BoundsOK
<1> QED BY <1>1, <1>4, <1>5, PartsTypeNext
        DEF Receive, RowsOK, WorkersOK, QueuesOK, BoundsOK

\* Entering a phase, or answering, keeps the requests well-typed.
LEMMA RequestSteps ==
    ASSUME RequestsOK, NEW r \in Requests, requests[r] # NoRequest
    PROVE  /\ Answer(r) => RequestsOK'
           /\ \A phase \in {"loaded", "flushed", "joining", "removed"} :
                Enter(r, phase) => RequestsOK'
<1>1. requests[r] \in Request
  BY DEF RequestsOK
<1> QED BY <1>1 DEF RequestsOK, Answer, Enter, Request

LEMMA FlushType == ASSUME TypeOK, NEW r \in Requests, Flush(r) PROVE TypeOK'
<1>1. RowsOK /\ RequestsOK /\ WorkersOK /\ QueuesOK /\ BoundsOK
  BY TypeParts
<1>2. RequestsOK'
  BY <1>1, RequestSteps DEF Flush, InPhase
<1> QED BY <1>1, <1>2, PartsTypeNext DEF Flush, RowsOK, WorkersOK, QueuesOK, BoundsOK

LEMMA StartRemoveType == ASSUME TypeOK, NEW r \in Requests, StartRemove(r) PROVE TypeOK'
<1> DEFINE c == requests[r].camera
           s == capture_workers[c]
<1>1. RowsOK /\ RequestsOK /\ WorkersOK /\ QueuesOK /\ BoundsOK
  BY TypeParts
<1>2. requests[r] # NoRequest /\ requests[r] \in Request /\ c \in Cameras
  BY <1>1 DEF StartRemove, InPhase, RequestsOK, Request
<1>3. s \in {NoSlot} \cup Slots
  BY <1>1, <1>2 DEF WorkersOK
<1>4. UNCHANGED <<rows, frame_queue, async_queue, up, sent, outages, faults>>
  BY DEF StartRemove
<1>5. CASE s = NoSlot
  <2>1. /\ Enter(r, "removed")
        /\ camera_states' = [camera_states EXCEPT ![c] = "UNKNOWN"]
        /\ UNCHANGED <<capture_workers, processes, event_queue>>
    BY <1>5 DEF StartRemove
  <2>2. RequestsOK'
    BY <1>1, <1>2, <2>1, RequestSteps
  <2>3. WorkersOK'
    BY <1>1, <2>1 DEF WorkersOK
  <2> QED BY <1>1, <1>4, <2>1, <2>2, <2>3, PartsTypeNext DEF RowsOK, QueuesOK, BoundsOK
<1>6. CASE s # NoSlot
  <2>1. /\ requests' = [requests EXCEPT ![r].phase = "joining", ![r].slot = s]
        /\ capture_workers' = [capture_workers EXCEPT ![c] = NoSlot]
        /\ processes' = [processes EXCEPT ![c][s].running = FALSE]
        /\ event_queue' = Emit(event_queue, c, "CAMERA OFFLINE")
        /\ UNCHANGED camera_states
    BY <1>6 DEF StartRemove
  <2>2. RequestsOK'
    BY <1>1, <1>2, <1>3, <2>1 DEF RequestsOK, Request
  <2>3. s \in Slots /\ processes[c][s] \in CaptureWorker
    BY <1>1, <1>2, <1>3, <1>6 DEF WorkersOK
  <2>4. [processes[c][s] EXCEPT !.running = FALSE] \in CaptureWorker
    BY <2>3 DEF CaptureWorker
  <2>5. WorkersOK'
    BY <1>1, <1>2, <2>1, <2>3, <2>4 DEF WorkersOK
  <2>6. event_queue' \in Seq(Event) /\ Len(event_queue') <= QueueSize
    BY <1>1, <1>2, <2>1, EmitType, StatesAreStrings DEF QueuesOK
  <2> QED BY <1>1, <1>4, <2>2, <2>5, <2>6, PartsTypeNext DEF RowsOK, QueuesOK, BoundsOK
<1> QED BY <1>5, <1>6

LEMMA JoinType == ASSUME TypeOK, NEW r \in Requests, Join(r) PROVE TypeOK'
<1> DEFINE c == requests[r].camera
           s == requests[r].slot
<1>1. RowsOK /\ RequestsOK /\ WorkersOK /\ QueuesOK /\ BoundsOK
  BY TypeParts
<1>2. requests[r] # NoRequest /\ c \in Cameras /\ s \in {NoSlot} \cup Slots
  BY <1>1 DEF Join, InPhase, RequestsOK, Request
<1>3. RequestsOK'
  BY <1>1, <1>2, RequestSteps DEF Join
<1>4. processes' = [processes EXCEPT ![c][s] = DeadWorker]
  BY DEF Join
<1>5. processes' \in [Cameras -> [Slots -> CaptureWorker]]
  BY <1>1, <1>2, <1>4, WorkerTypes DEF WorkersOK
<1>6. WorkersOK'
  BY <1>1, <1>2, <1>5 DEF Join, WorkersOK
<1> QED BY <1>1, <1>3, <1>6, PartsTypeNext DEF Join, RowsOK, QueuesOK, BoundsOK

LEMMA FinishType == ASSUME TypeOK, NEW r \in Requests, Finish(r) PROVE TypeOK'
<1>1. RowsOK /\ RequestsOK /\ WorkersOK /\ QueuesOK /\ BoundsOK
  BY TypeParts
<1>2. requests[r] # NoRequest /\ requests[r].camera \in Cameras
  BY <1>1 DEF Finish, InPhase, RequestsOK, Request
<1>3. RequestsOK'
  BY <1>1, <1>2, RequestSteps DEF Finish
<1>4. AddCamera(requests[r].camera) \/ UNCHANGED <<capture_workers, processes, camera_states>>
  BY DEF Finish
<1>5. WorkersOK'
  BY <1>1, <1>2, <1>4, AddCameraType DEF WorkersOK
<1>6. RowsOK' /\ faults' \in 0 .. MaxFaults
  BY <1>1, <1>2, CommitType DEF Finish, BoundsOK
<1> QED BY <1>1, <1>3, <1>5, <1>6, PartsTypeNext DEF Finish, QueuesOK, BoundsOK

\* A step of a capture process moves it to a well-typed worker, one that lives
\* only if the process did, and reports well-typed events.
LEMMA CaptureStep ==
    ASSUME TypeOK, NEW c \in Cameras, NEW s \in Slots, Capture(c, s)
    PROVE  /\ processes[c][s].stage # "dead"
           /\ \E w \in CaptureWorker : Move(c, s, w)
           /\ \/ UNCHANGED event_queue
              \/ \E state \in EventState : Report(c, state)
           /\ UNCHANGED frame_queue \/ frame_queue' = c
           /\ UNCHANGED Others
<1> DEFINE w == processes[c][s]
<1>1. w \in CaptureWorker
  BY DEF TypeOK
<1>2. w.delay \in Delays /\ 1 \in Delays /\ MaxDelay \in Delays
  BY <1>1, Bounds DEF CaptureWorker, Delays
<1> HIDE DEF w
<1>3. CASE Run(c, s)
  <2>1. [w EXCEPT !.stage = "connect", !.running = TRUE] \in CaptureWorker
    BY <1>1 DEF CaptureWorker
  <2> QED BY <1>3, <2>1, StatesAreStrings DEF Run, w
<1>4. CASE LeaveLoop(c, s)
  BY <1>4, WorkerTypes DEF LeaveLoop
<1>5. CASE Connect(c, s)
  <2>1. [w EXCEPT !.stage = "opening"] \in CaptureWorker
    BY <1>1 DEF CaptureWorker
  <2> QED BY <1>5, <2>1, StatesAreStrings DEF Connect, w
<1>6. CASE OpenSucceeds(c, s)
  <2>1. [w EXCEPT !.stage = "reading", !.delay = 1, !.frames_read = FALSE] \in CaptureWorker
    BY <1>1, <1>2 DEF CaptureWorker
  <2> QED BY <1>6, <2>1, StatesAreStrings DEF OpenSucceeds, w
<1>7. CASE OpenFails(c, s)
  <2>1. [w EXCEPT !.stage = "sleeping"] \in CaptureWorker
    BY <1>1 DEF CaptureWorker
  <2> QED BY <1>7, <2>1, StatesAreStrings DEF OpenFails, w
<1>8. CASE Wake(c, s)
  <2> DEFINE delay == IF 2 * w.delay < MaxDelay THEN 2 * w.delay ELSE MaxDelay
  <2>1. delay \in Delays
    BY <1>2, Bounds DEF Delays
  <2>2. [w EXCEPT !.stage = "connect", !.delay = delay] \in CaptureWorker
    <3> HIDE DEF delay
    <3> QED BY <1>1, <2>1 DEF CaptureWorker
  <2>3. Move(c, s, [w EXCEPT !.stage = "connect", !.delay = delay])
    BY <1>8 DEF Wake, w
  <2> QED BY <1>8, <2>2, <2>3 DEF Wake
<1>9. CASE ReadFrame(c, s)
  <2>1. [w EXCEPT !.frames_read = TRUE] \in CaptureWorker
    BY <1>1 DEF CaptureWorker
  <2> QED BY <1>9, <2>1, StatesAreStrings DEF ReadFrame, w
<1>10. CASE ReadFails(c, s)
  <2>1. [w EXCEPT !.stage = "sleeping"] \in CaptureWorker
    BY <1>1 DEF CaptureWorker
  <2> QED BY <1>10, <2>1, StatesAreStrings DEF ReadFails, w
<1> QED BY <1>3, <1>4, <1>5, <1>6, <1>7, <1>8, <1>9, <1>10 DEF Capture

LEMMA CaptureType ==
    ASSUME TypeOK, NEW c \in Cameras, NEW s \in Slots, Capture(c, s) PROVE TypeOK'
<1>1. RowsOK /\ RequestsOK /\ WorkersOK /\ QueuesOK /\ BoundsOK
  BY TypeParts
<1>2. UNCHANGED <<rows, requests, capture_workers, camera_states, async_queue, up,
                  sent, outages, faults>>
  BY CaptureStep DEF Others
<1>3. WorkersOK'
  BY <1>1, <1>2, CaptureStep, MoveType
<1>4. event_queue' \in Seq(Event) /\ Len(event_queue') <= QueueSize
  <2>1. CASE UNCHANGED event_queue
    BY <1>1, <2>1 DEF QueuesOK
  <2>2. ASSUME NEW state \in EventState, Report(c, state)
        PROVE  event_queue' \in Seq(Event) /\ Len(event_queue') <= QueueSize
    <3>1. event_queue' = Emit(event_queue, c, state)
      BY <2>2 DEF Report
    <3> QED BY <1>1, <3>1, EmitType DEF QueuesOK
  <2> QED BY <2>1, <2>2, CaptureStep
<1>5. frame_queue' \in Cameras \cup {NoCamera}
  BY <1>1, CaptureStep DEF QueuesOK
<1>6. RowsOK' /\ RequestsOK' /\ BoundsOK'
  BY <1>1, <1>2 DEF RowsOK, RequestsOK, BoundsOK
<1>7. QueuesOK'
  BY <1>1, <1>2, <1>4, <1>5 DEF QueuesOK
<1> QED BY <1>3, <1>6, <1>7, PartsTypeNext

LEMMA InferType == ASSUME TypeOK, Infer PROVE TypeOK'
<1>1. RowsOK /\ RequestsOK /\ WorkersOK /\ QueuesOK /\ BoundsOK
  BY TypeParts
<1>2. frame_queue \in Cameras /\ event_queue \in Seq(Event) /\ Len(event_queue) <= QueueSize
  BY <1>1 DEF Infer, QueuesOK
<1>3. /\ event_queue' \in Seq(Event) /\ Len(event_queue') <= QueueSize
      /\ faults' \in 0 .. MaxFaults
  <2>1. CASE /\ event_queue' = Emit(Emit(event_queue, frame_queue, "INFERENCE RUNNING"),
                                    frame_queue, "detections")
             /\ UNCHANGED faults
    <3> DEFINE q == Emit(event_queue, frame_queue, "INFERENCE RUNNING")
    <3>1. q \in Seq(Event) /\ Len(q) <= QueueSize
      BY <1>2, EmitType, StatesAreStrings
    <3>2. event_queue' = Emit(q, frame_queue, "detections")
      BY <2>1
    <3> HIDE DEF q
    <3>3. event_queue' \in Seq(Event) /\ Len(event_queue') <= QueueSize
      BY <1>2, <3>1, <3>2, EmitType, StatesAreStrings
    <3> QED BY <1>1, <2>1, <3>3 DEF BoundsOK
  <2>2. CASE /\ faults < MaxFaults /\ faults' = faults + 1
             /\ Report(frame_queue, "DECODER ERROR")
    <3>1. event_queue' \in Seq(Event) /\ Len(event_queue') <= QueueSize
      BY <1>2, <2>2, EmitType, StatesAreStrings DEF Report
    <3>2. faults \in 0 .. MaxFaults /\ faults < MaxFaults /\ faults' = faults + 1
      BY <1>1, <2>2 DEF BoundsOK
    <3>3. faults' \in 0 .. MaxFaults
      BY <3>2, Bounds
    <3> QED BY <3>1, <3>3
  <2> QED BY <2>1, <2>2 DEF Infer
<1>4. RowsOK' /\ RequestsOK' /\ WorkersOK'
  BY <1>1 DEF Infer, RowsOK, RequestsOK, WorkersOK
<1>5. QueuesOK'
  BY <1>1, <1>3 DEF Infer, QueuesOK
<1>6. BoundsOK'
  BY <1>1, <1>3 DEF Infer, BoundsOK
<1> QED BY <1>4, <1>5, <1>6, PartsTypeNext

LEMMA BridgeType == ASSUME TypeOK, Bridge PROVE TypeOK'
<1> DEFINE event == Head(event_queue)
<1>1. RowsOK /\ RequestsOK /\ WorkersOK /\ QueuesOK /\ BoundsOK
  BY TypeParts
<1>2. event \in Event /\ Tail(event_queue) \in Seq(Event)
      /\ Len(Tail(event_queue)) = Len(event_queue) - 1
  BY <1>1, HeadTailProperties DEF Bridge, QueuesOK
<1> HIDE DEF event
<1>3. /\ Append(async_queue, event) \in Seq(Event)
      /\ Len(Append(async_queue, event)) = Len(async_queue) + 1
  BY <1>1, <1>2, AppendProperties DEF QueuesOK
<1>4. Len(event_queue) \in Nat /\ Len(async_queue) \in Nat
  BY <1>1, LenProperties DEF QueuesOK
<1>5. /\ event_queue' = Tail(event_queue)
      /\ async_queue' = Append(async_queue, event)
      /\ camera_states' = IF event.state = "detections" THEN camera_states
                          ELSE [camera_states EXCEPT ![event.camera] = event.state]
      /\ Len(async_queue) < MaxBacklog
      /\ UNCHANGED <<rows, requests, capture_workers, processes, frame_queue, up,
                     sent, outages, faults>>
  BY DEF Bridge, event
<1>6. event_queue' \in Seq(Event) /\ Len(event_queue') <= QueueSize
  BY <1>1, <1>2, <1>4, <1>5, Bounds DEF QueuesOK
<1>7. async_queue' \in Seq(Event) /\ Len(async_queue') <= MaxBacklog
  BY <1>3, <1>4, <1>5, Bounds
<1>8. WorkersOK'
  BY <1>1, <1>2, <1>5 DEF WorkersOK, Event
<1>9. QueuesOK'
  BY <1>1, <1>5, <1>6, <1>7 DEF QueuesOK
<1>10. RowsOK' /\ RequestsOK' /\ BoundsOK'
  BY <1>1, <1>5 DEF RowsOK, RequestsOK, BoundsOK
<1> QED BY <1>8, <1>9, <1>10, PartsTypeNext

LEMMA ProcessEventType == ASSUME TypeOK, ProcessEvent PROVE TypeOK'
<1> DEFINE event == Head(async_queue)
<1>1. RowsOK /\ RequestsOK /\ WorkersOK /\ QueuesOK /\ BoundsOK
  BY TypeParts
<1>2. event \in Event /\ Tail(async_queue) \in Seq(Event)
      /\ Len(Tail(async_queue)) = Len(async_queue) - 1
  BY <1>1, HeadTailProperties DEF ProcessEvent, QueuesOK
<1> HIDE DEF event
<1>3. Len(async_queue) \in Nat
  BY <1>1, LenProperties DEF QueuesOK
<1>4. /\ async_queue' = Tail(async_queue)
      /\ IF event.state = "detections" THEN UNCHANGED rows ELSE rows' = UpdateStatus(event)
      /\ UNCHANGED <<requests, capture_workers, processes, camera_states, frame_queue,
                     event_queue, up, sent, outages, faults>>
  BY DEF ProcessEvent, event
<1>5. event.state # "detections" => UpdateStatus(event) \in [Cameras -> Row]
  <2> SUFFICES ASSUME event.state # "detections" PROVE UpdateStatus(event) \in [Cameras -> Row]
    OBVIOUS
  <2>1. event.camera \in Cameras /\ event.state \in WorkerStates
    BY <1>2 DEF Event
  <2>2. DbStatus(event.state) \in {"active", "inactive", "error", "connecting"}
    BY <2>1 DEF DbStatus, WorkerStates
  <2>3. [rows[event.camera] EXCEPT !.status = DbStatus(event.state)] \in Row
    BY <1>1, <2>1, <2>2 DEF RowsOK, Row
  <2> QED BY <1>1, <2>1, <2>3 DEF RowsOK, UpdateStatus
<1>6. RowsOK'
  BY <1>1, <1>4, <1>5 DEF RowsOK
<1>7. QueuesOK'
  BY <1>1, <1>2, <1>3, <1>4, Bounds DEF QueuesOK
<1>8. RequestsOK' /\ WorkersOK' /\ BoundsOK'
  BY <1>1, <1>4 DEF RequestsOK, WorkersOK, BoundsOK
<1> QED BY <1>6, <1>7, <1>8, PartsTypeNext

LEMMA StreamChangesType == ASSUME TypeOK, NEW c \in Cameras, StreamChanges(c) PROVE TypeOK'
<1>1. RowsOK /\ RequestsOK /\ WorkersOK /\ QueuesOK /\ BoundsOK
  BY TypeParts
<1>2. BoundsOK'
  BY <1>1, Bounds DEF StreamChanges, BoundsOK
<1>3. RowsOK' /\ RequestsOK' /\ WorkersOK' /\ QueuesOK'
  BY <1>1 DEF StreamChanges, RowsOK, RequestsOK, WorkersOK, QueuesOK
<1> QED BY <1>2, <1>3, PartsTypeNext

LEMMA WorkerDiesType ==
    ASSUME TypeOK, NEW c \in Cameras, NEW s \in Slots, WorkerDies(c, s) PROVE TypeOK'
<1>1. RowsOK /\ RequestsOK /\ WorkersOK /\ QueuesOK /\ BoundsOK
  BY TypeParts
<1>2. BoundsOK'
  BY <1>1, Bounds DEF WorkerDies, BoundsOK
<1>3. WorkersOK'
  BY <1>1, WorkerTypes, MoveType DEF WorkerDies
<1>4. RowsOK' /\ RequestsOK' /\ QueuesOK'
  BY <1>1 DEF WorkerDies, RowsOK, RequestsOK, QueuesOK
<1> QED BY <1>2, <1>3, <1>4, PartsTypeNext

LEMMA RestartType == ASSUME TypeOK, Restart PROVE TypeOK'
<1>1. RowsOK /\ BoundsOK
  BY TypeParts
<1>2. BoundsOK'
  BY <1>1, Bounds DEF Restart, BoundsOK
<1>3. RequestsOK'
  BY DEF Restart, RequestsOK
<1>4. WorkersOK'
  BY WorkerTypes DEF Restart, WorkersOK, Slots
<1>5. QueuesOK'
  BY Bounds, EmptySeq DEF Restart, QueuesOK
<1>6. RowsOK'
  BY <1>1 DEF Restart, RowsOK
<1> QED BY <1>2, <1>3, <1>4, <1>5, <1>6, PartsTypeNext

LEMMA StepType == TypeOK /\ [Next]_vars => TypeOK'
<1> SUFFICES ASSUME TypeOK, [Next]_vars PROVE TypeOK'
  OBVIOUS
<1>1. ASSUME NEW r \in Requests, Handle(r) PROVE TypeOK'
  BY <1>1, ReceiveType, FlushType, StartRemoveType, JoinType, FinishType DEF Handle
<1>2. ASSUME NEW c \in Cameras, NEW s \in Slots, Capture(c, s) PROVE TypeOK'
  BY <1>2, CaptureType
<1>3. ASSUME NEW c \in Cameras, NEW s \in Slots, WorkerDies(c, s) PROVE TypeOK'
  BY <1>3, WorkerDiesType
<1>4. CASE Infer \/ Bridge \/ ProcessEvent
  BY <1>4, InferType, BridgeType, ProcessEventType
<1>5. ASSUME NEW c \in Cameras, StreamChanges(c) PROVE TypeOK'
  BY <1>5, StreamChangesType
<1>6. CASE Restart
  BY <1>6, RestartType
<1>7. CASE UNCHANGED vars
  BY <1>7 DEF vars, TypeOK
<1> QED BY <1>1, <1>2, <1>3, <1>4, <1>5, <1>6, <1>7 DEF Next

\* Every variable keeps its type and both queues their bound, in every run of
\* the pipeline, whatever the capacity of event_queue and the number of cameras.
THEOREM PipelineTypes == Spec => []TypeOK
<1>1. Init => TypeOK
  BY InitType
<1>2. TypeOK /\ [Next]_vars => TypeOK'
  BY StepType
<1> QED BY <1>1, <1>2, PTL DEF Spec

-----------------------------------------------------------------------------
(* One living process per camera.                                          *)
(* The invariant is inductive given the types.  The steps that matter are  *)
(* StartRemove, which hands the process from the books to the request that *)
(* joins it, Join, which ends it before it lets go, and AddCamera, which   *)
(* starts a process only when the books name none.                         *)

Joins(r, c, s) ==
    InPhase(r, {"joining"}) /\ requests[r].camera = c /\ requests[r].slot = s
Owned(c, s) == capture_workers[c] = s \/ \E r \in Requests : Joins(r, c, s)
Alive(c, s) == processes[c][s].stage # "dead"

LEMMA OwnedMeans ==
    OneProcessPerCamera <=> \A c \in Cameras, s \in Slots : Alive(c, s) => Owned(c, s)
  BY DEF OneProcessPerCamera, Alive, Owned, Joins

LEMMA OwnedMeansNext ==
    (\A c \in Cameras, s \in Slots : Alive(c, s)' => Owned(c, s)') => OneProcessPerCamera'
  BY DEF OneProcessPerCamera, Alive, Owned, Joins

\* A request that was not joining, and starts none of it, disturbs no claim.
LEMMA JoinsStay ==
    ASSUME RequestsOK, NEW r \in Requests, ~InPhase(r, {"joining"}),
           \E e : requests' = [requests EXCEPT ![r] = e],
           NEW q \in Requests, NEW c, NEW s, Joins(q, c, s)
    PROVE  Joins(q, c, s)'
<1>1. q # r
  BY DEF Joins
<1>2. requests'[q] = requests[q]
  BY <1>1 DEF RequestsOK
<1> QED BY <1>2 DEF Joins, InPhase

LEMMA OwnedStays ==
    ASSUME RequestsOK, NEW r \in Requests, ~InPhase(r, {"joining"}),
           \E e : requests' = [requests EXCEPT ![r] = e],
           NEW c \in Cameras, NEW s \in Slots,
           capture_workers[c] = s => capture_workers'[c] = s,
           Owned(c, s)
    PROVE  Owned(c, s)'
<1>1. CASE capture_workers[c] = s
  BY <1>1 DEF Owned
<1>2. ASSUME NEW q \in Requests, Joins(q, c, s) PROVE Owned(c, s)'
  <2>1. Joins(q, c, s)'
    BY <1>2, JoinsStay
  <2> QED BY <2>1 DEF Owned
<1> QED BY <1>1, <1>2 DEF Owned

LEMMA StartRemoveOwns ==
    ASSUME TypeOK, OneProcessPerCamera, NEW r \in Requests, StartRemove(r)
    PROVE  OneProcessPerCamera'
<1> DEFINE c == requests[r].camera
           s == capture_workers[c]
<1>1. RequestsOK /\ WorkersOK
  BY TypeParts
<1>2. requests[r] \in Request /\ c \in Cameras /\ ~InPhase(r, {"joining"})
  BY <1>1 DEF StartRemove, InPhase, RequestsOK, Request
<1>3. SUFFICES ASSUME NEW d \in Cameras, NEW t \in Slots, Alive(d, t)'
               PROVE  Owned(d, t)'
  BY OwnedMeansNext
<1>4. CASE s = NoSlot
  <2>1. Enter(r, "removed") /\ UNCHANGED <<capture_workers, processes>>
    BY <1>4 DEF StartRemove
  <2>2. Owned(d, t)
    BY <1>3, <2>1, OwnedMeans DEF Alive
  <2>3. \E e : requests' = [requests EXCEPT ![r] = e]
    BY <2>1 DEF Enter
  <2> QED BY <1>1, <1>2, <2>1, <2>2, <2>3, OwnedStays
<1>5. CASE s # NoSlot
  <2>1. /\ requests' = [requests EXCEPT ![r].phase = "joining", ![r].slot = s]
        /\ capture_workers' = [capture_workers EXCEPT ![c] = NoSlot]
        /\ processes' = [processes EXCEPT ![c][s].running = FALSE]
    BY <1>5 DEF StartRemove
  <2>2. s \in Slots
    BY <1>1, <1>2, <1>5 DEF WorkersOK
  <2>3. processes'[d][t].stage = processes[d][t].stage
    BY <1>1, <1>2, <2>1, <2>2 DEF WorkersOK, CaptureWorker
  <2>4. Owned(d, t)
    BY <1>3, <2>3, OwnedMeans DEF Alive
  <2>5. \E e : requests' = [requests EXCEPT ![r] = e]
    BY <2>1
  <2>6. CASE d = c /\ t = s
    <3>1. requests'[r].phase = "joining" /\ requests'[r].camera = c /\ requests'[r].slot = s
      BY <1>1, <1>2, <2>1 DEF RequestsOK, Request
    <3>2. requests'[r] # NoRequest
      <4>1. [requests[r] EXCEPT !.phase = "joining", !.slot = s] \in Request
        BY <1>2, <2>2 DEF Request
      <4>2. requests'[r] = [requests[r] EXCEPT !.phase = "joining", !.slot = s]
        BY <1>1, <2>1 DEF RequestsOK
      <4> QED BY <4>1, <4>2, NoRequestAssumption
    <3> QED BY <2>6, <3>1, <3>2 DEF Owned, Joins, InPhase
  <2>7. CASE ~(d = c /\ t = s)
    <3>1. capture_workers[d] = t => capture_workers'[d] = t
      BY <1>1, <1>2, <2>1, <2>7 DEF WorkersOK
    <3> QED BY <1>1, <1>2, <2>4, <2>5, <3>1, OwnedStays
  <2> QED BY <2>6, <2>7
<1> QED BY <1>4, <1>5

LEMMA JoinOwns ==
    ASSUME TypeOK, OneProcessPerCamera, NEW r \in Requests, Join(r)
    PROVE  OneProcessPerCamera'
<1> DEFINE c == requests[r].camera
           s == requests[r].slot
<1>1. RequestsOK /\ WorkersOK
  BY TypeParts
<1>2. c \in Cameras
  BY <1>1 DEF Join, InPhase, RequestsOK, Request
<1>3. /\ requests' = [requests EXCEPT ![r].phase = "removed"]
      /\ processes' = [processes EXCEPT ![c][s] = DeadWorker]
      /\ UNCHANGED capture_workers
  BY DEF Join, Enter
<1>4. SUFFICES ASSUME NEW d \in Cameras, NEW t \in Slots, Alive(d, t)'
               PROVE  Owned(d, t)'
  BY OwnedMeansNext
<1>5. ~(d = c /\ t = s)
  BY <1>1, <1>2, <1>3, <1>4 DEF WorkersOK, Alive, DeadWorker
<1>6. Owned(d, t)
  <2>1. processes'[d][t] = processes[d][t]
    BY <1>1, <1>2, <1>3, <1>5 DEF WorkersOK
  <2> QED BY <1>4, <2>1, OwnedMeans DEF Alive
<1>7. CASE capture_workers[d] = t
  BY <1>3, <1>7 DEF Owned
<1>8. ASSUME NEW q \in Requests, Joins(q, d, t) PROVE Owned(d, t)'
  <2>1. q # r
    BY <1>5, <1>8 DEF Joins
  <2>2. requests'[q] = requests[q]
    BY <1>1, <1>3, <2>1 DEF RequestsOK
  <2> QED BY <1>8, <2>2 DEF Owned, Joins, InPhase
<1> QED BY <1>6, <1>7, <1>8 DEF Owned

LEMMA FinishOwns ==
    ASSUME TypeOK, OneProcessPerCamera, NEW r \in Requests, Finish(r)
    PROVE  OneProcessPerCamera'
<1> DEFINE c == requests[r].camera
<1>1. RequestsOK /\ WorkersOK
  BY TypeParts
<1>2. c \in Cameras /\ ~InPhase(r, {"joining"})
  BY <1>1 DEF Finish, InPhase, RequestsOK, Request
<1>3. \E e : requests' = [requests EXCEPT ![r] = e]
  BY DEF Finish, Answer
<1>4. SUFFICES ASSUME NEW d \in Cameras, NEW t \in Slots, Alive(d, t)'
               PROVE  Owned(d, t)'
  BY OwnedMeansNext
<1>5. CASE UNCHANGED <<capture_workers, processes>>
  <2>1. Owned(d, t)
    BY <1>4, <1>5, OwnedMeans DEF Alive
  <2> QED BY <1>1, <1>2, <1>3, <1>5, <2>1, OwnedStays
<1>6. ASSUME capture_workers[c] = NoSlot, NEW s \in Slots,
             capture_workers' = [capture_workers EXCEPT ![c] = s],
             processes' = [processes EXCEPT ![c][s] = NewWorker]
      PROVE  Owned(d, t)'
  <2>1. CASE d = c /\ t = s
    BY <1>1, <1>2, <1>6, <2>1 DEF WorkersOK, Owned
  <2>2. CASE ~(d = c /\ t = s)
    <3>1. processes'[d][t] = processes[d][t]
      BY <1>1, <1>2, <1>6, <2>2 DEF WorkersOK
    <3>2. Owned(d, t)
      BY <1>4, <3>1, OwnedMeans DEF Alive
    <3>3. capture_workers[d] = t => capture_workers'[d] = t
      BY <1>1, <1>2, <1>6 DEF WorkersOK, Slots, NoSlot
    <3> QED BY <1>1, <1>2, <1>3, <3>2, <3>3, OwnedStays
  <2> QED BY <2>1, <2>2
<1>7. AddCamera(c) \/ UNCHANGED <<capture_workers, processes>>
  BY DEF Finish
<1> QED BY <1>5, <1>6, <1>7 DEF AddCamera

\* A step that leaves the books and the requests alone, and starts nothing.
LEMMA NothingStarts ==
    ASSUME OneProcessPerCamera, UNCHANGED <<requests, capture_workers>>,
           \A c \in Cameras, s \in Slots : Alive(c, s)' => Alive(c, s)
    PROVE  OneProcessPerCamera'
<1>1. SUFFICES ASSUME NEW c \in Cameras, NEW s \in Slots, Alive(c, s)' PROVE Owned(c, s)'
  BY OwnedMeansNext
<1>2. Owned(c, s)
  BY <1>1, OwnedMeans
<1> QED BY <1>2 DEF Owned, Joins, InPhase

LEMMA RestartOwns == ASSUME Restart PROVE OneProcessPerCamera'
<1>1. SUFFICES ASSUME NEW c \in Cameras, NEW s \in Slots, Alive(c, s)' PROVE Owned(c, s)'
  BY OwnedMeansNext
<1>2. c \in Enabled /\ s = 1
  BY <1>1 DEF Restart, Alive, DeadWorker
<1> QED BY <1>2 DEF Restart, Owned

LEMMA StepOwns == TypeOK /\ OneProcessPerCamera /\ [Next]_vars => OneProcessPerCamera'
<1> SUFFICES ASSUME TypeOK, OneProcessPerCamera, [Next]_vars PROVE OneProcessPerCamera'
  OBVIOUS
<1>1. RequestsOK /\ WorkersOK
  BY TypeParts
<1>2. ASSUME NEW r \in Requests, Receive(r) \/ Flush(r) PROVE OneProcessPerCamera'
  <2>1. /\ ~InPhase(r, {"joining"})
        /\ \E e : requests' = [requests EXCEPT ![r] = e]
        /\ UNCHANGED <<capture_workers, processes>>
    BY <1>2 DEF Receive, Flush, InPhase, Enter, Answer
  <2>2. SUFFICES ASSUME NEW d \in Cameras, NEW t \in Slots, Alive(d, t)'
                 PROVE  Owned(d, t)'
    BY OwnedMeansNext
  <2>3. Owned(d, t)
    BY <2>1, <2>2, OwnedMeans DEF Alive
  <2> QED BY <1>1, <2>1, <2>3, OwnedStays
<1>3. ASSUME NEW r \in Requests, StartRemove(r) \/ Join(r) \/ Finish(r)
      PROVE  OneProcessPerCamera'
  BY <1>3, StartRemoveOwns, JoinOwns, FinishOwns
<1>4. ASSUME NEW c \in Cameras, NEW s \in Slots, Alive(c, s),
             \E w \in CaptureWorker : Move(c, s, w),
             UNCHANGED <<requests, capture_workers>>
      PROVE  OneProcessPerCamera'
  <2>1. \A d \in Cameras, t \in Slots : Alive(d, t)' => Alive(d, t)
    BY <1>1, <1>4 DEF WorkersOK, Move, Alive
  <2> QED BY <1>4, <2>1, NothingStarts
<1>5. ASSUME NEW c \in Cameras, NEW s \in Slots, Capture(c, s) \/ WorkerDies(c, s)
      PROVE  OneProcessPerCamera'
  <2>1. CASE Capture(c, s)
    BY <1>4, <2>1, CaptureStep DEF Others, Alive
  <2>2. CASE WorkerDies(c, s)
    BY <1>4, <2>2, WorkerTypes DEF WorkerDies, Alive
  <2> QED BY <1>5, <2>1, <2>2
<1>6. CASE UNCHANGED <<requests, capture_workers, processes>>
  BY <1>6, NothingStarts DEF Alive
<1>7. Infer \/ Bridge \/ ProcessEvent \/ (\E c \in Cameras : StreamChanges(c))
      \/ UNCHANGED vars => UNCHANGED <<requests, capture_workers, processes>>
  BY DEF Infer, Bridge, ProcessEvent, StreamChanges, vars
<1>8. CASE Restart
  BY <1>8, RestartOwns
<1> QED BY <1>2, <1>3, <1>5, <1>6, <1>7, <1>8 DEF Next, Handle

\* A camera never has two living capture processes on the books or off them,
\* however requests, crashes and restarts interleave: every frame is counted once.
THEOREM OneProcess == Spec => []OneProcessPerCamera
<1>1. Init => OneProcessPerCamera
  BY DEF Init, OneProcessPerCamera, DeadWorker
<1>2. TypeOK /\ OneProcessPerCamera /\ [Next]_vars => OneProcessPerCamera'
  BY StepOwns
<1> QED BY <1>1, <1>2, PipelineTypes, PTL DEF Spec

-----------------------------------------------------------------------------
(* Deleted rows.                                                           *)
(* Only a create could bring a row back, because an UPDATE of a row that   *)
(* is gone changes nothing.  So a camera somebody is creating, in requests *)
(* Q and rows R, must never have had a row, and have no other request.     *)

Creates(q) == q # NoRequest /\ q.kind = "create"
CreatesAreNew(Q, R) ==
    \A r \in Requests : Creates(Q[r]) =>
        /\ R[Q[r].camera].present = "never"
        /\ \A q \in Requests \ {r} : Q[q] # NoRequest => Q[q].camera # Q[r].camera

\* What is left of the requests, and the rows, after a step that neither receives nor commits.
Remain(P, Q) ==
    \A r \in Requests : Q[r] # NoRequest =>
        P[r] # NoRequest /\ Q[r].kind = P[r].kind /\ Q[r].camera = P[r].camera
SamePresence(R, S) == \A c \in Cameras : S[c].present = R[c].present

LEMMA NewStayNew ==
    ASSUME TypeOK, CreatesAreNew(requests, rows), Remain(requests, requests'), SamePresence(rows, rows')
    PROVE  CreatesAreNew(requests', rows')
<1> SUFFICES ASSUME NEW r \in Requests, Creates(requests'[r])
             PROVE  /\ rows'[requests'[r].camera].present = "never"
                    /\ \A q \in Requests \ {r} : requests'[q] # NoRequest => requests'[q].camera # requests'[r].camera
  BY DEF CreatesAreNew
<1>1. Creates(requests[r]) /\ requests'[r].camera = requests[r].camera
  BY DEF Creates, Remain
<1>2. requests[r].camera \in Cameras
  BY <1>1, TypeParts DEF RequestsOK, Request, Creates
<1>3. rows[requests[r].camera].present = "never"
  BY <1>1 DEF CreatesAreNew
<1>4. \A q \in Requests \ {r} : requests'[q] # NoRequest => requests'[q].camera # requests'[r].camera
  BY <1>1 DEF CreatesAreNew, Remain
<1> QED BY <1>1, <1>2, <1>3, <1>4 DEF SamePresence

\* The presence that a request writes.
LEMMA WrittenPresence ==
    ASSUME RowsOK, RequestsOK, NEW r \in Requests, requests[r] # NoRequest
    PROVE  Written(r).present = CASE requests[r].kind = "create" -> "yes"
                                  [] requests[r].kind = "delete" -> "deleted"
                                  [] OTHER -> rows[requests[r].camera].present
<1> DEFINE row == rows[requests[r].camera]
<1>1. requests[r].kind \in AllKinds /\ row \in Row
  BY DEF RowsOK, RequestsOK, Request
<1> HIDE DEF row
<1>2. \A e, st : [row EXCEPT !.is_enabled = Changed(requests[r].seen.is_enabled, @, e),
                            !.status = Changed(requests[r].seen.status, @, st)].present = row.present
  BY <1>1 DEF Row
<1>3. CASE requests[r].kind = "create"
  BY <1>3 DEF Written
<1>4. CASE requests[r].kind = "delete"
  BY <1>4 DEF Written, AbsentRow
<1>5. CASE requests[r].kind = "enable"
  BY <1>5, <1>2 DEF Written, row
<1>6. CASE requests[r].kind = "disable"
  BY <1>6, <1>2 DEF Written, row
<1>7. CASE requests[r].kind = "restart"
  BY <1>7, <1>2 DEF Written, row
<1>8. CASE requests[r].kind = "patch"
  BY <1>8, <1>2 DEF Written, row
<1> QED BY <1>1, <1>3, <1>4, <1>5, <1>6, <1>7, <1>8 DEF AllKinds, row

\* A row once deleted.
Buried(R, S) == \A c \in Cameras : R[c].present = "deleted" => S[c].present = "deleted"

LEMMA ReceiveNew ==
    ASSUME TypeOK, CreatesAreNew(requests, rows), NEW r \in Requests, Receive(r)
    PROVE  CreatesAreNew(requests', rows') /\ Buried(rows, rows')
<1>1. PICK kind \in Kinds, c \in Cameras, value \in BOOLEAN :
        /\ rows[c].present = (IF kind = "create" THEN "never" ELSE "yes")
        /\ kind = "create" =>
            \A q \in Requests : requests[q] # NoRequest => requests[q].camera # c
        /\ requests' = [requests EXCEPT ![r] =
            [kind |-> kind, camera |-> c, value |-> value, seen |-> rows[c],
             phase |-> "loaded", slot |-> NoSlot]]
  BY DEF Receive
<1>2. rows' = rows /\ requests[r] = NoRequest
  BY DEF Receive
<1>3. /\ requests'[r].kind = kind /\ requests'[r].camera = c
      /\ \A q \in Requests \ {r} : requests'[q] = requests[q]
  BY <1>1, TypeParts DEF RequestsOK
<1>4. ASSUME NEW q \in Requests, Creates(requests'[q])
      PROVE  /\ rows'[requests'[q].camera].present = "never"
             /\ \A p \in Requests \ {q} : requests'[p] # NoRequest => requests'[p].camera # requests'[q].camera
  <2>1. CASE q = r
    BY <1>1, <1>2, <1>3, <1>4, <2>1 DEF Creates
  <2>2. CASE q # r
    <3>1. Creates(requests[q]) /\ requests'[q] = requests[q]
      BY <1>3, <1>4, <2>2 DEF Creates
    <3>2. /\ rows[requests[q].camera].present = "never"
          /\ \A p \in Requests \ {q} : requests[p] # NoRequest => requests[p].camera # requests[q].camera
      BY <3>1 DEF CreatesAreNew
    <3>3. c # requests[q].camera
      BY <1>1, <3>1, <3>2 DEF Creates
    <3> QED BY <1>2, <1>3, <3>1, <3>2, <3>3
  <2> QED BY <2>1, <2>2
<1> QED BY <1>2, <1>4 DEF CreatesAreNew, Buried

LEMMA FinishNew ==
    ASSUME TypeOK, CreatesAreNew(requests, rows), NEW r \in Requests, Finish(r)
    PROVE  CreatesAreNew(requests', rows') /\ Buried(rows, rows')
<1> DEFINE c == requests[r].camera
<1>1. RowsOK /\ RequestsOK /\ requests[r] # NoRequest /\ c \in Cameras
  BY TypeParts DEF Finish, InPhase, RequestsOK, Request
<1>2. requests' = [requests EXCEPT ![r] = NoRequest]
  BY DEF Finish, Answer
<1>3. Remain(requests, requests')
  BY <1>1, <1>2 DEF Remain, RequestsOK
<1>4. rows' = rows \/ rows' = [rows EXCEPT ![c] = Written(r)]
  BY DEF Finish, Commit
<1>5. CASE rows' = rows
  <2>1. SamePresence(rows, rows') /\ Buried(rows, rows')
    BY <1>5 DEF SamePresence, Buried
  <2> QED BY <1>3, <2>1, NewStayNew
<1>6. CASE rows' = [rows EXCEPT ![c] = Written(r)]
  <2>1. /\ rows'[c] = Written(r)
        /\ \A d \in Cameras \ {c} : rows'[d] = rows[d]
    BY <1>1, <1>6 DEF RowsOK
  <2>2. /\ requests[r].kind = "create" => rows[c].present = "never"
        /\ requests[r].kind \notin {"create", "delete"} => Written(r).present = rows[c].present
        /\ requests[r].kind = "delete" => Written(r).present = "deleted"
    BY <1>1, WrittenPresence DEF CreatesAreNew, Creates
  <2>3. Buried(rows, rows')
    BY <2>1, <2>2 DEF Buried
  <2>4. ASSUME NEW q \in Requests, Creates(requests'[q])
        PROVE  /\ rows'[requests'[q].camera].present = "never"
               /\ \A p \in Requests \ {q} : requests'[p] # NoRequest => requests'[p].camera # requests'[q].camera
    <3>1. q # r /\ requests'[q] = requests[q] /\ Creates(requests[q])
      BY <1>1, <1>2, <2>4 DEF Creates, RequestsOK
    <3>2. /\ rows[requests[q].camera].present = "never" /\ requests[q].camera # c
          /\ \A p \in Requests \ {q} : requests[p] # NoRequest => requests[p].camera # requests[q].camera
      BY <1>1, <3>1 DEF CreatesAreNew
    <3>3. requests[q].camera \in Cameras
      BY <1>1, <3>1 DEF Creates, RequestsOK, Request
    <3>4. \A p \in Requests \ {q} : requests'[p] # NoRequest => requests'[p] = requests[p]
      BY <1>1, <1>2 DEF RequestsOK
    <3> QED BY <2>1, <3>1, <3>2, <3>3, <3>4
  <2> QED BY <2>3, <2>4 DEF CreatesAreNew
<1> QED BY <1>4, <1>5, <1>6

LEMMA ProcessEventPresence ==
    ASSUME TypeOK, ProcessEvent PROVE SamePresence(rows, rows')
<1> DEFINE event == Head(async_queue)
           k == event.camera
<1>1. rows \in [Cameras -> Row]
  BY TypeParts DEF RowsOK
<1>2. rows' = rows \/ rows' = UpdateStatus(event)
  BY DEF ProcessEvent
<1> HIDE DEF event
<1>3. UpdateStatus(event) =
        [rows EXCEPT ![k] = IF rows[k].present = "yes" THEN [rows[k] EXCEPT !.status = DbStatus(event.state)]
                            ELSE rows[k]]
  BY DEF UpdateStatus
<1>4. k \in Cameras => [rows[k] EXCEPT !.status = DbStatus(event.state)].present = rows[k].present
  BY <1>1 DEF Row
<1> HIDE DEF k
<1>5. ASSUME NEW c \in Cameras PROVE UpdateStatus(event)[c].present = rows[c].present
  BY <1>1, <1>3, <1>4
<1> QED BY <1>2, <1>5 DEF SamePresence

LEMMA StepBuries ==
    ASSUME TypeOK, CreatesAreNew(requests, rows), [Next]_vars
    PROVE  CreatesAreNew(requests', rows') /\ Buried(rows, rows')
<1>1. RowsOK /\ RequestsOK
  BY TypeParts
<1>2. ASSUME Remain(requests, requests'), SamePresence(rows, rows')
      PROVE  CreatesAreNew(requests', rows') /\ Buried(rows, rows')
  BY <1>2, NewStayNew DEF SamePresence, Buried
<1>3. rows' = rows => SamePresence(rows, rows')
  BY DEF SamePresence
<1>4. requests' = requests => Remain(requests, requests')
  BY DEF Remain
<1>5. ASSUME NEW r \in Requests, Flush(r) \/ StartRemove(r) \/ Join(r)
      PROVE  Remain(requests, requests') /\ rows' = rows
  <2>1. rows' = rows /\ requests[r] # NoRequest
    BY <1>5 DEF Flush, StartRemove, Join, InPhase
  <2>2. requests[r] \in Request
    BY <1>1, <2>1 DEF RequestsOK
  <2>3. \/ requests' = [requests EXCEPT ![r] = NoRequest]
        \/ \E phase : requests' = [requests EXCEPT ![r].phase = phase]
        \/ \E s : requests' = [requests EXCEPT ![r].phase = "joining", ![r].slot = s]
    BY <1>5 DEF Flush, StartRemove, Join, Enter, Answer
  <2>4. CASE requests' = [requests EXCEPT ![r] = NoRequest]
    BY <1>1, <2>1, <2>4 DEF Remain, RequestsOK
  <2>5. ASSUME NEW phase, requests' = [requests EXCEPT ![r].phase = phase]
        PROVE  Remain(requests, requests')
    BY <1>1, <2>1, <2>2, <2>5 DEF Remain, RequestsOK, Request
  <2>6. ASSUME NEW s, requests' = [requests EXCEPT ![r].phase = "joining", ![r].slot = s]
        PROVE  Remain(requests, requests')
    BY <1>1, <2>1, <2>2, <2>6 DEF Remain, RequestsOK, Request
  <2> QED BY <2>1, <2>3, <2>4, <2>5, <2>6
<1>6. ASSUME NEW r \in Requests, Handle(r)
      PROVE  CreatesAreNew(requests', rows') /\ Buried(rows, rows')
  BY <1>2, <1>3, <1>5, <1>6, ReceiveNew, FinishNew DEF Handle
<1>7. ASSUME NEW c \in Cameras, NEW s \in Slots, Capture(c, s) \/ WorkerDies(c, s)
      PROVE  requests' = requests /\ rows' = rows
  BY <1>7, CaptureStep DEF Others, WorkerDies
<1>8. Infer \/ Bridge \/ (\E c \in Cameras : StreamChanges(c)) \/ UNCHANGED vars
         => requests' = requests /\ rows' = rows
  BY DEF Infer, Bridge, StreamChanges, vars
<1>9. ProcessEvent => requests' = requests /\ SamePresence(rows, rows')
  BY ProcessEventPresence DEF ProcessEvent
<1>10. Restart => Remain(requests, requests') /\ rows' = rows
  BY DEF Restart, Remain
<1> QED BY <1>2, <1>3, <1>4, <1>6, <1>7, <1>8, <1>9, <1>10 DEF Next

\* A deleted camera never comes back into the table, whatever requests overlap, commits fail,
\* and events are still under way (get_db, and the UPDATE of EventEngine._process_event).
THEOREM DeletedStayDeleted == Spec => DeletedForGood
<1> DEFINE New == CreatesAreNew(requests, rows)
<1>1. Init => New
  BY DEF Init, CreatesAreNew, Creates
<1>2. TypeOK /\ New /\ [Next]_vars => New'
  BY StepBuries
<1>3. TypeOK /\ New /\ [Next]_vars
         => [\A c \in Cameras : rows[c].present = "deleted" => rows'[c].present = "deleted"]_vars
  BY StepBuries DEF Buried
<1>4. Spec => [](TypeOK /\ New)
  <2> HIDE DEF New
  <2> QED BY <1>1, <1>2, PipelineTypes, PTL DEF Spec
<1> HIDE DEF New
<1> QED BY <1>3, <1>4, PTL DEF Spec, DeletedForGood

-----------------------------------------------------------------------------
(* One client.                                                             *)
(* The dashboard's requests, one after the other and with commits that     *)
(* succeed.  Between two requests all cameras match; during one all others *)
(* do, and its own is where the handler has brought it.                    *)

Matches(c, W, R) == W[c] # NoSlot <=> R[c].present = "yes" /\ R[c].is_enabled

\* The camera of request q, before the handler touches the engine and after a removal.
Untouched(q, W, R) ==
    /\ Matches(q.camera, W, R)
    /\ R[q.camera].present = (IF q.kind = "create" THEN "never" ELSE "yes")
Taken(q, W, R) ==
    /\ q.kind \in {"disable", "delete"}
    /\ W[q.camera] = NoSlot /\ R[q.camera].present = "yes"

Between(q, W, R) ==
    IF q = NoRequest THEN \A c \in Cameras : Matches(c, W, R)
    ELSE /\ \A c \in Cameras \ {q.camera} : Matches(c, W, R)
         /\ q.kind \in {"create", "enable", "disable", "delete"}
         /\ q.kind # "create" => q.seen.is_enabled = R[q.camera].is_enabled
         /\ q.phase \in {"loaded", "flushed"} => Untouched(q, W, R)
         /\ q.phase \in {"joining", "removed"} => Taken(q, W, R)
         /\ q.phase = "flushed" => q.kind # "delete"

\* The parts of the rows that Between depends on.
SameRows(R, S) == \A c \in Cameras : S[c].present = R[c].present /\ S[c].is_enabled = R[c].is_enabled

LEMMA BetweenStays ==
    ASSUME NEW q, q # NoRequest => q.camera \in Cameras, NEW W, NEW R, NEW S,
           SameRows(R, S), Between(q, W, R)
    PROVE  Between(q, W, S)
BY DEF Between, Untouched, Taken, Matches, SameRows

LEMMA ProcessEventRows ==
    ASSUME TypeOK, ProcessEvent PROVE SameRows(rows, rows')
<1> DEFINE event == Head(async_queue)
           k == event.camera
<1>1. rows \in [Cameras -> Row]
  BY TypeParts DEF RowsOK
<1>2. rows' = rows \/ rows' = UpdateStatus(event)
  BY DEF ProcessEvent
<1> HIDE DEF event
<1>3. UpdateStatus(event) =
        [rows EXCEPT ![k] = IF rows[k].present = "yes" THEN [rows[k] EXCEPT !.status = DbStatus(event.state)]
                            ELSE rows[k]]
  BY DEF UpdateStatus
<1>4. k \in Cameras =>
        /\ [rows[k] EXCEPT !.status = DbStatus(event.state)].present = rows[k].present
        /\ [rows[k] EXCEPT !.status = DbStatus(event.state)].is_enabled = rows[k].is_enabled
  BY <1>1 DEF Row
<1> HIDE DEF k
<1>5. ASSUME NEW c \in Cameras
      PROVE  /\ UpdateStatus(event)[c].present = rows[c].present
             /\ UpdateStatus(event)[c].is_enabled = rows[c].is_enabled
  BY <1>1, <1>3, <1>4
<1> QED BY <1>2, <1>5 DEF SameRows

\* The row the only client's request writes.
LEMMA WrittenFlag ==
    ASSUME RowsOK, RequestsOK, NEW r \in Requests, requests[r] # NoRequest,
           requests[r].kind \in {"create", "enable", "disable", "delete"},
           requests[r].kind # "create" => requests[r].seen.is_enabled = rows[requests[r].camera].is_enabled
    PROVE  /\ requests[r].kind = "create" =>
                 Written(r).present = "yes" /\ Written(r).is_enabled = requests[r].value
           /\ requests[r].kind = "enable" => Written(r).is_enabled
           /\ requests[r].kind = "disable" => ~Written(r).is_enabled
<1> DEFINE row == rows[requests[r].camera]
<1>1. /\ row \in Row /\ requests[r].value \in BOOLEAN /\ requests[r].seen \in Row
      /\ requests[r].seen.is_enabled \in BOOLEAN
  BY DEF RowsOK, RequestsOK, Request, Row
<1>2. CASE requests[r].kind = "create"
  BY <1>2 DEF Written
<1>3. CASE requests[r].kind = "enable"
  <2>1. Written(r) = [row EXCEPT !.is_enabled = Changed(requests[r].seen.is_enabled, @, TRUE),
                                 !.status = Changed(requests[r].seen.status, @, "connecting")]
    BY <1>3 DEF Written
  <2>2. Written(r).is_enabled = Changed(requests[r].seen.is_enabled, row.is_enabled, TRUE)
    <3> HIDE DEF row
    <3> QED BY <1>1, <2>1 DEF Row
  <2>3. Changed(requests[r].seen.is_enabled, row.is_enabled, TRUE) = TRUE
    BY <1>3 DEF Changed
  <2> QED BY <1>3, <2>2, <2>3
<1>4. CASE requests[r].kind = "disable"
  <2>1. Written(r) = [row EXCEPT !.is_enabled = Changed(requests[r].seen.is_enabled, @, FALSE),
                                 !.status = Changed(requests[r].seen.status, @, "inactive")]
    BY <1>4 DEF Written
  <2>2. Written(r).is_enabled = Changed(requests[r].seen.is_enabled, row.is_enabled, FALSE)
    <3> HIDE DEF row
    <3> QED BY <1>1, <2>1 DEF Row
  <2>3. Changed(requests[r].seen.is_enabled, row.is_enabled, FALSE) = FALSE
    BY <1>4 DEF Changed
  <2> QED BY <1>4, <2>2, <2>3
<1>5. CASE requests[r].kind = "delete"
  BY <1>5
<1> QED BY <1>2, <1>3, <1>4, <1>5

LEMMA FinishMatches ==
    ASSUME TypeOK, ~CommitsFail, NEW r \in Requests, Between(requests[r], capture_workers, rows), Finish(r)
    PROVE  requests'[r] = NoRequest /\ \A c \in Cameras : Matches(c, capture_workers', rows')
<1> DEFINE q == requests[r]
           c == q.camera
<1>1. RowsOK /\ RequestsOK /\ WorkersOK /\ q # NoRequest /\ c \in Cameras /\ q.value \in BOOLEAN
  BY TypeParts DEF Finish, InPhase, RequestsOK, Request
<1>2. requests'[r] = NoRequest
  BY <1>1 DEF Finish, Answer, RequestsOK
<1>3. rows' = [rows EXCEPT ![c] = Written(r)]
  BY DEF Finish, Commit
<1>4. rows'[c] = Written(r) /\ \A d \in Cameras \ {c} : rows'[d] = rows[d]
  BY <1>1, <1>3 DEF RowsOK
<1>5. /\ \A d \in Cameras \ {c} : Matches(d, capture_workers, rows)
      /\ q.kind \in {"create", "enable", "disable", "delete"}
      /\ q.kind # "create" => q.seen.is_enabled = rows[c].is_enabled
      /\ q.phase = "flushed" => Untouched(q, capture_workers, rows)
      /\ q.phase = "removed" => Taken(q, capture_workers, rows)
  BY <1>1 DEF Between
<1>6. /\ q.kind = "create" => Written(r).present = "yes" /\ Written(r).is_enabled = q.value
      /\ q.kind = "enable" => Written(r).is_enabled
      /\ q.kind = "disable" => ~Written(r).is_enabled
      /\ q.kind = "delete" => Written(r).present = "deleted"
      /\ q.kind = "enable" => Written(r).present = rows[c].present
  BY <1>1, <1>5, WrittenFlag, WrittenPresence
<1>7. /\ q.kind \in {"create", "enable"} => q.phase = "flushed"
      /\ q.kind \in {"disable", "delete"} => q.phase = "removed"
  BY DEF Finish, InPhase
<1>8. \/ AddCamera(c) /\ (q.kind = "enable" \/ (q.kind = "create" /\ q.value))
      \/ /\ capture_workers' = capture_workers
         /\ ~(q.kind = "enable" \/ (q.kind = "create" /\ q.value))
  BY <1>5 DEF Finish
<1>9. AddCamera(c) => /\ capture_workers'[c] # NoSlot
                      /\ \A d \in Cameras \ {c} : capture_workers'[d] = capture_workers[d]
  <2> SUFFICES ASSUME AddCamera(c)
               PROVE  /\ capture_workers'[c] # NoSlot
                      /\ \A d \in Cameras \ {c} : capture_workers'[d] = capture_workers[d]
    OBVIOUS
  <2>1. CASE capture_workers[c] # NoSlot
    BY <2>1 DEF AddCamera
  <2>2. CASE capture_workers[c] = NoSlot
    <3>1. PICK s \in Slots : capture_workers' = [capture_workers EXCEPT ![c] = s]
      BY <2>2 DEF AddCamera
    <3> QED BY <1>1, <3>1 DEF WorkersOK, Slots, NoSlot
  <2> QED BY <2>1, <2>2
<1> HIDE DEF q, c
<1>10. Matches(c, capture_workers', rows')
  <2>1. CASE q.kind = "enable"
    BY <1>4, <1>5, <1>6, <1>7, <1>8, <1>9, <2>1 DEF Matches, Untouched, c
  <2>2. CASE q.kind = "create"
    BY <1>1, <1>4, <1>5, <1>6, <1>7, <1>8, <1>9, <2>2 DEF Matches, Untouched, c
  <2>3. CASE q.kind = "disable"
    BY <1>4, <1>5, <1>6, <1>7, <1>8, <2>3 DEF Matches, Taken, c
  <2>4. CASE q.kind = "delete"
    BY <1>4, <1>5, <1>6, <1>7, <1>8, <2>4 DEF Matches, Taken, c
  <2> QED BY <1>5, <2>1, <2>2, <2>3, <2>4
<1>11. \A d \in Cameras \ {c} : Matches(d, capture_workers', rows')
  BY <1>4, <1>5, <1>8, <1>9 DEF Matches
<1> QED BY <1>2, <1>10, <1>11

Dashboard == {"create", "enable", "disable", "delete"}

LEMMA ReceiveBetween ==
    ASSUME TypeOK, Kinds \subseteq Dashboard, NEW r \in Requests,
           Between(requests[r], capture_workers, rows), Receive(r)
    PROVE  Between(requests'[r], capture_workers', rows')
<1>1. PICK kind \in Kinds, c \in Cameras, value \in BOOLEAN :
        /\ rows[c].present = (IF kind = "create" THEN "never" ELSE "yes")
        /\ requests' = [requests EXCEPT ![r] =
            [kind |-> kind, camera |-> c, value |-> value, seen |-> rows[c],
             phase |-> "loaded", slot |-> NoSlot]]
  BY DEF Receive
<1>2. requests'[r] = [kind |-> kind, camera |-> c, value |-> value, seen |-> rows[c],
                      phase |-> "loaded", slot |-> NoSlot]
  BY <1>1, TypeParts DEF RequestsOK
<1>3. \A d \in Cameras : Matches(d, capture_workers, rows)
  BY DEF Receive, Between
<1>4. capture_workers' = capture_workers /\ rows' = rows
  BY DEF Receive
<1>5. kind \in {"create", "enable", "disable", "delete"}
  BY DEF Dashboard
<1> DEFINE q == requests'[r]
<1>6. q.kind = kind /\ q.camera = c /\ q.seen = rows[c] /\ q.phase = "loaded"
  BY <1>2
<1>7. q # NoRequest
  <2>1. q \in Request
    BY <1>1, <1>2, TypeParts, KindAssumption DEF RowsOK, Request, NoSlot
  <2> QED BY <2>1, NoRequestAssumption
<1> HIDE DEF q
<1>8. Between(q, capture_workers, rows)
  BY <1>1, <1>3, <1>5, <1>6, <1>7 DEF Between, Untouched
<1> QED BY <1>4, <1>8 DEF q

\* What StartRemove does to the entry of its camera.
LEMMA StartRemoveBetween ==
    ASSUME TypeOK, NEW r \in Requests,
           Between(requests[r], capture_workers, rows), StartRemove(r)
    PROVE  Between(requests'[r], capture_workers', rows')
<1> DEFINE q == requests[r]
           c == q.camera
           p == requests'[r]
<1>1. RowsOK /\ RequestsOK /\ WorkersOK /\ q # NoRequest /\ q \in Request /\ c \in Cameras
  BY TypeParts DEF StartRemove, InPhase, RequestsOK, Request
<1>2. /\ \A d \in Cameras \ {c} : Matches(d, capture_workers, rows)
      /\ q.kind \in {"create", "enable", "disable", "delete"}
      /\ q.kind # "create" => q.seen.is_enabled = rows[c].is_enabled
      /\ q.phase \in {"loaded", "flushed"} => Untouched(q, capture_workers, rows)
  BY <1>1 DEF Between
<1>3. q.kind \in {"disable", "delete"} /\ q.phase \in {"loaded", "flushed"}
  BY <1>2 DEF StartRemove, InPhase
<1>4. rows[c].present = "yes" /\ rows' = rows
  BY <1>2, <1>3 DEF Untouched, StartRemove
<1>5. \/ /\ capture_workers[c] = NoSlot /\ capture_workers' = capture_workers
         /\ requests' = [requests EXCEPT ![r].phase = "removed"]
      \/ /\ capture_workers' = [capture_workers EXCEPT ![c] = NoSlot]
         /\ requests' = [requests EXCEPT ![r].phase = "joining", ![r].slot = capture_workers[c]]
  BY DEF StartRemove, Enter
<1>6. /\ capture_workers'[c] = NoSlot
      /\ \A d \in Cameras \ {c} : capture_workers'[d] = capture_workers[d]
  BY <1>1, <1>5 DEF WorkersOK
<1>7. /\ p.kind = q.kind /\ p.camera = c /\ p.seen = q.seen
      /\ p.phase \in {"joining", "removed"} /\ p # NoRequest
  <2>1. requests' \in [Requests -> Request \cup {NoRequest}]
    BY TypeParts, StartRemoveType DEF TypeOK
  <2>2. CASE requests' = [requests EXCEPT ![r].phase = "removed"]
    <3>1. p = [q EXCEPT !.phase = "removed"]
      BY <1>1, <2>2 DEF RequestsOK
    <3>2. p \in Request
      BY <1>1, <3>1 DEF Request
    <3> HIDE DEF p
    <3>3. p.kind = q.kind /\ p.camera = q.camera /\ p.seen = q.seen /\ p.phase = "removed"
      <4> HIDE DEF q
      <4> QED BY <1>1, <3>1 DEF Request
    <3> QED BY <3>2, <3>3, NoRequestAssumption
  <2>3. CASE requests' = [requests EXCEPT ![r].phase = "joining", ![r].slot = capture_workers[c]]
    <3>1. p = [q EXCEPT !.phase = "joining", !.slot = capture_workers[c]]
      BY <1>1, <2>3 DEF RequestsOK
    <3>2. p \in Request
      BY <1>1, <3>1 DEF Request, WorkersOK
    <3> HIDE DEF p
    <3>3. p.kind = q.kind /\ p.camera = q.camera /\ p.seen = q.seen /\ p.phase = "joining"
      <4> HIDE DEF q
      <4> QED BY <1>1, <3>1 DEF Request
    <3> QED BY <3>2, <3>3, NoRequestAssumption
  <2> QED BY <1>5, <2>2, <2>3
<1> HIDE DEF p, q, c
<1>8. \A d \in Cameras \ {c} : Matches(d, capture_workers', rows)
  BY <1>2, <1>6 DEF Matches
<1>9. Taken(p, capture_workers', rows)
  BY <1>3, <1>4, <1>6, <1>7 DEF Taken
<1>10. Between(p, capture_workers', rows)
  BY <1>2, <1>7, <1>8, <1>9 DEF Between
<1> QED BY <1>4, <1>10 DEF p

LEMMA FlushBetween ==
    ASSUME TypeOK, NEW r \in Requests,
           Between(requests[r], capture_workers, rows), Flush(r) \/ Join(r)
    PROVE  Between(requests'[r], capture_workers', rows')
<1> DEFINE q == requests[r]
           p == requests'[r]
<1>1. RequestsOK /\ q # NoRequest /\ q \in Request /\ q.camera \in Cameras
  BY TypeParts DEF Flush, Join, InPhase, RequestsOK, Request
<1>2. capture_workers' = capture_workers /\ rows' = rows
  BY DEF Flush, Join
<1>3. PICK phase \in {"flushed", "removed"} :
        /\ requests' = [requests EXCEPT ![r].phase = phase]
        /\ phase = "flushed" => q.kind # "delete" /\ q.phase = "loaded"
        /\ phase = "removed" => q.phase = "joining"
  <2>1. CASE Flush(r)
    <3>1. q.phase = "loaded" /\ q.kind # "delete"
      BY <2>1 DEF Flush, InPhase
    <3>2. q.kind # "create" => rows[q.camera].present = "yes"
      BY <1>1, <3>1 DEF Between, Untouched
    <3>3. requests' = [requests EXCEPT ![r].phase = "flushed"]
      BY <2>1, <3>2 DEF Flush, Enter, Present
    <3> QED BY <3>1, <3>3
  <2>2. CASE Join(r)
    BY <2>2 DEF Join, InPhase, Enter
  <2> QED BY <2>1, <2>2
<1>4. p = [q EXCEPT !.phase = phase]
  BY <1>1, <1>3 DEF RequestsOK
<1>5. p \in Request
  BY <1>1, <1>4 DEF Request
<1> HIDE DEF p
<1>6. p.kind = q.kind /\ p.camera = q.camera /\ p.seen = q.seen /\ p.phase = phase
  <2> HIDE DEF q
  <2> QED BY <1>1, <1>4 DEF Request
<1>7. p # NoRequest
  BY <1>5, NoRequestAssumption
<1> HIDE DEF q
<1>8. Between(q, capture_workers, rows)
  BY DEF q
<1>9. Between(p, capture_workers, rows)
  BY <1>1, <1>3, <1>6, <1>7, <1>8 DEF Between, Untouched, Taken
<1> QED BY <1>2, <1>9 DEF p

LEMMA RestartMatches ==
    ASSUME RowsOK, Restart
    PROVE  /\ \A r \in Requests : requests'[r] = NoRequest
           /\ \A c \in Cameras : Matches(c, capture_workers', rows')
  BY DEF Restart, Enabled, Present, Matches, NoSlot

LEMMA StepBetween ==
    ASSUME TypeOK, ~CommitsFail, Kinds \subseteq Dashboard, NEW r, Requests = {r},
           Between(requests[r], capture_workers, rows), [Next]_vars
    PROVE  Between(requests'[r], capture_workers', rows')
<1>1. RowsOK /\ RequestsOK /\ (requests[r] # NoRequest => requests[r].camera \in Cameras)
  BY TypeParts DEF RequestsOK, Request
<1>2. ASSUME requests' = requests, capture_workers' = capture_workers, rows' = rows
      PROVE  Between(requests'[r], capture_workers', rows')
  BY <1>2
<1>3. ASSUME Handle(r) PROVE Between(requests'[r], capture_workers', rows')
  <2>1. Finish(r) => Between(requests'[r], capture_workers', rows')
    BY FinishMatches DEF Between
  <2> QED BY <1>3, <2>1, ReceiveBetween, FlushBetween, StartRemoveBetween DEF Handle
<1>4. ASSUME NEW c \in Cameras, NEW s \in Slots, Capture(c, s) \/ WorkerDies(c, s)
      PROVE  Between(requests'[r], capture_workers', rows')
  <2>1. requests' = requests /\ capture_workers' = capture_workers /\ rows' = rows
    BY <1>4, CaptureStep DEF Others, WorkerDies
  <2> QED BY <1>2, <2>1
<1>5. ASSUME Infer \/ Bridge \/ (\E c \in Cameras : StreamChanges(c)) \/ UNCHANGED vars
      PROVE  Between(requests'[r], capture_workers', rows')
  <2>1. requests' = requests /\ capture_workers' = capture_workers /\ rows' = rows
    BY <1>5 DEF Infer, Bridge, StreamChanges, vars
  <2> QED BY <1>2, <2>1
<1>6. ASSUME ProcessEvent PROVE Between(requests'[r], capture_workers', rows')
  <2>1. requests' = requests /\ capture_workers' = capture_workers
    BY <1>6 DEF ProcessEvent
  <2>2. Between(requests[r], capture_workers, rows')
    BY <1>1, <1>6, ProcessEventRows, BetweenStays
  <2> QED BY <2>1, <2>2
<1>7. ASSUME Restart PROVE Between(requests'[r], capture_workers', rows')
  BY <1>1, <1>7, RestartMatches DEF Between
<1> QED BY <1>3, <1>4, <1>5, <1>6, <1>7 DEF Next

\* As long as one client sends the requests of the dashboard, one after the other, and every
\* commit succeeds, the enabled cameras are exactly those with a worker between its requests
\* (routers/cameras.py with EngineManager.add_camera and remove_camera), even though
\* processes crash and the backend restarts at any point.
THEOREM OneClientMatches ==
    ASSUME NEW r, Requests = {r}, Kinds \subseteq Dashboard, ~CommitsFail
    PROVE  Spec => []WorkersMatchRows
<1> DEFINE Inv == Between(requests[r], capture_workers, rows)
<1>1. Init => Inv
  BY DEF Init, Between, Matches, AbsentRow
<1>2. TypeOK /\ Inv /\ [Next]_vars => Inv'
  BY StepBetween
<1>3. Inv => WorkersMatchRows
  BY DEF WorkersMatchRows, Idle, Between, Matches
<1> HIDE DEF Inv
<1> QED BY <1>1, <1>2, <1>3, PipelineTypes, PTL DEF Spec

\* Whatever overlapping requests and failed commits have left, the startup of the backend
\* (lifespan of main.py) starts exactly the cameras whose rows are enabled.
THEOREM RestartAlwaysHeals == Spec => RestartHeals
<1>1. TypeOK => [Restart => WorkersMatchRows']_vars
  BY TypeParts, RestartMatches DEF WorkersMatchRows, Matches
<1> QED BY <1>1, PipelineTypes, PTL DEF RestartHeals, Spec
=============================================================================
