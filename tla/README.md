# TLA+ models of Retail-Agent

Retail-Agent watches store cameras, follows the people on them, counts who crosses which line or zone,
and estimates from that who bought something and how they paid. It is written in Python: asyncio
services over SQLite, and one process per camera for the video. These modules model the parts whose
correctness depends on order, timing and failure. TLC checks them on small instances, and TLAPS proves
every safety property of the runs for all values of the constants. Paths below are relative to the repository;
`PROJECT.json` maps every definition to the lines it stands for.

## 1. The system

The repository holds three generations of the same product, and each has its own code paths.

- **apps/backend** is the active backend: FastAPI, SQLite and a pipeline of processes. `main.py` starts it.
- **backend** is the older backend, organised in services. The unit tests under `tests/unit` test it.
- **services/cv-pipeline** is a stand-alone pipeline that posts its events over HTTP.

How a frame travels in the active backend:

    browser --HTTP--> routers/cameras.py --> EngineManager --starts/joins--> CaptureWorker (a process per camera)
                            |                     |                               | frame_queue (one frame)
                            v                     v                               v
                        table cameras      camera_states               InferenceWorker (one process)
                            ^                     ^                               | event_queue (1000, drops)
                            |                     +---- bridge thread <-----------+
                            |                                | asyncio queue (unbounded)
                            +------- EventEngine <-----------+
                                       |-> AnalyticsTracker -> tables person_tracks, zone_events, heatmap_cells
                                       |-> TransactionEngine -> tables transaction_*, sync_queue
                                       +-> WebSocket broadcasts

`Aggregator` and `CloudSyncService` are loops that read those tables. In the older backend
`CameraService` reads a stream into a buffer, `ByteTracker` follows people, and `EventService` turns
tracks into crossings and visitor sessions.

### Inventory

| Component (source) | State it keeps | Operations | What is hard | What makes it correct | Module |
|---|---|---|---|---|---|
| Transaction engine (apps/backend/services/transaction_engine.py) | sessions per (camera, track); tables of sessions, signals and predictions | process_frame: crossing, dwell tests, lost tracks, flush every 5 s | four kinds of commit with awaits between them, any of which may fail; a crash between them; two clocks | stages and dwell signals are earned, predictions rise, a departed session is left alone | TransactionEngine, SessionLedger |
| Transaction pages (routers/transaction_intelligence.py) | none: memory of the engine and its tables | seven queries | memory and tables differ by what commits failed | history is a past of the live page | TransactionPages |
| Camera pipeline (routers/cameras.py, services/cv_pipeline/{engine_manager, capture_worker, inference_worker, event_engine}.py) | table cameras; workers, their processes, camera_states; queues | six requests; capture, inference, bridge, status update, restart | requests overlap at awaits; join blocks the loop; bounded queues drop; processes die; commits fail after the engine acted | one process per camera; workers match the rows; a deleted row stays deleted; the status recovers | CameraPipeline |
| Stream reader (backend/app/services/{camera_service, stream_health}.py) | health state, retry policy, frame buffer, three tasks | start, stop, read, reconnect, dispatch, check | reconnects under stop and start, a full buffer, giving up, ignored transitions | newest frames in order; nothing left running after stop; reads again after outages | CameraService |
| Visitor sessions (backend/app/services/{event_service, line_crossing}.py, db/event_repository.py) | lines (table and detector), line states, crossing events, sessions | frame, crossing task, close task, line requests, restart | tasks nobody awaits; read before the write lock; lines edited under their states; ids used again | crossings alternate; sessions account for the log; stays are right; the past is kept | VisitorSessions |
| Analytics tracker, zone manager, heatmap (cv_pipeline/{analytics_tracker, zone_manager, heatmap_accumulator}.py) | tracks, zones of each track, throttles, grid | frame, push, heatmap flush, zone reload | a failed push after memory was changed; reload under live tracks | rows follow tracks; entries and exits alternate; no detection is counted twice | AnalyticsTracker |
| Visitor tracking (backend tracking_service.py, tracking_models.py) | tracked, lost and removed tracks, ids | update | two matching stages; marks applied twice | an absent visitor is given up in time | ByteTracker |
| Zone and checkout analytics (backend zone_*.py, checkout_*.py and repositories) | sessions per visitor and zone, checkout sessions | frame, exit event, stores by tasks, zone edits, reports | two services measure the same time in different ways; lost visitors are in no frame | sessions follow tracks; both agree; reports add up | ZoneVisits |
| Ingestion over HTTP (routers/events.py; services/cv-pipeline) | active tracks in memory, person_tracks, zone_events, heatmap | start, end, crossing and heatmap posts with retries; history | lost answers, late requests, restart of either side | each visit is one row, ended once; posts are filed under their own visit | TrackIngest |
| Aggregator and reports (aggregator.py, routers/{analytics, reports}.py) | hourly and daily rows | pass over cameras, pages | tracks come and go within a pass; midnight; UTC hours | the store covers the cameras; pages agree; rows catch up | Rollups |
| Camera manager (backend camera_manager.py, api/v1/endpoints/cameras.py, camera_repository.py, inference_engine/engine_manager.py) | rows, entries, captures | six requests, start, stop | requests interleave at the database; two dictionaries and a table | every capture has an entry; rows, entries and captures agree; names are free | CameraManager |
| Offline-first sync (backend sync_service.py) | marks "synced", back-off | gather, post, mark, back off | answered but not marked; outage | an outbox: at least once, ticked off only after delivery | SyncService, Outbox |
| Cloud sync queue, WebSockets, detection engines, dashboards, authentication, frontend, deployment, NSSM | see `PROJECT.json` | | | | section 16 |

At this commit `TrackingPipeline._process_engine_event` uses names that `tracking_models` does not have, so
in the older backend tracker and EventService are driven through `_on_detection_frame` and the unit tests.
`PROJECT.json` lists the hazards at their lines, and for the five no property covers, why.

## 2. Plan

Most important behaviour first; all ten steps are done. 1. TransactionEngine with SessionLedger, later its pages;
2. CameraPipeline; 3. CameraService; 4. VisitorSessions; 5. AnalyticsTracker; 6. SyncService against Outbox;
7. TrackIngest; 8. ByteTracker, composed with ZoneVisits; 9. Rollups; 10. CameraManager.

Left, should the project go on: the inside of `multiprocessing.Queue` (locks and the feeder thread, which decide what a
killed process leaves behind); AnalyticsTracker feeding TransactionEngine in one specification; the requests of the cloud sync.

How the modules use each other: TransactionPages extends TransactionEngine, which instantiates SessionLedger;
ZoneVisits extends ByteTracker; SyncService instantiates Outbox. A module `MC...` fixes an instance for TLC, and a
module `...Proofs` holds the theorems of its component. Three of them hold those of a second component that shares no
variable with the first but works on what it makes: CameraManagerProofs also those of CameraService, which the manager starts;
VisitorSessionsProofs those of SyncService, which uploads the crossings; AnalyticsTrackerProofs those of Rollups, which counts
the tracks. `Sums` has lemmas about finite sets and sums, for ZoneVisits and Rollups.

## 3. TransactionEngine, TransactionPages and SessionLedger

*Correspondence.* `live`, `session` and `_last_db_flush` are the engine's memory; `rows`, `signalRows`,
`predictions` and `syncQueue` are the four tables. `process_frame` is one coroutine called once
a frame, so its actions follow each other: `BeginFrame` (the loop over detections, no await),
`HandleZoneCrossing` (zone handler and dwell tests with their commits), `CompleteLostSession` (one lost
track and its commit) and `EndFrame` (the flush when due). A failed commit is caught, logged and never
tried again, so each commit has an outcome in which the table stays as it was and memory goes on. `Crash`
may come between any two actions. Within an action every commit may fail on its own, so a crash inside an
action is a failure of the later commits followed by `Crash`. The pages are operators over memory and tables.

*Abstraction.* Only seconds on both sides of a threshold matter, so time is a set of instants. The
zone-name matchers become the set of kinds of a zone. UUIDs are drawn from a pool. Frame time and wall clock
are taken to be equal; the offset of local time from UTC is a constant, since the code mixes the two.
Scores are compared as integers (`100 * score >= 85 * MAX_SCORE`).

*What the code really stores.* `enqueue_sync` raises inside the transactions that complete a row or store a
prediction of level MEDIUM or HIGH, because `CloudSyncQueue` has no column `payload`. The model follows the code: those
transactions are rolled back. So no row is ever completed, and the queue stays empty. The finding in
section 14 is about that.

*SessionLedger* is what readers of the tables may rely on: a record is opened, gains evidence, is closed at
most once, together with the announcement to the cloud, and never changes after that.

| Run | Shows | Bounds and why they suffice |
|---|---|---|
| txn_engine | earned stages and dwell signals, rising predictions, pages behind the engine, ownership, finality, refinement of SessionLedger | Two cameras with the same track id, the only way two sessions could be confused; three session ids, so a visitor comes back after being lost or after a crash; a till with cash drawer, a terminal and a queue, so each of the five kinds but "upi" has a zone, and "upi" differs from "payment" only in its name; five instants whose differences fall on both sides of the thresholds; one fault anywhere |
| txn_visit_never_recorded (violation) | visits that ended are on no page | the same instance without a fault |

*Proved* (`TransactionEngineProofs`): types, ownership, finality, `PurchaseIsEvidenced`, `DwellSignalsAreEarned`,
`PredictionsRise` and the refinement of SessionLedger. `TypeOK /\ SessionsOwned` is the base, neither half inductive
alone: a crossing handled for a track without a session would write outside the session table, and ownership needs that
frames only name tracks with sessions. `EvidenceInv` adds that each session's stage, level and dwell signals are backed by
its signals and times (`Sounds`), and that rows and predictions of a session do not exceed its memory (`Covered`): the
predictions a crossing adds lie above those stored before, because stage, level and signals only grow through the three
steps of a handler (`ChainRises`). `DwellIsEarned` assumes `UtcOffset <= 0`: the code computes dwell from
`datetime.utcnow().timestamp()`, which on a host ahead of UTC is too early, and the dwell comes out longer than it was.
`PagesLag` states `PagesLagEngine`: it follows from `Covered`, which bounds signals, score, stage and predictions of the
tables by the memory the live page shows, and from counting: each number of `/stats` and `/queue-metrics` counts its own part of the timeline,
which is finite because the session ids are. `NoVisitIsCompleted` is the proved side of the finding in section 14: whatever fails or not,
no row is ever completed, no prediction of level MEDIUM or HIGH stored, and nothing queued for the cloud.

## 4. CameraPipeline

*Correspondence.* A request slot holds one HTTP handler and is at one of the points where handlers can be
interrupted: `loaded` (after `db.get`), `flushed` (its UPDATE holds SQLite's write lock until the commit),
`joining` and `removed` (inside and after `remove_camera`). `Receive`, `Flush`, `StartRemove`, `Join` and
`Finish` are the pieces between them. `worker.join` blocks the event loop, so nothing but processes moves
while a request is joining. An attribute set to the value it was loaded with is not part of SQLAlchemy's UPDATE
(`Changed`). A capture process goes through `starting`, `connect`, `opening`, `reading` and `sleeping` and looks
at `_running` only at the head of its loop; `run` sets that flag itself, which may undo an earlier stop.
`Infer`, `Bridge` and `ProcessEvent` are inference, the bridge and EventEngine. `Restart` is the lifespan
of `main.py` after a stop at any point; `WorkerDies` is a crash of a process, which nothing watches.

*Abstraction.* Frames are their camera; detections only take room in the event queue. `multiprocessing.Queue`
is a bounded sequence: its feeder thread and locks are left out.

*Fairness.* Weak fairness of every handler once received, of every living capture process, and of inference,
bridge and EventEngine: these are processes and asyncio tasks that nothing disables while they can go on. Streams,
clients and faults have none. The condition of `Recovers` is that the process lives and the stream stays readable.

| Run | Shows | Bounds and why they suffice |
|---|---|---|
| pipe_one_client | rows and workers agree, one process, no resurrection, recovery | One camera, since cameras share nothing but the queues; three requests, enough to create, disable and delete or enable again; one outage, one fault; an event queue of one, so that events are dropped; back-off up to 2 |
| pipe_two_clients | one process whatever overlaps; a restart repairs the rest | Two slots and all six kinds, commits may fail; one fault, which is the failed commit or the restart for `RestartHeals` |

*Proved* (`CameraPipelineProofs`): `PipelineTypes` and `OneProcess`, for any cameras, slots, kinds of request and
capacities. `OneProcessPerCamera` is inductive given the types. The argument is one of ownership: `StartRemove`
hands the process from the books to the request that joins it, `Join` ends it before it lets go of it, and
`AddCamera` starts one only if the books name none. `DeletedStayDeleted` needs the invariant `CreatesAreNew`: only
a create could bring a row back, and a camera somebody is creating never had one and has no other request.
`OneClientMatches` is `WorkersMatchRows` under three assumptions: one request slot, the kinds the dashboard sends
(create, enable, disable, delete) and commits that succeed. Its invariant `Between` says where the only request has
brought its camera while all others match. `RestartAlwaysHeals` needs none of them. With two clients, with
`patch`, or with a failing commit, workers and rows may disagree until that restart. Model-checked only: the
liveness property `Recovers`.

## 5. CameraService

*Correspondence.* `start` makes ingest, dispatch and health tasks; each start has an ingest loop of its own in
`loops`, because the code does not limit how many are alive, and `task` is the one `stop` would cancel. The stages of a
loop are the points between its awaits. `Transition` is the table of the health monitor, in which a change that is not
listed is ignored. `ShouldRetry`, `attempt` and `delay` are ReconnectPolicy. Health checks count the slow checks of
the grace period instead of seconds. `stop` is one step: its callers do not overlap it with `start`.

*Fairness.* Weak fairness of each loop and of the two other tasks, which asyncio resumes after each sleep.

| Run | Shows | Bounds and why they suffice |
|---|---|---|
| stream_service | newest frames in order, stop leaves nothing, reading again | Policies without limit and with one attempt; two starts, three outages, a buffer of two with four frames, so it overflows; the read loop ends after two failures instead of ten |

*Proved* (in `CameraManagerProofs`, of `ServiceSpec`): `Freshest`, from the invariant that the buffer is a gapless sequence ending in
the last frame read and the last dispatched frame lies before it; and `StopIsThorough`: with the default
policy only the loop of `task` is alive, and only while the service runs. `ReadsInTheEnd` is model-checked.

## 6. VisitorSessions

*Correspondence.* `Frame` is `_on_tracking_frame` followed by the removals: the detector moves without
suspension, and a task is left for every crossing (`persists`) and every removed visitor (`closes`). Tasks run in any order.
`Persist` is one step: its first statement is an INSERT, which takes SQLite's write lock until the commit.
`CloseRead` and `CloseWrite` are two, because the close task reads before it holds that lock and other tasks may write in
between. On a database without a single writer (PostgreSQL) the crossing transaction would be several steps too.
Line requests commit first and tell the detector later (`CreateLine`, `UpdateLine`, `DeleteLine`, then
`Sync`). `Restart` loses tasks and detector states, and visitor ids begin again. A place is a side of
the line, on it, or out of the picture; `first` and `net` are history variables of a line state.

| Run | Shows | Bounds and why they suffice |
|---|---|---|
| visitor_sessions | crossings alternate; sessions account for the log; stays; the past is kept | Two visitors, so that tasks and sessions can be mixed up; one line with any of four settings (plain, flipped with two confirmations, inactive, ill-formed) already stored; four frames: enter, leave, enter and be removed; one edit, one database error, one restart |

*Proved* (`VisitorSessionsProofs`): `SessionsAccountForCrossings`, `StaysAreRight`, `CrossingsAlternate` and
`PastIsKept`, for all visitors, lines, settings and bounds. The invariant adds three facts to the checked
ones: a crossing is newer than all before it and so is stored once (`Clocked`), a session with an exit is complete
(`ExitEnds`), and a close task that read an entry still finds it in its row when it writes (`ReadHolds`). The
last is what makes the read before the lock harmless for the stay: a crossing stored in between may end
the session, and the close task overwrites its end and its stay together.

## 7. AnalyticsTracker

*Correspondence.* `zones`, `zone_state`, `last_event` and `loaded` are one ZoneManager and the tracker's reload clock; `tracks` is
`_active_tracks`; `grid` the accumulator; `rows`, `events` and `cells` the tables. `Frame` is `process_frame_detections`
as a whole: reload when due, crossings, tracks lost or new, the push, the flush of the heatmap when due. Nothing else enters
that coroutine meanwhile. Polygons (ray casting) and lines (the signs of turns) are translated in full over integer points.
A load, a push or a flush that fails is logged, and memory goes on. `UpdateZones` is the PATCH that stores zones, and
`Restart` a new process, whose ByteTrack gives the same ids again. `told` (zones a visit was told it is in), `unsaved`, `orphans`,
`seen` and `lost` are history.

| Run | Shows | Bounds and why they suffice |
|---|---|---|
| analytics_tracker | rows follow tracks, the heatmap counts once, crossings alternate | One track, since tracks share only the grid and the clock; a concave area and a line in front of it, one place in the area and one in its notch, on either side of the line; eight seconds with every interval of the code scaled to one, two or three, so that each is met and missed; an edit, an error and a restart |

*Proved* (`AnalyticsTrackerProofs`): all three properties and the types. `TrackerInv` has a part for visits and one for the
heatmap. Visits: a track's visit began at the time its name says and is its own (`Owned`), nothing stored is later
than the clock (`Past`), rows are incomplete exactly for live or cut-off visits (`Follows`), and the zones a
track is taken to be in are those it was told to have entered and not left (`Told`). The last makes `CrossingsAlternate` an action
property of one step: the throttle delays a crossing and never changes what the next one is.

## 8. ByteTracker and ZoneVisits

*Correspondence.* `Update` is `ByteTracker.update` with both stages, the marks, the promotion and the removal. A box matters only
through the assignment, so a step chooses which tracks stage 1 matches (`high`), which lost ones stage 2 matches (`low`)
and how many boxes are left. `Frame` in ZoneVisits adds what the awaited callbacks of
both services do with the frame and its events; none of them suspends. Records are stored by tasks nobody awaits
(`Save`, `SaveFails`), and zones are drawn, changed and removed meanwhile (`EditZones`).

| Run | Shows | Bounds and why they suffice |
|---|---|---|
| zone_visits | absences bounded, sessions follow tracks, both services agree on the time at the till, the reports add up | Two visitors, enough for a queue; a till and an aisle; `min_hits` and `max_lost` two, so that a track is promoted, lost, found and removed; four seconds; one edit, one failed store |

*Proved* (`ZoneVisitsProofs`): types, `AbsenceIsBounded` and `SessionsAreFollowed`, for all zones and thresholds. The invariant
`FrameInv` adds that only a lost track has frames to its account, that no visitor beyond the last number has
missed a frame, that no session began after the last frame, which keeps every stored stay from being negative, and
that the tracker hands on only visitors it follows and announces everyone it gives up (`Handover`). The last is the
contract between the two modules, and `UpdateKeeps` proves it of the tracker alone.

`TillTimesAlwaysAgree` has the invariant `TillInv`. While there is one till, a visitor's account there is what was stored plus the time
since the entry (`TillAccount`), one service reckoning by entry and exit, the other frame by frame; and a record, once made,
says what the account said, since its visitor is never seen again (`RecordsFit`). `ReportsAlwaysAddUp` needs three facts: the
records are finitely many, a visitor has at most one checkout record (`ReportInv`), and a sum over zones of the numbers
of their records is the number of all records (`Sums`). Zones are assumed to be finite, which a table of zones is.

## 9. TrackIngest

*Correspondence.* `Frame` and `Attempt` are the loop of the stand-alone pipeline: it sees a frame, makes its posts and awaits them one after
the other, each with `Retries` attempts. An attempt is lost, answered, refused by a failed commit, handled without its answer arriving, or
handled late. The handlers are the router's; `active` is its dictionary of active tracks, which a restart empties. `late` holds
requests the pipeline no longer waits for. `clean` and `answered` are history.

*Fairness.* Weak fairness of `Attempt`: an attempt ends by its answer or by its timeout of five seconds.

| Run | Shows | Bounds and why they suffice |
|---|---|---|
| track_ingest | exact while nothing fails; a visit whose posts were answered is complete; filed under the own visit; the first page; posts end | Two visits, so that ids are used again after a restart; two attempts, the least that has a retry; pages of two; one fault and one restart |

`FiledUnderOwnVisit` allows the exception the code has: after a restart of the pipeline an id may find the
active track of an older visit, but only when its own start never arrived.

*Proved* (`TrackIngestProofs`): the four safety properties, for any visits, ids, numbers of attempts, limits and bounds. `IngestInv` says that
visits and rows are numbered as they come and posts name the visit and id they were made for (`Numbered`, `PostsOwned`), that the rows of a visit carry
its id and lie no earlier than its start (`RowsOfVisits`), and that an active track is the row of the newest visit whose start
arrived under its id (`ActiveIsOwn`), which gives `FiledUnderOwn` step by step. `FaultFreeAlwaysExact` needs `ExactSoFar` in
between two posts: a visit has no row while its start is still to be posted, then one, complete once its end has been posted;
no crossing is stored twice; detections are in the heatmap, the accumulator or the post to come. `FirstPageAlwaysNewest` is a fact
about two cuts (`NewestKeeps`): what is among the newest of all is among the newest of its own table.

## 10. Rollups

*Correspondence.* A pass computes the current hour (`AggregateHour`, one step), then the rows of the day, camera by camera and the store's last, with
tracks coming and going in between, and commits. The pages are operators over tracks and rows. An average is its sum and count.

*Fairness.* Weak fairness of the loop, which sleeps a fixed time; `CatchesUp` asks that the rows of today catch up infinitely often.

| Run | Shows | Bounds and why they suffice |
|---|---|---|
| rollups | the store covers its cameras, pages agree after an undisturbed pass, passes catch up | Two cameras, two tracks, a zone they visit or not, days of two hours over a midnight, one error; the clock in UTC |

*Proved* (in `AnalyticsTrackerProofs`): both safety properties, for any cameras, hours, offsets, dwell times and zones, and any
number of tracks and errors. `RollupInv` follows a pass. A row of a camera exists only for a day somebody came to (`DailyOK`); what the session has made
says no more than the tracks do by now, since tracks only come and end (`MadeOK`); all cameras with a row of the day are computed
again or still to be, and the store last (`PassOK`). So the store's row, made from the later tracks, covers the cameras' rows
when they are committed together, and an error commits none of them (`StoreOK`). Committed one by one they would not.
`FreshOK` says that without a change the computed rows stay exact; the pages then agree because each is a sum over one row,
or a partition of the tracks that left (dwell times by `SumCounts`).

## 11. CameraManager

*Correspondence.* A request holds one of `read`, `write`, `stop`, `reread`, `add`, `remove`, `drop`: the calls of the database where
requests interleave. `services` and `captures` are the two dictionaries, `rows` the table. What the manager does under its lock waits for
nothing, so the lock is no variable. A crash or stop ends all requests, and the next start loads the enabled rows.
`raced` remembers cameras about which two requests overlapped, `bypassed` those patched or restarted without
regard to `is_enabled`.

| Run | Shows | Bounds and why they suffice |
|---|---|---|
| camera_requests | every capture has an entry; requests that do not overlap leave row, entry and capture in agreement; names are free | Two of each thing that may clash (cameras, names, valid urls and tasks); five requests, enough to create two cameras, overlap two requests and repair with a third; one crash |

*Proved* (`CameraManagerProofs`): all three and the types. `NoStrayCapture` is inductive with the types. For the others `ManagerInv` says
where a lone request stands (`Midway`: what row, entry and capture must be before each of its steps), that overlaps are noted, and
that a name found free stays free until it is inserted (`NamesAreReserved`).

## 12. SyncService and Outbox

*Correspondence.* The loop sleeps, checks the connection, gathers up to `Limit` unsynced records per table, posts, waits for the
answer and marks. A query, an answer, a mark or the process may be lost; an unreachable cloud lengthens the pause.

*Outbox* is the promise: delivered at least once, ticked off only once delivered, and never sent again after that.

*Fairness.* Weak fairness of the loop (it only sleeps and awaits calls with timeouts) and of the start. `SyncedInTheEnd` assumes
that the cloud stays in reach from some point on.

| Run | Shows | Bounds and why they suffice |
|---|---|---|
| sync_outbox | refinement of Outbox, repeats bounded by faults, everything marked in the end | Three records in two tables, of which one has more than a cycle takes; two faults, so one may hit the repair of the other |

*Proved* (in `VisitorSessionsProofs`, of `SyncSpec`): types, `ResendsAreFaults` and the refinement. `SyncInv`: a batch is unsynced, whatever is marked or about to be
was received, and of a record's uploads all but the one that marks it are paid for by a fault (`UploadsAreOwed`).

## 13. What is proved, what is checked

Proofs hold for every value of the constants under the named ASSUMEs, which TLC evaluates in the runs. `PROJECT.json` lists the
theorems; every invariant, action property and refinement of a passing run is stated by one of them. Model-checked only is liveness:
`Recovers`, `ReadsInTheEnd`, `PostsEnd`, `CatchesUp` and `SyncedInTheEnd`, since fairness and ENABLED are out of the provers' reach.

Some theorems have hypotheses that the code justifies only for some installations, and name them: `DwellIsEarned` a host that is not ahead of
UTC, `OneClientMatches` one client of the dashboard and commits that succeed, `StopIsThorough` a policy without limit.

*Sums.* The library's induction theorems cannot be used, for they take an operator. `Sums` does without: a set of
sets that has the empty set and is closed under one more element has every finite set (`SubsetInduction`, by the library's
fact that a set of sets well-founded by inclusion has a minimal member), and the property to prove is put into such a set. From that come
that a sum is what its recursion says in any order, that it grows with its terms, that the numbers of elements per part add up to
the number of elements, and that what is charged to one of many sums up to at most all.

No module uses a recursive operator. Each property has a mutant in `PROJECT.json`: a plausible slip in one mapped
definition that the property detects. The mutants stand beside the definitions they change. Symmetry is used only in
runs without liveness properties.

## 14. Where code and documentation disagree

One run ends in a violation. `_persist_completed_session` says "Write or update the TransactionSession record when a visitor
exits", and the pages of ended visits are "Key transaction KPIs"; but the completing transaction always raises, so
`EndedAreCounted` fails without any fault.

Others were met while modelling; the models follow the code.

- Transaction engine: the dwell signals that should fire "even without named zones" are tested only when a crossing arrives
  (transaction_engine.py:281); local and UTC time are mixed (:431).
- Camera pipeline: an enable that overlaps a delete leaves a capture worker without a row (cameras.py:275); a capture process that died keeps
  its entry (engine_manager.py:112); captures made at startup have no queue (main.py:97).
- Stream reader: giving up leaves the loop running (camera_service.py:298); after a reconnect the state never returns to active
  (stream_health.py:44), and the branch that leaves DEGRADED cannot be reached.
- Visitor sessions: the removal of a track may insert or leave open an empty session (event_service.py:375).
- Tracker: a lost track that only one of the two stages finds again is reported as reacquired and marked lost in the same frame, and one
  that nothing finds is marked twice, so it goes after half of `max_lost` (tracking_service.py:277); hence the factor two in `AbsenceIsBounded`.
- Ingestion: `get_live_status` uses `select` without importing it; an end after a restart is answered ok and its row stays open; the active
  track is forgotten before the commit that may fail; the first page of the history may miss exits of older tracks.
- Aggregator: the hour is taken in UTC; the hourly peak is never updated; unique visitors are entries; weekly and monthly reports cover 8 and 31
  days; without a camera the summary adds the store's row to the cameras' (analytics.py:28).
- Camera manager: a restart leaves an entry without a capture (camera_manager.py:110) and starts disabled cameras too; PATCH of `is_enabled` neither starts nor stops;
  encrypted urls never compare equal, so duplicates are accepted; PATCH does not check the name.
- Cloud: `/sync` of the active backend marks without uploading.

## 15. Bounds

The constants whose comment says "bound on" end the exploration (the clock, faults, restarts, edits, pools of ids), and the theorems do
not depend on their values. Where a run has CHECK_DEADLOCK FALSE the system stops only because a bound is reached.
Thresholds of the code (seconds, sizes, retries) are constants, scaled down in the instances so that both sides of each are met.

## 16. Not modelled

- Image processing (detection, boxes, Kalman filter, re-identification): no state that several steps share; its results are choices.
- The queue of the active cloud sync beyond `enqueue_sync`: it stays empty, and its upload is simulated.
- WebSockets: a sequential send to a list; seen only as a slow step of the event engine.
- The locks and feeder threads inside `multiprocessing.Queue`, and the contents of the frame queue.
- Point-of-sale records, dwell analytics, timeline, settings, authentication, streams, dashboards and the remaining reports: single inserts
  or read-only queries. Frontend, installation and vendored tools.
