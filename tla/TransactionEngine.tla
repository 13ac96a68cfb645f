--------------------------- MODULE TransactionEngine ---------------------------
(***************************************************************************)
(* apps/backend/services/transaction_engine.py: the per-visitor session    *)
(* machine that turns zone crossings and dwell time into scored purchase   *)
(* signals, and what it leaves in SQLite for the reports and the cloud     *)
(* queue.                                                                  *)
(*                                                                         *)
(* The engine is one coroutine, called by EventEngine once per frame.  A   *)
(* frame is handled in phases separated by awaits: the detections create   *)
(* or touch sessions (no await), each zone crossing is handled with its    *)
(* commits, each lost track is completed with one commit, and every five   *)
(* seconds all live sessions are upserted.  Every commit may fail (the     *)
(* code logs and goes on) and the process may crash between two phases; a  *)
(* crash inside a phase leaves the database as a failed commit followed by *)
(* a crash does.  Times are seconds of one clock: the frame's timestamp    *)
(* and the wall clock read while it is handled are taken to be equal.      *)
(***************************************************************************)
EXTENDS Integers, FiniteSets

CONSTANTS
    Cameras,      \* camera ids
    TrackIds,     \* ByteTrack ids, unique within one camera
    NoSession,    \* dict.get on a key without a session
    SessionIds,   \* pool of uuid4 session ids, each used once (bounds the model)
    Zones,        \* zone names drawn on the cameras
    ZoneKinds,    \* ZoneKinds[z]: which of the five _is_..._zone matchers accept z
    Instants,     \* the seconds at which a frame may be handled (bounds the model)
    MaxCrossings, \* bound on the zone crossings of one frame
    MaxFaults,    \* bound on failed commits and crashes
    UtcOffset     \* seconds the host's local time is ahead of UTC

Kinds == {"checkout", "queue", "payment", "upi", "cash"}

ASSUME CameraAssumption == Cameras # {}
ASSUME ZoneAssumption == ZoneKinds \in [Zones -> SUBSET Kinds]
ASSUME TimeAssumption ==
    /\ Instants \subseteq Nat \ {0}
    /\ MaxCrossings \in Nat
    /\ MaxFaults \in Nat
    /\ UtcOffset \in Int
ASSUME SessionAssumption == NoSession \notin SessionIds /\ IsFiniteSet(SessionIds)

-----------------------------------------------------------------------------
(* The visitor's state machine and the signal scores.                      *)

TRANSITIONS ==
    [ENTERED_STORE       |-> {"SHOPPING", "MOVING_TO_CHECKOUT"},
     SHOPPING            |-> {"MOVING_TO_CHECKOUT", "EXITED_STORE"},
     MOVING_TO_CHECKOUT  |-> {"WAITING_IN_QUEUE", "AT_CHECKOUT"},
     WAITING_IN_QUEUE    |-> {"AT_CHECKOUT"},
     AT_CHECKOUT         |-> {"PAYMENT_INTERACTION", "EXITED_STORE"},
     PAYMENT_INTERACTION |-> {"PURCHASE_COMPLETED", "EXITED_STORE"},
     PURCHASE_COMPLETED  |-> {"EXITED_STORE"},
     EXITED_STORE        |-> {}]

VisitorState == DOMAIN TRANSITIONS

\* Mutant: the table of arrows is not consulted.
TransitionAnywhere(state, target) == target

\* transition_to: an arrow that is not in the table leaves the state alone.
TransitionTo(state, target) ==
    IF target \in TRANSITIONS[state] THEN target ELSE state

SIGNAL_SCORES ==
    [checkout_zone_entered    |-> 20, queue_completed         |-> 15,
     cash_exchange_detected   |-> 25, card_machine_interaction |-> 25,
     upi_payment_interaction  |-> 20, browsing_detected       |-> 10,
     extended_dwell_detected  |-> 30]

Signals == DOMAIN SIGNAL_SCORES
MAX_SCORE == 105

Points(S, signal) == IF signal \in S THEN SIGNAL_SCORES[signal] ELSE 0

TotalPoints(S) ==
    Points(S, "checkout_zone_entered") + Points(S, "queue_completed")
    + Points(S, "cash_exchange_detected") + Points(S, "card_machine_interaction")
    + Points(S, "upi_payment_interaction") + Points(S, "browsing_detected")
    + Points(S, "extended_dwell_detected")

Cap(points) == IF points < MAX_SCORE THEN points ELSE MAX_SCORE

\* _compute_confidence, in integers: score / MAX_SCORE >= 0.85 and so on.
Levels == {"UNLIKELY", "LOW", "MEDIUM", "HIGH"}

Level(score) ==
    IF 100 * score >= 85 * MAX_SCORE THEN "HIGH"
    ELSE IF 100 * score >= 60 * MAX_SCORE THEN "MEDIUM"
    ELSE IF 100 * score >= 35 * MAX_SCORE THEN "LOW" ELSE "UNLIKELY"

-----------------------------------------------------------------------------
VARIABLES
    now,          \* seconds; 0 is never a timestamp, as in the code's truth test
    phase,        \* where process_frame is
    frame,        \* the frame being handled
    live,         \* _sessions: (camera, track) -> session id
    session,      \* the TransactionSessionState objects, by session id
    used,         \* session ids handed out so far
    _last_db_flush,
    rows,         \* table transaction_sessions
    signalRows,   \* table transaction_signals: signal types stored per session
    predictions,  \* table transaction_predictions
    syncQueue,    \* records enqueued for the cloud
    faults        \* failed commits and crashes so far

memory == <<live, session, used, _last_db_flush>>
database == <<rows, signalRows, predictions, syncQueue>>
vars == <<now, phase, frame, memory, database, faults>>

Keys == Cameras \X TrackIds
Times == Instants \cup {0}

TransactionSessionState ==
    [state : VisitorState, signals : SUBSET Signals, score : 0..MAX_SCORE,
     last_persisted_level : Levels, entered_at : Times, last_seen : Times,
     zone_entry_times : [Zones -> Times]]

Row == [status : {"absent", "open", "complete"}, state : VisitorState,
        signals : SUBSET Signals, score : 0..MAX_SCORE]

Prediction == [session : SessionIds, level : Levels, signals : SUBSET Signals]

SyncEntry == [table : {"transaction_sessions", "transaction_predictions"},
              session : SessionIds, level : Levels]

Frame == [camera : Cameras, ids : SUBSET TrackIds,
          crossings : SUBSET (TrackIds \X Zones)]

\* _create_session and the dataclass defaults.
NewSession(t) ==
    [state |-> "ENTERED_STORE", signals |-> {}, score |-> 0,
     last_persisted_level |-> "UNLIKELY", entered_at |-> t, last_seen |-> t,
     zone_entry_times |-> [z \in Zones |-> 0]]

\* No frame in hand: the value of the locals of process_frame between calls.
IdleFrame == [camera |-> CHOOSE c \in Cameras : TRUE, ids |-> {}, crossings |-> {}]

AbsentRow == [status |-> "absent", state |-> "ENTERED_STORE",
              signals |-> {}, score |-> 0]

\* Mutant: every session ever created counts as active.
EveryIdEver == used

LiveIds == {live[k] : k \in Keys} \ {NoSession}

Init ==
    /\ now \in Instants
    /\ phase = "idle"
    /\ frame = IdleFrame
    /\ live = [k \in Keys |-> NoSession]
    /\ session = [i \in SessionIds |-> NewSession(0)]
    /\ used = {}
    /\ _last_db_flush = now
    /\ rows = [i \in SessionIds |-> AbsentRow]
    /\ signalRows = [i \in SessionIds |-> {}]
    /\ predictions = {}
    /\ syncQueue = {}
    /\ faults = 0

-----------------------------------------------------------------------------
(* The effect of zone crossings and dwell time on one session.             *)

\* Mutant: the new signals replace the detected ones.
OverwriteSignals(s, S) ==
    [s EXCEPT !.signals = S,
              !.score = Cap(@ + TotalPoints(S \ s.signals))]

\* add_signal for each signal of S: detected signals score once.  The 30 s
\* cooldown of the code is set only together with detected_signals, whose
\* test comes first, so it decides nothing.
AddSignals(s, S) ==
    [s EXCEPT !.signals = @ \cup S,
              !.score = Cap(@ + TotalPoints(S \ s.signals))]

\* Signals fired by one test or one crossing; when they raise the confidence
\* level a prediction is written and the level remembered.
Fire(s, S) ==
    LET scored == AddSignals(s, S)
    IN  IF S \subseteq s.signals THEN s
        ELSE [scored EXCEPT !.last_persisted_level = Level(scored.score)]

\* event_type == "entry" in _handle_zone_crossing.
EnterZone(s, z, ts) ==
    LET kinds == ZoneKinds[z]
        fired == {sig \in Signals :
                    \/ sig = "checkout_zone_entered" /\ "checkout" \in kinds
                    \/ sig = "card_machine_interaction" /\ "payment" \in kinds
                    \/ sig = "upi_payment_interaction" /\ "upi" \in kinds
                    \/ sig = "cash_exchange_detected" /\ "cash" \in kinds}
        paying == {"payment", "upi", "cash"} \cap kinds # {}
        atTill == IF "checkout" \in kinds THEN TransitionTo(s.state, "AT_CHECKOUT")
                                         ELSE s.state
        atPayment == IF paying THEN TransitionTo(atTill, "PAYMENT_INTERACTION")
                               ELSE atTill
        inQueue == IF "queue" \in kinds THEN TransitionTo(atPayment, "WAITING_IN_QUEUE")
                                        ELSE atPayment
    IN  [Fire(s, fired) EXCEPT !.state = inQueue, !.zone_entry_times[z] = ts]

\* event_type == "exit": the dwell in the zone decides what was bought how.
ExitZone(s, z, ts) ==
    LET kinds == ZoneKinds[z]
        entry_time == s.zone_entry_times[z]
        dwell == IF entry_time # 0 THEN ts - entry_time ELSE 0
        atTill == "checkout" \in kinds
        atCard == "payment" \in kinds /\ dwell > 10
        atUpi == "upi" \in kinds /\ dwell > 5
        fired == {sig \in Signals :
                    \/ sig = "queue_completed" /\ "queue" \in kinds /\ dwell > 20
                    \/ sig = "cash_exchange_detected" /\ atTill /\ dwell > 90
                    \/ sig = "card_machine_interaction"
                         /\ (atCard \/ (atTill /\ dwell \in 30..90))
                    \/ sig = "upi_payment_interaction"
                         /\ (atUpi \/ (atTill /\ dwell \in 10..29))}
        bought == atCard \/ atUpi \/ (atTill /\ dwell >= 10)
    IN  [Fire(s, fired) EXCEPT
            !.state = IF bought THEN TransitionTo(@, "PURCHASE_COMPLETED") ELSE @,
            !.zone_entry_times[z] = 0]

\* entered_at is datetime.utcnow(), a naive value that .timestamp() reads as
\* local time, so the dwell is off by the host's distance from UTC.
StoreDwell(s, t) == t - s.entered_at + UtcOffset

\* Mutant: the two thresholds of the first half are swapped.
BrowsingCheckSwapped(s, t) ==
    LET dwell == StoreDwell(s, t)
        walking == IF s.state = "ENTERED_STORE" /\ dwell > 180
                   THEN [s EXCEPT !.state = TransitionTo(@, "SHOPPING")] ELSE s
    IN  IF dwell > 10 THEN Fire(walking, {"browsing_detected"}) ELSE walking

\* The two halves of _state_changed.
BrowsingCheck(s, t) ==
    LET dwell == StoreDwell(s, t)
        walking == IF s.state = "ENTERED_STORE" /\ dwell > 10
                   THEN [s EXCEPT !.state = TransitionTo(@, "SHOPPING")] ELSE s
    IN  IF dwell > 180 THEN Fire(walking, {"browsing_detected"}) ELSE walking

ExtendedDwellCheck(s, t) ==
    IF StoreDwell(s, t) > 480 /\ "extended_dwell_detected" \notin s.signals
    THEN [Fire(s, {"extended_dwell_detected"}) EXCEPT
             !.state = IF @ = "SHOPPING" THEN TransitionTo(@, "MOVING_TO_CHECKOUT") ELSE @]
    ELSE s

-----------------------------------------------------------------------------
(* What reaches the database.                                              *)

\* Mutant: a prediction is written for every new signal.
SnapshotEverySignal(i, before, after) ==
    {p \in {[session |-> i, level |-> after.last_persisted_level,
             signals |-> after.signals]} :
        before.signals # after.signals}

\* The prediction, if any, written between two values of a session.
Snapshots(i, before, after) ==
    {p \in {[session |-> i, level |-> after.last_persisted_level,
             signals |-> after.signals]} :
        before.last_persisted_level # after.last_persisted_level}

\* enqueue_sync makes a queue row with a payload.  The table has no such
\* column, so its constructor raises: the transaction the call is part of is
\* rolled back and the error logged, whatever the database does.
QueueColumns == {"id", "table_name", "record_id", "action", "status", "queued_at", "synced_at"}
EnqueueFields == {"table_name", "record_id", "action", "payload", "status"}
CanEnqueue == EnqueueFields \subseteq QueueColumns

Enqueued(level) == level \in {"MEDIUM", "HIGH"}

\* The predictions whose transaction gets to its commit.
Storable(P) == {p \in P : Enqueued(p.level) => CanEnqueue}

\* _persist_prediction enqueues MEDIUM and HIGH in the same transaction.
CloudCopies(P) ==
    {[table |-> "transaction_predictions", session |-> p.session, level |-> p.level] :
        p \in {q \in P : Enqueued(q.level)}}

RowOf(status, s) ==
    [status |-> status, state |-> s.state, signals |-> s.signals, score |-> s.score]

\* A commit that fails is caught, logged and never tried again.
Faults(n) == faults' = faults + n /\ faults' <= MaxFaults

-----------------------------------------------------------------------------
(* The loop over detections: sessions are created or touched, no await.    *)
BeginFrame(c, t, ids, crossings) ==
    LET newKeys == {k \in {c} \X ids : live[k] = NoSession}
        seen == {live[k] : k \in {c} \X ids} \ {NoSession}
    IN  /\ phase = "idle"
        /\ t > now
        /\ \E fresh \in [newKeys -> SessionIds \ used] :
             /\ \A j, k \in newKeys : fresh[j] = fresh[k] => j = k
             /\ live' = [k \in Keys |-> IF k \in newKeys THEN fresh[k] ELSE live[k]]
             /\ session' = [i \in SessionIds |->
                   IF i \in {fresh[k] : k \in newKeys} THEN NewSession(t)
                   ELSE IF i \in seen THEN [session[i] EXCEPT !.last_seen = t]
                   ELSE session[i]]
             /\ used' = used \cup {fresh[k] : k \in newKeys}
        /\ now' = t
        /\ frame' = [camera |-> c, ids |-> ids, crossings |-> crossings]
        /\ phase' = "busy"
        /\ UNCHANGED <<_last_db_flush, database, faults>>

(* One zone crossing of the frame.  AnalyticsTracker reports an exit for a *)
(* zone it reported the entry of, and only for a track of this frame.      *)
HandleZoneCrossing(x) ==
    LET i == live[<<frame.camera, x[1]>>]
        s == session[i]
        z == x[2]
        zoned == IF s.zone_entry_times[z] = 0 THEN EnterZone(s, z, now)
                                              ELSE ExitZone(s, z, now)
        signal_fired == zoned.signals # s.signals
        browsed == IF signal_fired THEN zoned ELSE BrowsingCheck(zoned, now)
        final == IF signal_fired THEN zoned ELSE ExtendedDwellCheck(browsed, now)
        written == Snapshots(i, s, zoned) \cup Snapshots(i, zoned, browsed)
                     \cup Snapshots(i, browsed, final)
    IN  /\ phase = "busy"
        /\ x \in frame.crossings
        /\ frame' = [frame EXCEPT !.crossings = @ \ {x}]
        /\ session' = [session EXCEPT ![i] = final]
        /\ \E lost \in SUBSET (final.signals \ s.signals), kept \in SUBSET Storable(written) :
             /\ Faults(Cardinality(lost) + Cardinality(Storable(written) \ kept))
             /\ signalRows' = [signalRows EXCEPT ![i] = @ \cup ((final.signals \ s.signals) \ lost)]
             /\ predictions' = predictions \cup kept
             /\ syncQueue' = syncQueue \cup CloudCopies(kept)
        /\ UNCHANGED <<now, phase, live, used, _last_db_flush, rows>>

LostKeys ==
    {k \in Keys : /\ k[1] = frame.camera
                  /\ k[2] \notin frame.ids
                  /\ live[k] # NoSession
                  /\ now - session[live[k]].last_seen > 15}

(* _handle_lost_tracks for one key, with _persist_completed_session.       *)
CompleteLostSession(k) ==
    LET i == live[k]
        exited == [session[i] EXCEPT !.state = "EXITED_STORE"]
        entry == [table |-> "transaction_sessions", session |-> i,
                  level |-> Level(exited.score)]
    IN  /\ phase = "busy"
        /\ frame.crossings = {}
        /\ k \in LostKeys
        /\ live' = [live EXCEPT ![k] = NoSession]
        /\ session' = [session EXCEPT ![i] = NewSession(0)]
        /\ IF CanEnqueue
           THEN \/ /\ rows' = [rows EXCEPT ![i] = RowOf("complete", exited)]
                   /\ syncQueue' = syncQueue \cup {entry}
                   /\ Faults(0)
                \/ Faults(1) /\ UNCHANGED <<rows, syncQueue>>
           ELSE UNCHANGED <<rows, syncQueue, faults>>
        /\ UNCHANGED <<now, phase, frame, used, _last_db_flush, signalRows, predictions>>

\* Mutant: the flush inserts rows as completed.
UpsertedAsComplete ==
    [i \in SessionIds |->
        IF i \notin LiveIds THEN rows[i] ELSE RowOf("complete", session[i])]

\* _flush_to_db: an existing row keeps its is_complete.
Upserted ==
    [i \in SessionIds |->
        IF i \notin LiveIds THEN rows[i]
        ELSE RowOf(IF rows[i].status = "absent" THEN "open" ELSE rows[i].status,
                   session[i])]

(* The end of process_frame.                                               *)
EndFrame ==
    /\ phase = "busy"
    /\ frame.crossings = {}
    /\ LostKeys = {}
    /\ phase' = "idle"
    /\ IF now - _last_db_flush > 5
       THEN /\ \/ rows' = Upserted /\ Faults(0)
               \/ rows' = rows /\ Faults(1)
            /\ _last_db_flush' = now
       ELSE UNCHANGED <<rows, _last_db_flush, faults>>
    /\ frame' = IdleFrame
    /\ UNCHANGED <<now, live, session, used, signalRows, predictions, syncQueue>>

(* The process stops at any await and is started again.                    *)
Crash ==
    /\ Faults(1)
    /\ live' = [k \in Keys |-> NoSession]
    /\ session' = [i \in SessionIds |-> NewSession(0)]
    /\ phase' = "idle"
    /\ frame' = IdleFrame
    /\ _last_db_flush' = now
    /\ UNCHANGED <<now, used, database>>

Next ==
    \/ \E c \in Cameras, t \in Instants, ids \in SUBSET TrackIds :
         \E crossings \in SUBSET (ids \X Zones) :
            /\ Cardinality(crossings) <= MaxCrossings
            /\ BeginFrame(c, t, ids, crossings)
    \/ \E x \in TrackIds \X Zones : HandleZoneCrossing(x)
    \/ \E k \in Keys : CompleteLostSession(k)
    \/ EndFrame
    \/ Crash

Spec == Init /\ [][Next]_vars

-----------------------------------------------------------------------------
(* Properties.                                                             *)

\* Every variable has its type, and no more faults than allowed have happened.
TypeOK ==
    /\ now \in Times
    /\ phase \in {"idle", "busy"}
    /\ frame \in Frame
    /\ live \in [Keys -> SessionIds \cup {NoSession}]
    /\ session \in [SessionIds -> TransactionSessionState]
    /\ used \subseteq SessionIds
    /\ _last_db_flush \in Times
    /\ rows \in [SessionIds -> Row]
    /\ signalRows \in [SessionIds -> SUBSET Signals]
    /\ predictions \subseteq Prediction
    /\ syncQueue \subseteq SyncEntry
    /\ faults \in 0..MaxFaults

\* A purchase is never reported on dwell time alone: a session that got to the
\* payment stage entered a checkout zone and a payment area, and one at the
\* checkout stages had passed the eight-minute dwell test.
PaymentSignals == {"card_machine_interaction", "upi_payment_interaction",
                   "cash_exchange_detected"}

PurchaseIsEvidenced ==
    \A i \in LiveIds :
        LET s == session[i]
        IN  /\ s.state \in {"PAYMENT_INTERACTION", "PURCHASE_COMPLETED"}
                => s.signals \cap PaymentSignals # {}
            /\ s.state \in {"AT_CHECKOUT", "PAYMENT_INTERACTION", "PURCHASE_COMPLETED"}
                => "checkout_zone_entered" \in s.signals
            /\ s.state \notin {"ENTERED_STORE", "SHOPPING"}
                => "extended_dwell_detected" \in s.signals

\* Signal definitions, "visitor in store 3+ minutes" and "8+ minutes": a dwell
\* signal is only held by a visitor who has been in the store that long.
DwellSignalsAreEarned ==
    \A i \in LiveIds :
        /\ "browsing_detected" \in session[i].signals
            => now - session[i].entered_at > 180
        /\ "extended_dwell_detected" \in session[i].signals
            => now - session[i].entered_at > 480

\* Predictions of one session form a strictly rising history: at most one row
\* per level, and more evidence means a higher level.
Rank == [UNLIKELY |-> 0, LOW |-> 1, MEDIUM |-> 2, HIGH |-> 3]

PredictionsRise ==
    \A p, q \in predictions :
        p.session = q.session /\ p # q =>
            \/ p.signals \subseteq q.signals /\ Rank[p.level] < Rank[q.level]
            \/ q.signals \subseteq p.signals /\ Rank[q.level] < Rank[p.level]

\* Sessions that were dropped from memory.
Departed == {i \in used : \A k \in Keys : live[k] # i}

\* A session that has left memory is left alone: no later flush, signal or
\* prediction of another track, camera or run of the process reaches its
\* records in any of the three tables.
DepartedIsFinal ==
    [][\A i \in Departed :
         /\ rows'[i] = rows[i]
         /\ signalRows'[i] = signalRows[i]
         /\ {p \in predictions' : p.session = i} = {p \in predictions : p.session = i}]_vars

\* Who may write which records: a session id belongs to at most one track, was
\* handed out once, and is dropped from memory no later than its record closes;
\* a pending crossing always finds its session; nothing is stored under an id
\* that was never handed out.
SessionsOwned ==
    /\ \A k \in Keys : live[k] # NoSession =>
         /\ live[k] \in used
         /\ rows[live[k]].status # "complete"
         /\ \A j \in Keys : live[j] = live[k] => j = k
    /\ \A x \in frame.crossings : live[<<frame.camera, x[1]>>] # NoSession
    /\ \A i \in SessionIds \ used :
         /\ rows[i] = AbsentRow
         /\ signalRows[i] = {}
         /\ \A p \in predictions : p.session # i

\* The tables as readers see them are a ledger of visits.
Announced == {i \in SessionIds :
                \E e \in syncQueue : e.table = "transaction_sessions" /\ e.session = i}

Ledger == INSTANCE SessionLedger
    WITH Visits <- SessionIds, Evidence <- Signals,
         status <- [i \in SessionIds |-> rows[i].status],
         evidence <- [i \in SessionIds |-> rows[i].signals],
         announced <- Announced

\* Every upsert and completion is a step of that ledger, whatever frames,
\* failed commits and crashes come in between.
ImplementsLedger == Ledger!Spec
=============================================================================
