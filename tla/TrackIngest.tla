------------------------------ MODULE TrackIngest ------------------------------
(***************************************************************************)
(* services/cv-pipeline (pipeline.py, event_publisher.py, tracker.py) and   *)
(* apps/backend/routers/events.py: the stand-alone pipeline of one camera   *)
(* posts what it sees, and the router stores it.                           *)
(*                                                                         *)
(* The pipeline awaits every post before it goes on, with three attempts of *)
(* five seconds each.  An attempt may be lost on its way, its answer may be *)
(* lost, it may be handled after the pipeline stopped waiting for it, and   *)
(* the commit that ends the handler may fail.  A handler runs without       *)
(* suspension up to its commit, which comes before the answer.             *)
(*                                                                         *)
(* A visit is a track as the pipeline sees it; track ids begin again with   *)
(* every start of the pipeline, which takes longer than a request lives.   *)
(***************************************************************************)
EXTENDS Integers, Sequences, FiniteSets

CONSTANTS
    Zones,         \* names of the zones
    Retries,       \* attempts of a post (3)
    FlushEvery,    \* frames between two batches of the heatmap (60 seconds of them)
    Limit,         \* events on a page of the history (50)
    None,
    MaxVisits,     \* bound on the visits
    MaxFrames,     \* bound on the frames that change something
    MaxFaults,     \* bound on lost answers, late requests and errors of the database
    MaxRestarts    \* bound on the restarts of either process

ASSUME IngestAssumption ==
    /\ {Retries, FlushEvery, Limit} \subseteq Nat \ {0}
    /\ {MaxVisits, MaxFrames, MaxFaults, MaxRestarts} \subseteq Nat
    /\ None \notin Nat /\ \A S \in SUBSET Zones : S # None

Visits == 1 .. MaxVisits
TrackIds == 1 .. MaxVisits

VARIABLES
    \* the pipeline
    next_id,    \* ids the tracker has given since the pipeline started
    following,  \* PersonTracker._active and _track_zones: by visit, None or the zones so far
    grid,       \* detections in HeatmapAccumulator
    posts,      \* posts of this frame that are not done, the first one being tried
    attempts,   \* attempts made for the first post
    late,       \* requests handled after the pipeline stopped waiting
    \* the backend
    active,     \* _active_tracks: by track id, None or the row
    rows,       \* table person_tracks, by row
    events,     \* table zone_events
    cells,      \* table heatmap_cells, detections counted
    \* history
    id_of,      \* track id of every visit so far
    seen,       \* detections so far
    intact,     \* visits since whose start was answered no backend restart or failed commit came
    answered,   \* visits whose end was answered while they were in intact
    clean,      \* nothing went wrong so far
    frames, faults, restarts

pipeVars == <<next_id, following, grid, posts, attempts>>
backVars == <<active, rows, events, cells>>
vars == <<pipeVars, late, backVars, id_of, seen, answered, intact, clean, frames, faults, restarts>>

Init ==
    /\ next_id = 0 /\ following = [v \in Visits |-> None] /\ grid = 0
    /\ posts = <<>> /\ attempts = 0 /\ late = {}
    /\ active = [t \in TrackIds |-> None] /\ rows = <<>> /\ events = {} /\ cells = 0
    /\ id_of = <<>> /\ seen = 0 /\ answered = {} /\ intact = {} /\ clean = TRUE
    /\ frames = 0 /\ faults = 0 /\ restarts = 0

-----------------------------------------------------------------------------
(* Posts.                                                                  *)

Start(v, t, n) == [kind |-> "start", visit |-> v, id |-> t, at |-> n]
End(v, t, zones, n) == [kind |-> "end", visit |-> v, id |-> t, zones |-> zones, at |-> n]
Crossing(v, t, z, n) == [kind |-> "cross", visit |-> v, id |-> t, zone |-> z, at |-> n]
Heat(n, at) == [kind |-> "heat", count |-> n, at |-> at]

Followed == {v \in Visits : following[v] # None}
New == Len(id_of) + 1

-----------------------------------------------------------------------------
(* run: a frame with at most one new track, one lost track and one         *)
(* crossing; the posts follow the order of the loop.                       *)

IdIn(v) == IF v = New THEN next_id + 1 ELSE id_of[v]

\* Mutant: crossings are posted before the new tracks.
FramePostsUnordered(new, gone, cross, batch) ==
    (IF cross # None THEN <<Crossing(cross.visit, IdIn(cross.visit), cross.zone, frames)>> ELSE <<>>)
    \o (IF new THEN <<Start(New, next_id + 1, frames)>> ELSE <<>>)
    \o (IF gone # None THEN <<End(gone, id_of[gone], following[gone], frames)>> ELSE <<>>)
    \o (IF batch > 0 THEN <<Heat(batch, frames)>> ELSE <<>>)

FramePosts(new, gone, cross, batch) ==
    (IF new THEN <<Start(New, next_id + 1, frames)>> ELSE <<>>)
    \o (IF gone # None THEN <<End(gone, id_of[gone], following[gone], frames)>> ELSE <<>>)
    \o (IF cross # None THEN <<Crossing(cross.visit, IdIn(cross.visit), cross.zone, frames)>> ELSE <<>>)
    \o (IF batch > 0 THEN <<Heat(batch, frames)>> ELSE <<>>)

\* _track_zones after the frame: a zone is noted before its crossing is posted.
Noted(there, cross) ==
    [v \in Visits |->
        IF v \notin there THEN None
        ELSE (IF v = New THEN {} ELSE following[v])
             \cup (IF cross # None /\ cross.visit = v THEN {cross.zone} ELSE {})]

Frame(new, gone, cross) ==
    LET there == (Followed \cup (IF new THEN {New} ELSE {})) \ {gone}
        total == grid + Cardinality(there)
        flush == (frames + 1) % FlushEvery = 0
    IN  /\ posts = <<>> /\ frames < MaxFrames
        /\ new => New <= MaxVisits
        /\ gone # None => gone \in Followed
        /\ cross # None => cross.visit \in there
        /\ next_id' = IF new THEN next_id + 1 ELSE next_id
        /\ id_of' = IF new THEN Append(id_of, next_id + 1) ELSE id_of
        /\ following' = Noted(there, cross)
        /\ seen' = seen + Cardinality(there)
        /\ grid' = IF flush THEN 0 ELSE total
        /\ posts' = FramePosts(new, gone, cross, IF flush THEN total ELSE 0)
        /\ frames' = frames + 1
        /\ UNCHANGED <<attempts, late, backVars, answered, intact, clean, faults, restarts>>

-----------------------------------------------------------------------------
(* The handlers, up to and with the commit.                                *)

NewRow(m) == [visit |-> m.visit, entry |-> m.at, exit |-> None, zones |-> {}, by |-> None]

\* Mutant: a track that is already active keeps its row.
RegisteredOnce(m) == [active EXCEPT ![m.id] = IF @ = None THEN Len(rows) + 1 ELSE @]

\* track_start: a new row, whatever the table of active tracks says.
Registered(m) == [active EXCEPT ![m.id] = Len(rows) + 1]
TrackStart(m) ==
    /\ rows' = Append(rows, NewRow(m)) /\ active' = Registered(m)
    /\ UNCHANGED <<events, cells>>

\* track_end: the row of the active track, if there is one, is completed and the track forgotten.
Completed(row, m) == [row EXCEPT !.exit = m.at, !.zones = m.zones, !.by = m.visit]

Forgotten(m) == [active EXCEPT ![m.id] = None]
TrackEnd(m) ==
    /\ rows' = [r \in DOMAIN rows |-> IF r = active[m.id] THEN Completed(rows[r], m) ELSE rows[r]]
    /\ active' = Forgotten(m)
    /\ UNCHANGED <<events, cells>>

\* zone_crossing: row None stands for "unknown".  A post handled twice is two events.
ZoneCrossing(m) ==
    LET copy == Cardinality({e \in events : e.post = m})
    IN  /\ events' = events \cup {[post |-> m, row |-> active[m.id], copy |-> copy]}
        /\ UNCHANGED <<active, rows, cells>>

HeatmapBatch(m) == cells' = cells + m.count /\ UNCHANGED <<active, rows, events>>

Handle(m) ==
    \/ m.kind = "start" /\ TrackStart(m)
    \/ m.kind = "end" /\ TrackEnd(m)
    \/ m.kind = "cross" /\ ZoneCrossing(m)
    \/ m.kind = "heat" /\ HeatmapBatch(m)

\* The flush or the commit fails: the tables stay; after the flush memory has already changed,
\* and a start leaves the name of a row that does not exist (0).
HandleFails(m) ==
    /\ \/ UNCHANGED active
       \/ m.kind = "start" /\ active' = [active EXCEPT ![m.id] = 0]
       \/ m.kind = "end" /\ active' = Forgotten(m)
    /\ UNCHANGED <<rows, events, cells>>

-----------------------------------------------------------------------------
(* _post.                                                                  *)

\* After a failed attempt the post is tried again, and given up after the last attempt.
GivesUp == attempts + 1 >= Retries

\* Mutant: the attempts begin again instead of ending.
AfterFailureAgain ==
    /\ posts' = posts
    /\ attempts' = IF attempts + 1 >= Retries THEN 0 ELSE attempts + 1
    /\ UNCHANGED <<next_id, following, grid, answered, id_of, seen, frames, restarts>>

AfterFailure ==
    /\ posts' = IF GivesUp THEN Tail(posts) ELSE posts
    /\ attempts' = IF GivesUp THEN 0 ELSE attempts + 1
    /\ UNCHANGED <<next_id, following, grid, answered, id_of, seen, frames, restarts>>

Fault == faults < MaxFaults /\ faults' = faults + 1 /\ clean' = FALSE

Answered ==
    /\ posts # <<>> /\ Handle(Head(posts))
    /\ posts' = Tail(posts) /\ attempts' = 0
    /\ LET m == Head(posts) IN
        /\ intact' = intact \cup (IF m.kind = "start" THEN {m.visit} ELSE {})
        /\ answered' = answered \cup (IF m.kind = "end" THEN {m.visit} \cap intact ELSE {})
    /\ UNCHANGED <<next_id, following, grid, late, id_of, seen, clean, frames, faults, restarts>>

\* The request is lost, as often as it is tried.
Lost ==
    /\ posts # <<>> /\ AfterFailure /\ clean' = FALSE /\ UNCHANGED <<backVars, late, intact, faults>>

\* The answer is lost.
Unanswered ==
    /\ posts # <<>> /\ Fault /\ AfterFailure /\ Handle(Head(posts)) /\ UNCHANGED <<late, intact>>

\* The pipeline stops waiting after five seconds and the request is handled later.
TimedOut ==
    /\ posts # <<>> /\ Fault /\ AfterFailure
    /\ late' = late \cup {<<Head(posts), attempts>>} /\ UNCHANGED <<backVars, intact>>

\* The database refuses: the answer is an error.
Refused ==
    /\ posts # <<>> /\ Fault /\ AfterFailure /\ HandleFails(Head(posts))
    /\ intact' = {} /\ UNCHANGED late

Attempt == Answered \/ Lost \/ Unanswered \/ TimedOut \/ Refused

Late(request) ==
    /\ Handle(request[1]) /\ late' = late \ {request}
    /\ UNCHANGED <<pipeVars, id_of, seen, answered, intact, clean, frames, faults, restarts>>

-----------------------------------------------------------------------------
(* Restarts.                                                               *)

\* The backend's memory is empty again, and what it was about to handle is gone.
BackendRestart ==
    /\ restarts < MaxRestarts /\ restarts' = restarts + 1 /\ clean' = FALSE
    /\ active' = [t \in TrackIds |-> None] /\ late' = {} /\ intact' = {}
    /\ UNCHANGED <<pipeVars, rows, events, cells, id_of, seen, answered, frames, faults>>

PipelineRestart ==
    /\ restarts < MaxRestarts /\ restarts' = restarts + 1 /\ clean' = FALSE
    /\ next_id' = 0 /\ following' = [v \in Visits |-> None] /\ grid' = 0
    /\ posts' = <<>> /\ attempts' = 0 /\ late' = {}
    /\ UNCHANGED <<backVars, id_of, seen, answered, intact, frames, faults>>

Next ==
    \/ \E new \in BOOLEAN, gone \in Visits \cup {None},
          cross \in [visit : Visits, zone : Zones] \cup {None} : Frame(new, gone, cross)
    \/ Attempt
    \/ \E request \in late : Late(request)
    \/ BackendRestart
    \/ PipelineRestart

\* The loop awaits each post, whose attempts end by an answer, an error or the timeout.
Spec == Init /\ [][Next]_vars /\ WF_vars(Attempt)

-----------------------------------------------------------------------------
(* get_history, of one camera.                                             *)

\* Mutant: the order is ascending.
Oldest(S, n) ==
    {P \in SUBSET S : /\ Cardinality(P) = IF n < Cardinality(S) THEN n ELSE Cardinality(S)
                      /\ \A p \in P, q \in S \ P : p.at <= q.at}

\* The n newest of a table, in every way the database may order equal times.
Newest(S, n) ==
    {P \in SUBSET S : /\ Cardinality(P) = IF n < Cardinality(S) THEN n ELSE Cardinality(S)
                      /\ \A p \in P, q \in S \ P : p.at >= q.at}

Entries == {[row |-> r, at |-> rows[r].entry] : r \in DOMAIN rows}
Exits(entries) == {[left |-> e.row, at |-> rows[e.row].exit] : e \in {e \in entries : rows[e.row].exit # None}}
ZoneEvents == {[event |-> e, at |-> e.post.at] : e \in events}

\* The first page: the newest tracks with their exits and the newest events, then the newest of all.
FirstPages ==
    UNION {Newest(entries \cup Exits(entries) \cup crossed, Limit) :
               entries \in Newest(Entries, Limit), crossed \in Newest(ZoneEvents, Limit)}

-----------------------------------------------------------------------------
(* Properties.                                                             *)

Rows(v) == {r \in DOMAIN rows : rows[r].visit = v}
IsComplete(r) == rows[r].exit # None

\* While nothing goes wrong the tables are exact once the frame is posted (pipeline.run with the
\* handlers): one row per visit, complete iff it left, every crossing under its visit's row, and
\* every detection in the heatmap or still in the accumulator.
FaultFreeExact ==
    clean /\ posts = <<>> =>
        /\ \A v \in DOMAIN id_of : \E r \in DOMAIN rows :
               Rows(v) = {r} /\ (IsComplete(r) <=> v \notin Followed)
        /\ \A e \in events : e.copy = 0 /\ e.row \in Rows(e.post.visit)
        /\ cells + grid = seen

\* Track ids begin again after a restart and _active_tracks does not know: what is posted of a
\* visit reaches the row of another visit only when no row of its own visit is there.
FiledUnderOwnVisit ==
    [][/\ \A e \in events' \ events : e.row \in DOMAIN rows \ Rows(e.post.visit) => Rows(e.post.visit) = {}
       /\ \A r \in DOMAIN rows :
              rows'[r] # rows[r] /\ rows'[r].by # rows[r].visit => Rows(rows'[r].by) = {}]_vars

\* A visit whose start and end were both answered has a complete row, whatever was retried or
\* handled late, if the backend neither restarted nor failed to commit in between.
EndedIsComplete == \A v \in answered : \E r \in Rows(v) : IsComplete(r)

\* The pipeline always gets back to its camera: no post holds it up for ever.
PostsEnd == []<>(posts = <<>>)

\* The first page of the history misses no entry and no zone event among the Limit newest events
\* (get_history limits each table by itself; an exit of an older track may be missed).
FirstPageIsNewest ==
    LET all == Entries \cup Exits(Entries) \cup ZoneEvents
    IN  \A page \in FirstPages, e \in Entries \cup ZoneEvents :
            Cardinality({f \in all : f.at >= e.at}) <= Limit => e \in page
=============================================================================
