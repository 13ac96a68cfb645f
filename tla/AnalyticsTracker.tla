------------------------------ MODULE AnalyticsTracker ------------------------------
(***************************************************************************)
(* apps/backend/services/cv_pipeline/analytics_tracker.py with             *)
(* zone_manager.py and heatmap_accumulator.py: one camera's tracks, the     *)
(* zones they cross, the heatmap, and the rows all of it becomes.          *)
(*                                                                         *)
(* One coroutine, the event engine's, hands over the frames, and nothing   *)
(* else touches the tracker's memory, so a frame is one step.  A failed    *)
(* load, push or flush is caught and logged, and memory goes on.           *)
(*                                                                         *)
(* Coordinates are integers: Unit of them make the width of a heatmap cell *)
(* and no place lies on an edge of a polygon.  A visit is identified by     *)
(* the track and the instant it began, which stands for its uuid.  Time    *)
(* is the frame's timestamp and the wall clock at once.                    *)
(***************************************************************************)
EXTENDS Integers, Sequences, FiniteSets

CONSTANTS
    Tracks,       \* ids ByteTrack gives, which it uses again after a restart
    Places,       \* points <<x, y>> where a centroid may be
    Zones,        \* zones that may be drawn, [shape, points]
    GridSize,     \* cells of the heatmap in each direction (100)
    Unit,         \* width of a cell
    Throttle,     \* seconds between equal crossings (2)
    LostAfter,    \* seconds without a detection that end a track (15)
    ReloadEvery,  \* seconds between loads of the zones (30)
    FlushEvery,   \* seconds between flushes of the heatmap (60)
    None,         \* Python's None
    MaxTime,      \* bound on the clock
    MaxGap,       \* bound on the time between two frames
    MaxEdits,     \* bound on the changes of the zones
    MaxFailures,  \* bound on the database errors
    MaxRestarts   \* bound on the restarts of the process

Kinds == {"entry", "exit"}
Faults == {"load", "push", "flush"}
Visits == Tracks \X (Nat \ {0})
Cells == (0 .. GridSize - 1) \X (0 .. GridSize - 1)

ASSUME TimeAssumption ==
    {Throttle, LostAfter, ReloadEvery, FlushEvery, MaxTime, MaxGap, MaxEdits, MaxFailures, MaxRestarts}
        \subseteq Nat
ASSUME TrackAssumption == IsFiniteSet(Tracks)
ASSUME GridAssumption == GridSize \in Nat \ {0} /\ Unit \in Nat \ {0} /\ Places \subseteq Int \X Int
ASSUME ZoneAssumption ==
    Zones \subseteq [shape : {"polygon", "line"}, points : Seq(Int \X Int)]
ASSUME NoneAssumption ==
    /\ None \notin Places /\ None \notin Nat
    /\ None \notin [visit : Visits, zones : SUBSET Zones, seen : Nat, pos : Places]

VARIABLES
    config,      \* Camera.zone_config
    zones,       \* ZoneManager.zones
    loaded,      \* _zone_last_loaded, None before the first load
    zone_state,  \* ZoneManager._person_zone_state
    last_event,  \* ZoneManager._last_event
    tracks,      \* _active_tracks
    crossings,   \* _last_frame_crossings, which the transaction engine reads
    grid,        \* HeatmapAccumulator._visit_counts
    flushed,     \* HeatmapAccumulator._last_flush
    rows,        \* table person_tracks
    events,      \* table zone_events
    cells,       \* table heatmap_cells
    told,        \* history: visits that are in a zone by the crossings handed over
    unsaved,     \* history: visits one of whose rows or events a failed push lost
    orphans,     \* history: visits that left memory without their row being completed
    seen, lost,  \* history: detections per cell, and those a failed flush lost
    clock, edits, failures, restarts

memory == <<zones, loaded, zone_state, last_event, tracks, crossings, grid, flushed>>
tables == <<rows, events, cells>>
history == <<told, unsaved, orphans, seen, lost>>
vars == <<config, memory, tables, history, clock, edits, failures, restarts>>

-----------------------------------------------------------------------------
(* Geometry.                                                               *)

Turn(o, a, b) == (a[1] - o[1]) * (b[2] - o[2]) - (a[2] - o[2]) * (b[1] - o[1])
Opposite(a, b) == (a > 0 /\ b < 0) \/ (a < 0 /\ b > 0)

\* _point_in_polygon: an odd number of edges lies to the right of the point.
PointInPolygon(p, polygon) ==
    LET Before(i) == polygon[IF i = 1 THEN Len(polygon) ELSE i - 1]
        Hit(a, b) ==
            /\ (a[2] > p[2]) # (b[2] > p[2])
            /\ LET rise == b[2] - a[2]
                   reach == (b[1] - a[1]) * (p[2] - a[2]) - (p[1] - a[1]) * rise
               IN  IF rise > 0 THEN reach > 0 ELSE reach < 0
    IN  Cardinality({i \in DOMAIN polygon : Hit(polygon[i], Before(i))}) % 2 = 1

CrossedLine(prev, curr, line) ==
    /\ Opposite(Turn(line[1], line[2], prev), Turn(line[1], line[2], curr))
    /\ Opposite(Turn(prev, curr, line[1]), Turn(prev, curr, line[2]))

InZone(z, prev, curr) ==
    \/ z.shape = "polygon" /\ Len(z.points) >= 3 /\ PointInPolygon(curr, z.points)
    \/ z.shape = "line" /\ prev # None /\ CrossedLine(prev, curr, z.points)

\* load_config skips zones with fewer than two points.
Loadable(drawn) == {z \in drawn : Len(z.points) >= 2}

Clip(n) == IF n < 0 THEN 0 ELSE IF n > GridSize - 1 THEN GridSize - 1 ELSE n
CellOf(p) == <<Clip(p[1] \div Unit), Clip(p[2] \div Unit)>>

-----------------------------------------------------------------------------
(* Memory.                                                                 *)

NoEvents == [k \in Tracks \X Zones \X Kinds |-> 0]
EmptyGrid == [c \in Cells |-> 0]

Init ==
    /\ config \in SUBSET Zones
    /\ zones = {} /\ loaded = None
    /\ zone_state = [t \in Tracks |-> {}] /\ last_event = NoEvents
    /\ tracks = [t \in Tracks |-> None] /\ crossings = {}
    /\ grid = EmptyGrid /\ flushed = None
    /\ rows = [v \in {} |-> None] /\ events = {} /\ cells = EmptyGrid
    /\ told = {} /\ unsaved = {} /\ orphans = {} /\ seen = EmptyGrid /\ lost = EmptyGrid
    /\ clock = Throttle /\ edits = 0 /\ failures = 0 /\ restarts = 0

Live == {t \in Tracks : tracks[t] # None}

Due(at) == loaded = None \/ at - loaded > ReloadEvery

\* Mutant: update does not look at the zones the track is in.
EnteredAgain(t, prev, p, at, loadedZones, last) ==
    {z \in loadedZones : InZone(z, prev, p) /\ at - last[t, z, "entry"] >= Throttle}

\* zm.update for track t: the zones it enters and leaves that are not throttled.
Entered(t, prev, p, at, loadedZones, last) ==
    {z \in loadedZones : InZone(z, prev, p) /\ z \notin zone_state[t]
                         /\ at - last[t, z, "entry"] >= Throttle}
Left(t, prev, p, at, loadedZones, last) ==
    {z \in loadedZones : ~InZone(z, prev, p) /\ z \in zone_state[t] /\ z.shape = "polygon"
                         /\ at - last[t, z, "exit"] >= Throttle}

\* The visit's record before this frame's crossings.
NewTrack(t, at) == [visit |-> <<t, at>>, zones |-> {}, seen |-> at, pos |-> None]

\* The events of one kind in a frame, from the zones found for each track.
Crossings(kind, track, shown, found, at) ==
    {[visit |-> track[p[1]].visit, zone |-> p[2], type |-> kind, ts |-> at] :
        p \in {q \in shown \X Zones : q[2] \in found[q[1]]}}

LostTracks(shown, at) == {t \in Live \ shown : at - tracks[t].seen > LostAfter}

\* PersonTrack as a push inserts it, and as it is completed.
NewRow(at) == [entry |-> at, exit |-> None, zones |-> {}, complete |-> FALSE]

Completed(row, track) == [row EXCEPT !.exit = track.seen, !.zones = track.zones, !.complete = TRUE]

\* Mutant: a push inserts and never completes.
InsertOnly(new, gone, at) ==
    [v \in DOMAIN rows \cup {<<t, at>> : t \in new} |-> IF v \in DOMAIN rows THEN rows[v] ELSE NewRow(at)]

\* One transaction: rows of new tracks, then of lost ones that have a row, then zone events.
PushedRows(new, gone, at) ==
    LET added == {<<t, at>> : t \in new}
        ended == {tracks[t].visit : t \in gone}
    IN  [v \in DOMAIN rows \cup added |->
            IF v \in added THEN NewRow(at)
            ELSE IF v \in ended THEN Completed(rows[v], tracks[v[1]]) ELSE rows[v]]

Plus(f, g) == [c \in Cells |-> f[c] + g[c]]
Positions(d) == [c \in Cells |-> Cardinality({t \in Tracks : d[t] # None /\ CellOf(d[t]) = c})]

\* Mutant: the accumulator keeps its counts after a flush.
KeepGrid(full) == full

\* reset: of the positions counted so far nothing stays, whether they were stored or not.
Reset(full) == EmptyGrid

FlushDue(at) == flushed # None /\ at - flushed >= FlushEvery

-----------------------------------------------------------------------------
(* A frame: d gives the centroid of each detected track, bad the calls on  *)
(* the database that fail.                                                 *)

Frame(at, d, bad) ==
    LET reload == Due(at) /\ "load" \notin bad
        known == IF reload THEN Loadable(config) ELSE zones
        last == IF reload THEN NoEvents ELSE last_event
        shown == {t \in Tracks : d[t] # None}
        new == shown \ Live
        gone == LostTracks(shown, at)
        track == [t \in shown |-> IF t \in new THEN NewTrack(t, at) ELSE tracks[t]]
        in == [t \in shown |-> Entered(t, track[t].pos, d[t], at, known, last)]
        out == [t \in shown |-> Left(t, track[t].pos, d[t], at, known, last)]
        made == Crossings("entry", track, shown, in, at) \cup Crossings("exit", track, shown, out, at)
        pushing == new # {} \/ gone # {} \/ made # {}
        full == Plus(grid, Positions(d))
    IN  /\ bad \subseteq (IF Due(at) THEN {"load"} ELSE {})
                          \cup (IF pushing THEN {"push"} ELSE {})
                          \cup (IF FlushDue(at) /\ full # EmptyGrid THEN {"flush"} ELSE {})
        /\ zones' = known /\ loaded' = IF reload THEN at ELSE loaded
        /\ zone_state' = [t \in Tracks |->
              IF t \in gone THEN {}
              ELSE IF t \in shown THEN (zone_state[t] \cup in[t]) \ out[t] ELSE zone_state[t]]
        /\ last_event' = [k \in Tracks \X Zones \X Kinds |->
              IF k[1] \in shown /\ k[2] \in (IF k[3] = "entry" THEN in[k[1]] ELSE out[k[1]])
              THEN at ELSE last[k]]
        /\ tracks' = [t \in Tracks |->
              IF t \in gone THEN None
              ELSE IF t \in shown
                   THEN [visit |-> track[t].visit, zones |-> track[t].zones \cup in[t],
                         seen |-> at, pos |-> d[t]]
                   ELSE tracks[t]]
        /\ crossings' = made
        /\ told' = (told \cup {<<c.visit, c.zone>> : c \in {m \in made : m.type = "entry"}})
                    \ {<<c.visit, c.zone>> : c \in {m \in made : m.type = "exit"}}
        /\ IF "push" \in bad
           THEN /\ UNCHANGED <<rows, events>>
                /\ unsaved' = unsaved \cup {<<t, at>> : t \in new} \cup {c.visit : c \in made}
                /\ orphans' = orphans \cup {tracks[t].visit : t \in gone}
           ELSE /\ rows' = PushedRows(new, gone, at)
                /\ events' = events \cup made
                /\ UNCHANGED unsaved
                /\ orphans' = orphans \cup ({tracks[t].visit : t \in gone} \ DOMAIN rows)
        /\ seen' = Plus(seen, Positions(d))
        /\ IF FlushDue(at)
           THEN /\ grid' = Reset(full) /\ flushed' = at
                /\ cells' = IF "flush" \in bad THEN cells ELSE Plus(cells, full)
                /\ lost' = IF "flush" \in bad THEN Plus(lost, full) ELSE lost
           ELSE /\ grid' = full /\ flushed' = IF flushed = None THEN at ELSE flushed
                /\ UNCHANGED <<cells, lost>>
        /\ clock' = at
        /\ failures' = failures + Cardinality(bad)
        /\ UNCHANGED <<config, edits, restarts>>

\* PUT /cameras/{id}/zones.
UpdateZones ==
    /\ edits < MaxEdits
    /\ config' \in SUBSET Zones
    /\ edits' = edits + 1
    /\ UNCHANGED <<memory, tables, history, clock, failures, restarts>>

\* The process ends and begins again with an empty tracker.
Restart ==
    /\ restarts < MaxRestarts
    /\ zones' = {} /\ loaded' = None
    /\ zone_state' = [t \in Tracks |-> {}] /\ last_event' = NoEvents
    /\ tracks' = [t \in Tracks |-> None] /\ crossings' = {}
    /\ grid' = EmptyGrid /\ flushed' = None
    /\ orphans' = orphans \cup {tracks[t].visit : t \in Live}
    /\ lost' = Plus(lost, grid)
    /\ restarts' = restarts + 1
    /\ UNCHANGED <<config, tables, told, unsaved, seen, clock, edits, failures>>

Next ==
    \/ \E at \in clock + 1 .. clock + MaxGap, d \in [Tracks -> Places \cup {None}], bad \in SUBSET Faults :
          at <= MaxTime /\ failures + Cardinality(bad) <= MaxFailures /\ Frame(at, d, bad)
    \/ UpdateZones
    \/ Restart

Spec == Init /\ [][Next]_vars
-----------------------------------------------------------------------------
(* Properties.                                                             *)

Track == [visit : Visits, zones : SUBSET Zones, seen : Nat, pos : Places]
Row == [entry : Nat, exit : Nat \cup {None}, zones : SUBSET Zones, complete : BOOLEAN]
Event == [visit : Visits, zone : Zones, type : Kinds, ts : Nat]

\* Every variable has its type.
TypeOK ==
    /\ config \in SUBSET Zones /\ zones \in SUBSET Zones
    /\ loaded \in Nat \cup {None} /\ flushed \in Nat \cup {None}
    /\ zone_state \in [Tracks -> SUBSET Zones] /\ last_event \in [Tracks \X Zones \X Kinds -> Nat]
    /\ tracks \in [Tracks -> Track \cup {None}] /\ crossings \in SUBSET Event
    /\ DOMAIN rows \subseteq Visits /\ \A v \in DOMAIN rows : rows[v] \in Row
    /\ events \in SUBSET Event
    /\ {grid, cells, seen, lost} \subseteq [Cells -> Nat]
    /\ told \in SUBSET (Visits \X Zones) /\ unsaved \in SUBSET Visits /\ orphans \in SUBSET Visits
    /\ {clock, edits, failures, restarts} \subseteq Nat

\* What the transaction engine is handed for a visit and a zone are entries and exits in
\* turn, beginning with an entry, although reloads of the zones drop the throttle and a
\* throttled crossing is found again in later frames (zone_manager.update).
CrossingsAlternate ==
    [][\A c \in crossings' \ crossings :
          (c.type = "entry") <=> (<<c.visit, c.zone>> \notin told)]_vars

\* A row is complete once its track has left memory, and not before; the exceptions are
\* the tracks that a failed push or a restart cut off from their row (_active_tracks and
\* person_tracks after the push of process_frame_detections).
RowsFollowTracks ==
    LET live == {tracks[t].visit : t \in Live}
    IN  /\ \A v \in DOMAIN rows : ~rows[v].complete <=> v \in live \cup orphans
        /\ live \subseteq DOMAIN rows \cup unsaved
        /\ \A v \in live : v \notin orphans

\* No detection is counted twice or forgotten by the accumulator, its flush and the reset
\* that follows; what a failed flush or a restart loses is gone from the grid as well.
HeatmapCountsOnce == Plus(Plus(grid, cells), lost) = seen

=============================================================================
