-------------------------------- MODULE Rollups --------------------------------
(***************************************************************************)
(* apps/backend/services/aggregator.py and the pages that read its rows:   *)
(* routers/analytics.py, routers/reports.py.                               *)
(*                                                                         *)
(* The loop computes the rows of the current hour, then the rows of today, *)
(* one camera after the other and the store's last, and commits those      *)
(* together.  Between two rows of a day it waits for the database, and     *)
(* tracks come and go.  The queries of an hour, and those of one row of a  *)
(* day, are one step.                                                      *)
(*                                                                         *)
(* Time is counted in hours of the store's clock, of which the loop reads  *)
(* the UTC one.  An average is kept as <<sum, count>>.                     *)
(***************************************************************************)
EXTENDS Integers, Sequences, FiniteSets, FiniteSetsExt, Functions

CONSTANTS
    Cameras,
    Store,        \* camera_id None: the row of the whole store
    ZoneNames,    \* names of the zones
    HoursPerDay,  \* 24
    UtcOffset,    \* hours the store's clock is ahead of UTC
    Dwells,       \* dwell times in seconds
    Null,         \* NULL in a column
    MaxHour,      \* bound on the clock
    MaxTracks,    \* bound on the tracks
    MaxErrors     \* bound on the errors of the database

ASSUME RollupAssumption ==
    /\ IsFiniteSet(Cameras) /\ Store \notin Cameras
    /\ HoursPerDay \in Nat \ {0} /\ UtcOffset \in Int /\ Dwells \subseteq Nat
    /\ {MaxHour, MaxTracks, MaxErrors} \subseteq Nat /\ Null \notin Nat

VARIABLES
    person_tracks,  \* table person_tracks
    hour,           \* the store's clock
    hourly,         \* table hourly_counts: <<camera, hour>> to row
    daily,          \* table daily_reports: <<camera or Store, day>> to row
    part,           \* what the loop does: "idle" or "day"
    key,            \* the day it computes
    todo,           \* cameras whose rows it still computes
    made,           \* rows of the session that is not committed
    fresh,          \* history: nothing changed since the pass that ended last began
    changed,        \* history: something changed since the pass began
    errors

loop == <<part, key, todo, made>>
rollupVars == <<person_tracks, hour, hourly, daily, loop, fresh, changed, errors>>

Sources == Cameras \cup {Store}
Empty == [x \in {} |-> Null]
DayOf(h) == h \div HoursPerDay
Today == DayOf(hour)
UtcHour == hour - UtcOffset

RollupInit ==
    /\ person_tracks = <<>> /\ hour = HoursPerDay - 1 /\ hourly = Empty /\ daily = Empty
    /\ part = "idle" /\ key = 0 /\ todo = {} /\ made = Empty
    /\ fresh = FALSE /\ changed = FALSE /\ errors = 0

-----------------------------------------------------------------------------
(* Tracks, as AnalyticsTracker stores and completes them.                  *)

Changes == fresh' = FALSE /\ changed' = TRUE

Enter(c) ==
    /\ Len(person_tracks) < MaxTracks /\ Changes
    /\ person_tracks' = Append(person_tracks,
          [camera |-> c, entry |-> hour, exit |-> Null, dwell |-> Null, zones |-> {}])
    /\ UNCHANGED <<hour, hourly, daily, loop, errors>>

Leave(i, d, zones) ==
    /\ person_tracks[i].exit = Null /\ Changes
    /\ person_tracks' = [person_tracks EXCEPT ![i] = [@ EXCEPT !.exit = hour, !.dwell = d, !.zones = zones]]
    /\ UNCHANGED <<hour, hourly, daily, loop, errors>>

Tick ==
    /\ hour < MaxHour /\ hour' = hour + 1 /\ Changes
    /\ UNCHANGED <<person_tracks, hourly, daily, loop, errors>>

-----------------------------------------------------------------------------
(* Selections.                                                             *)

Of(c) == {i \in DOMAIN person_tracks : c \in {Store, person_tracks[i].camera}}
Complete(I) == {i \in I : person_tracks[i].exit # Null}
EnteredIn(c, h) == {i \in Of(c) : person_tracks[i].entry = h}
LeftIn(c, h) == {i \in Complete(Of(c)) : person_tracks[i].exit = h}
EnteredOn(c, day) == {i \in Of(c) : DayOf(person_tracks[i].entry) = day}

\* Mutant: the exits of a day are those that happened on it.
LeftOnItself(c, day) == {i \in Complete(Of(c)) : DayOf(person_tracks[i].exit) = day}

LeftOn(c, day) == Complete(EnteredOn(c, day))
-----------------------------------------------------------------------------
(* The rows.                                                               *)

\* AVG ignores the tracks that have no dwell time yet.
Average(I) == <<SumFunction([i \in Complete(I) |-> person_tracks[i].dwell]), Cardinality(Complete(I))>>

\* _compute_hourly: peak_count is set with the first row of the hour only.
HourRow(c, h) ==
    LET entered == EnteredIn(c, h)
        old == IF <<c, h>> \in DOMAIN hourly THEN hourly[<<c, h>>].peak ELSE Cardinality(entered)
    IN  [entries |-> Cardinality(entered), exits |-> Cardinality(LeftIn(c, h)),
         dwell |-> Average(entered), peak |-> old]

\* The hours of the day with the most entries; the database returns any of them.
HourOfDay(i) == person_tracks[i].entry % HoursPerDay
At(I, h) == Cardinality({i \in I : HourOfDay(i) = h})
PeakHours(I) == {h \in {HourOfDay(i) : i \in I} : \A i \in I : At(I, HourOfDay(i)) <= At(I, h)}

DayRow(c, day, peak) ==
    LET entered == EnteredOn(c, day)
        left == LeftOn(c, day)
    IN  [entries |-> Cardinality(entered), exits |-> Cardinality(left), visitors |-> Cardinality(entered),
         dwell |-> Average(left), peak_hour |-> peak, peak_count |-> At(entered, peak)]

-----------------------------------------------------------------------------
(* run_loop.                                                               *)

\* A row of a later query replaces the row of the table with the same key.
Upserted(table, rows) ==
    [k \in DOMAIN table \cup DOMAIN rows |-> IF k \in DOMAIN rows THEN rows[k] ELSE table[k]]
With(k, row) == made' = [l \in DOMAIN made \cup {k} |-> IF l = k THEN row ELSE made[l]]

\* The rows of the UTC hour, of the cameras with entries in it, are committed; then the day
\* begins, its cameras being those with tracks of today.
AggregateHour ==
    /\ part = "idle" /\ part' = "day" /\ key' = Today /\ made' = Empty
    /\ LET keys == {<<c, UtcHour>> : c \in {c \in Cameras : EnteredIn(c, UtcHour) # {}}}
       IN  hourly' = Upserted(hourly, [k \in keys |-> HourRow(k[1], k[2])])
    /\ todo' = {c \in Cameras : EnteredOn(c, Today) # {}} \cup {Store}
    /\ changed' = FALSE
    /\ UNCHANGED <<person_tracks, hour, daily, fresh, errors>>

\* Mutant: the store's row is computed first.
StoreFirst(c) == c \in todo /\ (Store \in todo => c = Store)

\* The row of the store is computed after those of the cameras.
NextRow(c) == c \in todo /\ (c = Store => todo = {Store})
ComputeDay(c) ==
    /\ part = "day" /\ NextRow(c) /\ todo' = todo \ {c}
    /\ LET I == EnteredOn(c, key)
       IN  \E peak \in IF I = {} THEN {Null} ELSE PeakHours(I) : With(<<c, key>>, DayRow(c, key, peak))
    /\ UNCHANGED <<person_tracks, hour, hourly, daily, part, key, fresh, changed, errors>>

CommitDay ==
    /\ part = "day" /\ todo = {}
    /\ daily' = Upserted(daily, made) /\ part' = "idle" /\ made' = Empty
    /\ fresh' = ~changed
    /\ UNCHANGED <<person_tracks, hour, hourly, key, todo, changed, errors>>

\* Mutant: the error ends the loop.
EndedForGood == "stopped"

\* An error is logged: what is not committed is lost, and the loop waits for the next pass.
Ended == "idle"
Fail ==
    /\ part # "idle" /\ errors < MaxErrors /\ errors' = errors + 1
    /\ part' = Ended /\ todo' = {} /\ made' = Empty
    /\ UNCHANGED <<person_tracks, hour, hourly, daily, key, fresh, changed>>

Loop ==
    \/ AggregateHour
    \/ \E c \in Sources : ComputeDay(c)
    \/ CommitDay

RollupNext ==
    \/ \E c \in Cameras : Enter(c)
    \/ \E i \in DOMAIN person_tracks, d \in Dwells, zones \in SUBSET ZoneNames : Leave(i, d, zones)
    \/ Tick \/ Loop \/ Fail

\* The loop is a task of its own that sleeps a minute between two passes.
RollupSpec == RollupInit /\ [][RollupNext]_rollupVars /\ WF_rollupVars(Loop)

-----------------------------------------------------------------------------
(* The pages; Store stands for a call without camera_id.                   *)

\* Without a camera the pages read every row, the store's among them.
DailyRows(c, days) == {k \in DOMAIN daily : k[2] \in days /\ (c # Store => k[1] = c)}
HourlyTraffic(c, day) == {k \in DOMAIN hourly : DayOf(k[2]) = day /\ (c # Store => k[1] = c)}
DailyTraffic(c, n) == DailyRows(c, Today - n + 1 .. DayOf(MaxHour))

Entries(rows) == SumFunction([k \in rows |-> daily[k].entries])
Exits(rows) == SumFunction([k \in rows |-> daily[k].exits])
Summary(c, days) ==
    LET rows == DailyRows(c, days)
    IN  [total_entries |-> Entries(rows), total_exits |-> Exits(rows),
         unique_visitors |-> SumFunction([k \in rows |-> daily[k].visitors]),
         peak_count |-> Max({0} \cup {daily[k].peak_count : k \in rows})]

LiveCount(c) == LET rows == DailyRows(c, {Today}) IN Max({0, Entries(rows) - Exits(rows)})

Bounds == <<30, 60, 120, 300, 600>>
Bucket(d) == Cardinality({b \in DOMAIN Bounds : d >= Bounds[b]})
DwellDistribution(c, day) ==
    [b \in 0 .. Len(Bounds) |-> Cardinality({i \in LeftOn(c, day) : Bucket(person_tracks[i].dwell) = b})]

\* Tracks per zone; a zone counts once for a track.
ZoneDistribution(c, day) ==
    [z \in ZoneNames |-> Cardinality({i \in LeftOn(c, day) : z \in person_tracks[i].zones})]

\* Every completed track has a list of zones, perhaps an empty one, and so has browsed.
Conversion(c, day) == [entered |-> Cardinality(LeftOn(c, day)), browsed |-> Cardinality(LeftOn(c, day))]

\* conversion_rate is never stored, so the rate is the one of the visitors among the entries.
Rate(k) == IF daily[k].entries > 0 THEN (daily[k].visitors * 100) \div daily[k].entries ELSE 0
ConversionTrend(c, n) == {[day |-> k[2], rate |-> Rate(k)] : k \in DailyTraffic(c, n)}

\* get_report_data and the exports: both ends of the period are included.
DaysBack == [daily |-> 0, weekly |-> 7, monthly |-> 30]
ReportRows(c, timeframe) == DailyRows(c, Today - DaysBack[timeframe] .. Today)
Report(c, timeframe) ==
    LET rows == ReportRows(c, timeframe)
    IN  [visitors |-> SumFunction([k \in rows |-> daily[k].visitors]), entries |-> Entries(rows),
         peak_hours |-> {daily[k].peak_hour : k \in {k \in rows : \A l \in rows :
                                                         daily[l].peak_count <= daily[k].peak_count}}]

-----------------------------------------------------------------------------
(* Properties.                                                             *)

\* The store's row of a day covers the rows of the cameras, entries and exits (aggregate_today
\* computes it last and commits the rows together), whatever comes in between two rows.
StoreCoversCameras ==
    \A day \in 0 .. DayOf(MaxHour) :
        LET rows == {k \in DOMAIN daily : k[2] = day /\ k[1] # Store}
        IN  rows # {} =>
                /\ <<Store, day>> \in DOMAIN daily
                /\ Entries(rows) <= daily[<<Store, day>>].entries
                /\ Exits(rows) <= daily[<<Store, day>>].exits

\* When a whole pass went by and nothing changed since it began, the pages of a camera agree with
\* the tracks and with each other: the summary, the live count, the dwell times, the zones, the
\* funnel, the reports, and the traffic of the UTC hour.
PagesAgree ==
    fresh => \A c \in Cameras :
        LET page == Summary(c, {Today})
            entered == EnteredOn(c, Today)
        IN  /\ page.total_entries = Cardinality(entered) /\ page.unique_visitors = page.total_entries
            /\ LiveCount(c) = Cardinality({i \in entered : person_tracks[i].exit = Null})
            /\ page.total_exits = SumFunction(DwellDistribution(c, Today))
            /\ page.total_exits = Conversion(c, Today).entered
            /\ \A z \in ZoneNames : ZoneDistribution(c, Today)[z] <= page.total_exits
            /\ Report(c, "daily").entries = page.total_entries
            /\ page.peak_count <= page.total_entries
            /\ \A p \in ConversionTrend(c, 1) : p.rate \in {0, 100}
            /\ EnteredIn(c, UtcHour) # {} =>
                   \E k \in HourlyTraffic(c, DayOf(UtcHour)) :
                       /\ k[2] = UtcHour /\ hourly[k].entries = Cardinality(EnteredIn(c, UtcHour))
                       /\ hourly[k].exits = Cardinality(LeftIn(c, UtcHour))

\* Again and again today's rows have everybody who came in today: an error, or a track that
\* comes in during a pass, is made good by a later pass.
CaughtUp(c) == DailyRows(c, {Today}) # {} /\ daily[<<c, Today>>].entries = Cardinality(EnteredOn(c, Today))
CatchesUp == []<>(\A c \in Cameras : EnteredOn(c, Today) = {} \/ CaughtUp(c))

=============================================================================
