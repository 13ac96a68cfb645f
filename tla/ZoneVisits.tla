------------------------------ MODULE ZoneVisits ------------------------------
(***************************************************************************)
(* backend/app/services/zone_analytics_service.py and                      *)
(* checkout_analytics_service.py with zone_manager.py, timeline_service.py  *)
(* and their repositories: what becomes of the frames and events of one     *)
(* camera's ByteTracker.                                                   *)
(*                                                                         *)
(* TrackingPipeline awaits the callbacks one after the other, first those  *)
(* of the frame and then those of its events; none of them suspends, so    *)
(* they belong to the frame's step.  Every record is written by a task      *)
(* nobody awaits, which may end at any time later or fail; the entries of  *)
(* the timeline, written the same way, are not in the model.               *)
(*                                                                         *)
(* A place is the set of zones whose polygon holds it (Zone.contains_point *)
(* is the function AnalyticsTracker has in full).  Averages of confidence  *)
(* are not in the model.                                                   *)
(***************************************************************************)
EXTENDS ByteTracker, Functions

CONSTANTS
    Zones,        \* zones that may be drawn
    Checkouts,    \* those of type "checkout"
    MinStay,      \* a zone visit must last longer (1)
    MinCheckout,  \* a checkout must last as long (1)
    ShortStay,    \* stay up to which the purchase probability is 0.10 (5)
    LongStay,     \* stay from which it is 0.90 (15)
    Cooldown,     \* seconds between two queue events (30)
    MaxTime,      \* bound on the clock
    MaxGap,       \* bound on the time between two frames
    MaxEdits,     \* bound on the changes of the zones
    MaxFailures   \* bound on the database errors

ASSUME VisitAssumption ==
    /\ Checkouts \subseteq Zones /\ IsFiniteSet(Zones)
    /\ {MinStay, MinCheckout, ShortStay, LongStay, Cooldown, MaxTime, MaxGap, MaxEdits, MaxFailures} \subseteq Nat
    /\ ShortStay < LongStay

\* ZoneManager: a zone of a camera is missing, inactive or active.
Drawn == {"missing", "inactive", "active"}
ZoneVisit == [visitor : Visitors, zone : Zones, checkout : BOOLEAN, entry : Nat, exit : Nat]
CheckoutVisit == [visitor : Visitors, entry : Nat, exit : Nat, duration : Nat, probability : Nat]
Session == [entry : Nat, seen : Nat, total : Nat, in : BOOLEAN]

ASSUME SessionAssumption == None \notin Session

VARIABLES
    drawn,       \* ZoneManager._zones
    stays,       \* ZoneAnalyticsService._active_sessions: entry time by visitor and zone
    queue_time,  \* ZoneAnalyticsService._last_queue_time
    checkouts,   \* CheckoutAnalyticsService._active_sessions
    saving,      \* records whose task has not ended
    saved,       \* tables zone_visit_analytics and checkout_analytics
    spent,       \* history: time at a till in zone sessions that have ended, by visitor
    clock, edits, failures

visitVars == <<drawn, stays, queue_time, checkouts, saving, saved, spent>>
vars == <<trackVars, visitVars, clock, edits, failures>>

Init ==
    /\ TrackerInit
    /\ drawn \in [Zones -> Drawn]
    /\ stays = [v \in Visitors |-> [z \in Zones |-> None]]
    /\ queue_time = None
    /\ checkouts = [v \in Visitors |-> None]
    /\ saving = {} /\ saved = {}
    /\ spent = [v \in Visitors |-> 0]
    /\ clock = 0 /\ edits = 0 /\ failures = 0

-----------------------------------------------------------------------------
(* ZoneAnalyticsService.                                                   *)

\* get_zones_for_point: the active zones at the place of visitor v.
ZonesAt(place, v) == {z \in place[v] : drawn[z] = "active"}
OpenZones(v) == {z \in Zones : stays[v][z] # None}

\* The look-up of a zone's type among the zones that are still drawn.
IsTill(z) == z \in Checkouts /\ drawn[z] # "missing"

\* What a visitor's turn in the loop makes of its zone sessions.
Stays(ts, v, zones) ==
    [z \in Zones |-> IF z \notin zones THEN None ELSE IF stays[v][z] = None THEN ts ELSE stays[v][z]]

\* The zones a visitor is taken to be in when it is u's turn: w's turn has come if w < u, and
\* its new zones are in and its old ones not yet out if w = u.
Counted(w, u, place) ==
    IF w < u /\ w \in shown' THEN ZonesAt(place, w)
    ELSE IF w = u THEN OpenZones(w) \cup ZonesAt(place, w) ELSE OpenZones(w)
QueueAt(u, place) ==
    Cardinality({w \in Visitors : \E z \in Counted(w, u, place) : IsTill(z)}) >= 2
\* The queue is counted before anybody's exit event, in every turn of the loop.
QueueSeen(ts, place) ==
    /\ queue_time = None \/ ts - queue_time > Cooldown
    /\ \E u \in shown' : QueueAt(u, place)

Visit(v, z, ts) ==
    [visitor |-> v, zone |-> z, checkout |-> IsTill(z), entry |-> stays[v][z], exit |-> ts]
\* The visits of v that end at ts and are long enough to be stored.
Ended(v, zones, ts) == {Visit(v, z, ts) : z \in {y \in zones : ts - stays[v][y] > MinStay}}

\* History: a till session's length whatever its length; one till is assumed.
TillTime(v, zones, ts) ==
    IF \E z \in zones : z \in Checkouts
    THEN ts - stays[v][CHOOSE z \in zones : z \in Checkouts] ELSE 0

-----------------------------------------------------------------------------
(* CheckoutAnalyticsService.                                               *)

NewSession(ts) == [entry |-> ts, seen |-> ts, total |-> 0, in |-> TRUE]

\* The session of a visitor after a frame that shows it, at a till or not.
Checkout(c, ts, atTill) ==
    IF c = None THEN IF atTill THEN NewSession(ts) ELSE None
    ELSE IF c.in THEN [c EXCEPT !.total = c.total + (ts - c.seen), !.seen = ts, !.in = atTill]
    ELSE IF atTill THEN [c EXCEPT !.seen = ts, !.in = TRUE] ELSE c

\* Mutant: the time since the last frame is not added at the end.
TotalSeen(c, ts) == c.total

Total(c, ts) == IF c.in THEN c.total + (ts - c.seen) ELSE c.total
\* _calculate_purchase_probability, in percent.
Probability(duration) ==
    IF duration < ShortStay THEN 10
    ELSE IF duration <= LongStay THEN 10 + (80 * (duration - ShortStay)) \div (LongStay - ShortStay)
    ELSE 90
Finished(v, ts) ==
    LET c == checkouts[v]
    IN  IF c # None /\ Total(c, ts) >= MinCheckout
        THEN {[visitor |-> v, entry |-> c.entry, exit |-> ts, duration |-> Total(c, ts),
               probability |-> Probability(Total(c, ts))]}
        ELSE {}

-----------------------------------------------------------------------------
(* Steps.                                                                  *)

\* Mutant: the exit of a visitor that was never confirmed is ignored.
GoneConfirmed == {v \in Visitors : enters[v] > 0 /\ \E e \in emitted' : e.type = "exit" /\ e.visitor = v}

\* The frame's callbacks, then those of its events; the zones of those who leave them.
Gone == {v \in Visitors : \E e \in emitted' : e.type = "exit" /\ e.visitor = v}
Closing(v, place) ==
    IF v \in shown' THEN OpenZones(v) \ ZonesAt(place, v) ELSE IF v \in Gone THEN OpenZones(v) ELSE {}

Callbacks(ts, place) ==
    /\ stays' = [v \in Visitors |->
          IF v \in shown' THEN Stays(ts, v, ZonesAt(place, v))
          ELSE IF v \in Gone THEN [z \in Zones |-> None] ELSE stays[v]]
    /\ checkouts' = [v \in Visitors |->
          IF v \in shown' THEN Checkout(checkouts[v], ts, ZonesAt(place, v) \cap Checkouts # {})
          ELSE IF v \in Gone THEN None ELSE checkouts[v]]
    /\ queue_time' = IF QueueSeen(ts, place) THEN ts ELSE queue_time
    /\ saving' = saving \cup (UNION {Ended(v, Closing(v, place), ts) : v \in Visitors})
                        \cup (UNION {Finished(v, ts) : v \in Gone})
    /\ spent' = [v \in Visitors |-> spent[v] + TillTime(v, Closing(v, place), ts)]

\* _on_detection_frame: the tracker, then the callbacks.
Frame(ts, high, low, fresh) ==
    /\ Update(ts, high, low, fresh)
    /\ \E place \in [shown' -> SUBSET Zones] : Callbacks(ts, place)
    /\ clock' = ts
    /\ UNCHANGED <<drawn, saved, edits, failures>>

\* _save_zone_visit, _save_checkout_session and log_event: one insert each.
Save(r) ==
    /\ r \in saving
    /\ saving' = saving \ {r} /\ saved' = saved \cup {r}
    /\ UNCHANGED <<trackVars, drawn, stays, queue_time, checkouts, spent, clock, edits, failures>>
SaveFails(r) ==
    /\ r \in saving /\ failures < MaxFailures
    /\ saving' = saving \ {r} /\ failures' = failures + 1
    /\ UNCHANGED <<trackVars, drawn, stays, queue_time, checkouts, saved, spent, clock, edits>>

\* load_from_camera, add_zone and remove_zone.
EditZones ==
    /\ edits < MaxEdits
    /\ \E z \in Zones, d \in Drawn : drawn[z] # d /\ drawn' = [drawn EXCEPT ![z] = d]
    /\ edits' = edits + 1
    /\ UNCHANGED <<trackVars, stays, queue_time, checkouts, saving, saved, spent, clock, failures>>

Next ==
    \/ \E ts \in clock + 1 .. clock + MaxGap, fresh \in 0 .. 1 :
          \E high \in Matchings(Followed), low \in Matchings(InState("lost")) :
             ts <= MaxTime /\ Frame(ts, high, low, fresh)
    \/ \E r \in saving : Save(r) \/ SaveFails(r)
    \/ EditZones

Spec == Init /\ [][Next]_vars
-----------------------------------------------------------------------------
(* Reports.                                                                *)

SavedVisits == saved \cap ZoneVisit

\* Mutant: records of zones that are not active are skipped.
ActiveZones == {z \in Zones : drawn[z] = "active"}

\* calculate_zone_statistics: the active zones, and the zones of records that are gone by now.
ReportedZones == {z \in Zones : drawn[z] = "active"} \cup {r.zone : r \in SavedVisits}
Statistics ==
    [z \in ReportedZones |->
        LET mine == {r \in SavedVisits : r.zone = z}
        IN  [visits |-> Cardinality(mine), total |-> SumFunction([r \in mine |-> r.exit - r.entry])]]
Popular == {z \in ReportedZones : Statistics[z].visits > 0}
Ignored == {z \in ReportedZones : Statistics[z].visits = 0}

\* get_metrics of the checkout repository: visitors, and the sum behind the average duration.
Metrics ==
    [visitors |-> Cardinality(saved \cap CheckoutVisit),
     total |-> SumFunction([r \in saved \cap CheckoutVisit |-> r.duration])]

-----------------------------------------------------------------------------
(* Properties.                                                             *)

\* Every variable has its type.
TypeOK ==
    /\ TrackerTypeOK
    /\ drawn \in [Zones -> Drawn] /\ stays \in [Visitors -> [Zones -> Nat \cup {None}]]
    /\ queue_time \in Nat \cup {None} /\ checkouts \in [Visitors -> Session \cup {None}]
    /\ {saving, saved} \subseteq SUBSET (ZoneVisit \cup CheckoutVisit)
    /\ spent \in [Visitors -> Nat] /\ {clock, edits, failures} \subseteq Nat

\* A visitor that has left, by its track's removal, leaves no session behind in either
\* service, although neither sees a visitor that is lost (process_visitor_event).
SessionsAreFollowed ==
    \A v \in Visitors : OpenZones(v) # {} \/ checkouts[v] # None => v \in Followed

\* The two services measure the time at the till separately, one by entry and exit and the
\* other by adding up frames, and agree while the visitor is there and in what they store.
TillTimesAgree ==
    \A till \in Checkouts : Checkouts = {till} =>
        /\ \A v \in Visitors : checkouts[v] # None =>
              /\ checkouts[v].in <=> stays[v][till] # None
              /\ checkouts[v].total = spent[v] +
                    IF checkouts[v].in THEN checkouts[v].seen - stays[v][till] ELSE 0
        /\ \A r \in (saving \cup saved) \cap CheckoutVisit : r.duration = spent[r.visitor]

\* The report misses no stored visit, of a zone that was removed since either, calls no visited
\* zone ignored, and a till that stores every stay is never busier in the checkout metrics
\* than the visitors' time there.
ReportsAddUp ==
    /\ SumFunction([z \in ReportedZones |-> Statistics[z].visits]) = Cardinality(SavedVisits)
    /\ \A r \in SavedVisits : r.zone \in Popular
    /\ \A z \in Ignored : drawn[z] = "active"
    /\ Cardinality(Checkouts) = 1 =>
          Metrics.total <= SumFunction(spent)
=============================================================================
