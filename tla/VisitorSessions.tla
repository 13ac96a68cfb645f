------------------------------ MODULE VisitorSessions ------------------------------
(***************************************************************************)
(* backend/app/services/event_service.py with line_crossing.py and         *)
(* db/event_repository.py: one camera's entry and exit lines, the crossings *)
(* they detect, and the visitor sessions kept in the database.             *)
(*                                                                         *)
(* A tracking frame is handled without suspension: the detector moves and  *)
(* a task is created for every crossing and every removed visitor.  The    *)
(* tasks then run in any order.  A crossing task inserts its event first,  *)
(* which takes SQLite's write lock, so its transaction is one step; a      *)
(* close task reads before it has the lock, so it is two.  A line request  *)
(* commits first and tells the detector later.                             *)
(*                                                                         *)
(* line_type has no variable: _resolve_event_type calls the way in an      *)
(* entry and the way out an exit for all three types.                      *)
(***************************************************************************)
EXTENDS Integers, Sequences

CONSTANTS
    Visitors,     \* visitor ids, which the tracker uses again after a restart
    Lines,        \* ids of the lines of the camera
    Settings,     \* settings a line may be given
    None,         \* Python's None
    MaxFrames,    \* bound on the frames that show somebody
    MaxEdits,     \* bound on the line requests
    MaxFailures,  \* bound on the database errors
    MaxRestarts   \* bound on the restarts of the process

\* Where a frame may show a visitor relative to a line, if it shows it at all.
Sides == {"in", "out"}
Places == Sides \cup {"on", "away"}

\* LineCrossing: what a crossing says that is stored.
Crossing == [line : Lines, visitor : Visitors, ts : Nat, type : {"entered", "exited"}]

\* valid: the end points differ, which VirtualLine.__post_init__ checks.
ASSUME SettingAssumption ==
    Settings \subseteq [flip : BOOLEAN, active : BOOLEAN, valid : BOOLEAN, min : Nat \ {0}]
ASSUME NoneAssumption == None \notin Settings \cup Int \cup Places \cup Crossing
ASSUME BoundAssumption == {MaxFrames, MaxEdits, MaxFailures, MaxRestarts} \subseteq Nat

VARIABLES
    fresh,      \* line ids not yet drawn
    rows,       \* table entry_exit_lines
    lines,      \* LineCrossingDetector._lines
    edits,      \* line requests that have committed and not yet told the detector
    states,     \* LineCrossingDetector._states
    track,      \* what the tracker knows of each visitor
    persists,   \* crossings whose task has not ended
    closes,     \* the close task of each visitor
    crossings,  \* table crossing_events
    sessions,   \* table visitor_sessions, oldest first
    clock, edit_count, failures, restarts

lineVars == <<fresh, rows, lines, edits, edit_count>>
storeVars == <<crossings, sessions>>
vars == <<fresh, rows, lines, edits, states, track, persists, closes, crossings, sessions,
          clock, edit_count, failures, restarts>>

-----------------------------------------------------------------------------
(* The detector.  first and net are history: the side the state began on,  *)
(* and confirmed entries minus exits since.                                *)

NewState == [last |-> None, pending |-> None, count |-> 0, first |-> None, net |-> 0]

\* side_of: the sign of the cross product, negated for a flipped line.
SideOf(setting, place) ==
    IF setting.flip /\ place \in Sides THEN IF place = "in" THEN "out" ELSE "in" ELSE place

Hits(s, side) == IF s.pending = side THEN s.count + 1 ELSE 1

Crosses(s, side, min) == /\ s.last # None /\ side \in Sides /\ side # s.last
                         /\ Hits(s, side) >= min

\* Mutant: a confirmed crossing leaves the last side as it was.
KeepsSide(s, side, min) ==
    CASE side \notin Sides -> s
      [] side \in Sides /\ s.last = None -> [s EXCEPT !.last = side, !.first = side]
      [] side = s.last -> [s EXCEPT !.pending = None, !.count = 0]
      [] Crosses(s, side, min) ->
            [s EXCEPT !.pending = None, !.count = 0, !.net = IF side = "in" THEN @ + 1 ELSE @ - 1]
      [] OTHER -> [s EXCEPT !.pending = side, !.count = Hits(s, side)]

\* VisitorLineState.update.
Update(s, side, min) ==
    CASE side \notin Sides -> s
      [] side \in Sides /\ s.last = None -> [s EXCEPT !.last = side, !.first = side]
      [] side = s.last -> [s EXCEPT !.pending = None, !.count = 0]
      [] Crosses(s, side, min) ->
            [s EXCEPT !.last = side, !.pending = None, !.count = 0,
                      !.net = IF side = "in" THEN @ + 1 ELSE @ - 1]
      [] OTHER -> [s EXCEPT !.pending = side, !.count = Hits(s, side)]

\* A line that process_frame looks at, for a visitor in the frame.
Watched(l, place) == lines[l] # None /\ lines[l].active /\ place # "away"

\* The side of line p[1] on which visitor p[2] stands.
SideAt(p, where) == SideOf(lines[p[1]], where[p[2]])

\* The crossings confirmed in a frame, and the states after it.
Confirmed(where) ==
    {[line |-> p[1], visitor |-> p[2], ts |-> clock + 1,
      type |-> IF SideAt(p, where) = "in" THEN "entered" ELSE "exited"] :
        p \in {q \in Lines \X Visitors : /\ Watched(q[1], where[q[2]])
                                       /\ Crosses(states[q], SideAt(q, where), lines[q[1]].min)}}

Moved(where) ==
    [p \in Lines \X Visitors |->
        IF Watched(p[1], where[p[2]]) THEN Update(states[p], SideAt(p, where), lines[p[1]].min)
        ELSE states[p]]

-----------------------------------------------------------------------------
(* The tables.                                                             *)

NewSession(v) == [visitor |-> v, entry |-> None, exit |-> None, exit_ts |-> None,
                  dwell |-> None, complete |-> FALSE]

\* Mutant: the query does not ask for open sessions.
FoundEnded(v, i) ==
    LET all == {j \in DOMAIN sessions : sessions[j].visitor = v}
    IN  IF i = 0 THEN all = {} ELSE i \in all /\ \A j \in all : j <= i

\* create_or_get_session: row i is the newest open session of v, 0 for none.
Found(v, i) ==
    LET open == {j \in DOMAIN sessions : sessions[j].visitor = v /\ ~sessions[j].complete}
    IN  IF i = 0 THEN open = {} ELSE i \in open /\ \A j \in open : j <= i

\* Mutant: a second entry replaces the first.
NewestEntry(s, c) ==
    IF c.type = "entered" THEN [s EXCEPT !.entry = c]
    ELSE [s EXCEPT !.exit = c, !.exit_ts = c.ts, !.complete = TRUE,
                   !.dwell = IF s.entry = None THEN @ ELSE c.ts - s.entry.ts]

\* record_entry and record_exit.
Recorded(s, c) ==
    IF c.type = "entered"
    THEN IF s.entry = None THEN [s EXCEPT !.entry = c] ELSE s
    ELSE [s EXCEPT !.exit = c, !.exit_ts = c.ts, !.complete = TRUE,
                   !.dwell = IF s.entry = None THEN @ ELSE c.ts - s.entry.ts]

\* A close task: how far it is, the row it read with its entry, the visitor's exit.
Task(step, ts) == [step |-> step, found |-> 0, entry |-> None, ts |-> ts]
Idle == Task("none", 0)

\* The lines the detector gets at a start: the active ones that are well formed.
Loaded == [l \in Lines |->
    IF rows[l] # None /\ rows[l].active /\ rows[l].valid THEN rows[l] ELSE None]

-----------------------------------------------------------------------------
\* A start with the lines drawn earlier, and nobody seen yet.
Init ==
    /\ rows \in [Lines -> Settings \cup {None}]
    /\ fresh = {l \in Lines : rows[l] = None} /\ lines = Loaded
    /\ edits = {} /\ edit_count = 0
    /\ states = [p \in Lines \X Visitors |-> NewState]
    /\ track = [v \in Visitors |-> "unseen"]
    /\ persists = {} /\ closes = [v \in Visitors |-> Idle]
    /\ crossings = {} /\ sessions = <<>>
    /\ clock = 0 /\ failures = 0 /\ restarts = 0

\* _on_tracking_frame, then _on_visitor_event for the visitors the tracker removes.
Frame(where, gone) ==
    /\ clock < MaxFrames
    /\ \A v \in Visitors : track[v] = "removed" => where[v] = "away"
    /\ \A v \in gone : track[v] = "seen" /\ where[v] = "away"
    /\ clock' = clock + 1
    /\ track' = [v \in Visitors |-> IF v \in gone THEN "removed"
                                    ELSE IF where[v] # "away" THEN "seen" ELSE track[v]]
    /\ persists' = persists \cup Confirmed(where)
    /\ states' = [p \in Lines \X Visitors |-> IF p[2] \in gone THEN NewState ELSE Moved(where)[p]]
    /\ closes' = [v \in Visitors |-> IF v \in gone THEN Task("read", clock + 1) ELSE closes[v]]
    /\ UNCHANGED <<lineVars, storeVars, failures, restarts>>

\* _persist_and_broadcast: the event and its session in one transaction.
Persist(c) ==
    /\ crossings' = crossings \cup {c}
    /\ \E i \in 0 .. Len(sessions) :
        /\ Found(c.visitor, i)
        /\ sessions' = IF i = 0 THEN Append(sessions, Recorded(NewSession(c.visitor), c))
                       ELSE [sessions EXCEPT ![i] = Recorded(sessions[i], c)]
    /\ persists' = persists \ {c}
    /\ UNCHANGED <<lineVars, states, track, closes, clock, failures, restarts>>

\* The transaction fails, for example on a locked database: the crossing is lost.
PersistFails(c) ==
    /\ failures < MaxFailures
    /\ failures' = failures + 1
    /\ persists' = persists \ {c}
    /\ UNCHANGED <<lineVars, storeVars, states, track, closes, clock, restarts>>

\* _close_session_on_track_removal, up to the answer of its query.
CloseRead(v) ==
    /\ closes[v].step = "read"
    /\ \E i \in 0 .. Len(sessions) :
        /\ Found(v, i)
        /\ closes' = [closes EXCEPT ![v] =
               [closes[v] EXCEPT !.step = "write", !.found = i,
                                 !.entry = IF i = 0 THEN None ELSE sessions[i].entry]]
    /\ UNCHANGED <<lineVars, storeVars, states, track, persists, clock, failures, restarts>>

\* Mutant: the session is ended without its stay.
CloseWithoutDwell(v) ==
    /\ closes[v].step = "write"
    /\ LET t == closes[v] IN
        sessions' = IF t.found = 0 THEN Append(sessions, NewSession(v))
                    ELSE IF t.entry = None THEN sessions
                    ELSE [sessions EXCEPT ![t.found] =
                            [sessions[t.found] EXCEPT !.exit_ts = t.ts, !.complete = TRUE]]
    /\ closes' = [closes EXCEPT ![v] = Idle]
    /\ UNCHANGED <<lineVars, crossings, states, track, persists, clock, failures, restarts>>

\* The rest: an insert, an update of the row read, or nothing if it had no entry.
CloseWrite(v) ==
    /\ closes[v].step = "write"
    /\ LET t == closes[v] IN
        sessions' = IF t.found = 0 THEN Append(sessions, NewSession(v))
                    ELSE IF t.entry = None THEN sessions
                    ELSE [sessions EXCEPT ![t.found] =
                            [sessions[t.found] EXCEPT !.exit_ts = t.ts, !.complete = TRUE,
                                                      !.dwell = t.ts - t.entry.ts]]
    /\ closes' = [closes EXCEPT ![v] = Idle]
    /\ UNCHANGED <<lineVars, crossings, states, track, persists, clock, failures, restarts>>

CloseFails(v) ==
    /\ closes[v].step = "write" /\ failures < MaxFailures
    /\ failures' = failures + 1
    /\ closes' = [closes EXCEPT ![v] = Idle]
    /\ UNCHANGED <<lineVars, storeVars, states, track, persists, clock, restarts>>

-----------------------------------------------------------------------------
(* Line requests.                                                          *)

Commit(l, setting) ==
    /\ edit_count < MaxEdits
    /\ edit_count' = edit_count + 1
    /\ rows' = [rows EXCEPT ![l] = setting]
    /\ edits' = edits \cup {[line |-> l, setting |-> setting, number |-> edit_count]}
    /\ UNCHANGED <<lines, storeVars, states, track, persists, closes, clock, failures, restarts>>

\* The id of a new line is drawn at random.
CreateLine(l, setting) == l \in fresh /\ fresh' = fresh \ {l} /\ Commit(l, setting)

UpdateLine(l, setting) == rows[l] # None /\ Commit(l, setting) /\ UNCHANGED fresh

DeleteLine(l) == rows[l] # None /\ Commit(l, None) /\ UNCHANGED fresh

\* The rest of the request: add_line, remove_line with its states, or, for a line
\* that is not well formed, an error once the row is stored.
Sync(e) ==
    /\ edits' = edits \ {e}
    /\ IF e.setting = None
       THEN /\ lines' = [lines EXCEPT ![e.line] = None]
            /\ states' = [p \in Lines \X Visitors |-> IF p[1] = e.line THEN NewState ELSE states[p]]
       ELSE /\ lines' = IF e.setting.valid THEN [lines EXCEPT ![e.line] = e.setting] ELSE lines
            /\ UNCHANGED states
    /\ UNCHANGED <<fresh, rows, edit_count, storeVars, track, persists, closes, clock, failures, restarts>>

\* The process ends and starts again.  Tasks and requests die with it, and
\* VisitorIDGenerator begins at its first id; _load_lines_from_db may fail.
Restart ==
    /\ restarts < MaxRestarts
    /\ restarts' = restarts + 1
    /\ lines' \in {Loaded, [l \in Lines |-> None]}
    /\ edits' = {} /\ persists' = {} /\ closes' = [v \in Visitors |-> Idle]
    /\ states' = [p \in Lines \X Visitors |-> NewState]
    /\ track' = [v \in Visitors |-> "unseen"]
    /\ UNCHANGED <<fresh, rows, edit_count, storeVars, clock, failures>>

Next ==
    \/ \E where \in [Visitors -> Places], gone \in SUBSET Visitors :
            Frame(where, gone)
    \/ \E c \in persists : Persist(c) \/ PersistFails(c)
    \/ \E v \in Visitors : CloseRead(v) \/ CloseWrite(v) \/ CloseFails(v)
    \/ \E l \in Lines, setting \in Settings : CreateLine(l, setting) \/ UpdateLine(l, setting)
    \/ \E l \in Lines : DeleteLine(l)
    \/ \E e \in edits : Sync(e)
    \/ Restart

Spec == Init /\ [][Next]_vars

-----------------------------------------------------------------------------
(* Properties.                                                             *)

LineState == [last : Sides \cup {None}, pending : Sides \cup {None}, count : Nat,
              first : Sides \cup {None}, net : Int]

Session == [visitor : Visitors, entry : Crossing \cup {None}, exit : Crossing \cup {None},
            exit_ts : Nat \cup {None}, dwell : Int \cup {None}, complete : BOOLEAN]

\* The type of the state.
TypeOK ==
    /\ fresh \subseteq Lines
    /\ rows \in [Lines -> Settings \cup {None}] /\ lines \in [Lines -> Settings \cup {None}]
    /\ edits \subseteq [line : Lines, setting : Settings \cup {None}, number : Nat]
    /\ states \in [Lines \X Visitors -> LineState]
    /\ track \in [Visitors -> {"unseen", "seen", "removed"}]
    /\ persists \subseteq Crossing /\ crossings \subseteq Crossing
    /\ closes \in [Visitors -> [step : {"none", "read", "write"}, found : 0 .. Len(sessions),
                                entry : Crossing \cup {None}, ts : Nat]]
    /\ sessions \in Seq(Session)
    /\ {clock, edit_count, failures, restarts} \subseteq Nat

\* Entries and exits of a visitor at a line alternate, however often the line's
\* confirmation count, direction or activity changes under it: entries minus exits
\* say on which side the visitor is, given the side it was first seen on.
Bit(side) == IF side = "in" THEN 1 ELSE 0
NetFollowsSide == \A p \in Lines \X Visitors :
    LET s == states[p] IN
        /\ s.net = Bit(s.last) - Bit(s.first)
        /\ s.last = None <=> s.first = None

\* The sessions account for the log: every stored exit ends exactly one session of
\* its visitor, no entry begins two, and a session cites only stored events.
SessionsCiteCrossings ==
    /\ \A i \in DOMAIN sessions : LET s == sessions[i] IN
        /\ s.entry # None => /\ s.entry \in crossings /\ s.entry.type = "entered"
                             /\ s.entry.visitor = s.visitor
        /\ s.exit # None => /\ s.exit \in crossings /\ s.exit.type = "exited"
                            /\ s.exit.visitor = s.visitor
    /\ \A i, j \in DOMAIN sessions : i # j =>
        /\ sessions[i].entry # None => sessions[i].entry # sessions[j].entry
        /\ sessions[i].exit # None => sessions[i].exit # sessions[j].exit
    /\ \A c \in crossings : c.type = "exited" => \E i \in DOMAIN sessions : sessions[i].exit = c

\* However crossing and close tasks race, a session's stay is its end minus its
\* entry, and only an ended session has either.
DwellIsStay == \A i \in DOMAIN sessions : LET s == sessions[i] IN
    /\ s.complete <=> s.exit_ts # None
    /\ s.dwell = IF s.complete /\ s.entry # None THEN s.exit_ts - s.entry.ts ELSE None

\* Nothing undoes the past: an ended session stays ended, an entry is never
\* replaced, and a stored exit event is never replaced, restarts included.
HistoryIsKept ==
    [][\A i \in DOMAIN sessions :
        /\ i \in DOMAIN sessions'
        /\ sessions[i].complete => sessions'[i].complete /\ sessions'[i].entry = sessions[i].entry
        /\ sessions[i].entry # None => sessions'[i].entry = sessions[i].entry
        /\ sessions[i].exit # None => sessions'[i].exit = sessions[i].exit]_vars

=============================================================================
