--------------------------- MODULE VisitorSessionsProofs ---------------------------
(***************************************************************************)
(* Proofs about VisitorSessions, for any visitors, lines, settings and     *)
(* bounds.  IInv is inductive; its parts beside the checked invariants say *)
(* that a crossing is stored once and that a close task which read an      *)
(* entry still finds it when it writes.                                    *)
(*                                                                         *)
(* Proofs about SyncService, which uploads the crossings among other       *)
(* records: the bound on repeated uploads, and the outbox it implements.   *)
(***************************************************************************)
EXTENDS VisitorSessions, SyncService, SequenceTheorems, TLAPS

NetRight(s) == s.net = Bit(s.last) - Bit(s.first) /\ (s.last = None <=> s.first = None)

\* A detected crossing is newer than all before it, so it is stored once.
Clocked == /\ \A c \in persists \cup crossings : c.ts <= clock
           /\ persists \cap crossings = {}

ExitEnds == \A i \in DOMAIN sessions : sessions[i].exit # None => sessions[i].complete

ReadHolds == \A v \in Visitors :
    closes[v].step = "write" /\ closes[v].found # 0 /\ closes[v].entry # None
    => sessions[closes[v].found].entry = closes[v].entry

IInv == /\ TypeOK /\ NetFollowsSide /\ Clocked /\ ExitEnds /\ ReadHolds
        /\ SessionsCiteCrossings /\ DwellIsStay

-----------------------------------------------------------------------------
\* One frame's update keeps a line state well formed and its balance right.
LEMMA UpdateFacts ==
    ASSUME NEW s \in LineState, NEW side \in Places, NEW min \in Nat \ {0}
    PROVE  /\ Update(s, side, min) \in LineState
           /\ NetRight(s) => NetRight(Update(s, side, min))
<1> USE NoneAssumption DEF LineState, Sides, Places
<1> DEFINE u == Update(s, side, min)
<1>1. CASE side \notin Sides
  <2>1. side # s.last /\ ~Crosses(s, side, min)
    BY <1>1 DEF Crosses
  <2>2. u = s
    BY <1>1, <2>1 DEF Update
  <2> QED  BY <2>2
<1>2. CASE side \in Sides /\ s.last = None
  <2>1. side # s.last /\ ~Crosses(s, side, min)
    BY <1>2 DEF Crosses
  <2>2. u = [s EXCEPT !.last = side, !.first = side]
    BY <1>2, <2>1 DEF Update
  <2>3. u.last = side /\ u.first = side /\ u.net = s.net /\ u \in LineState
    BY <1>2, <2>2
  <2> QED  BY <1>2, <2>3 DEF NetRight, Bit
<1>3. CASE side \in Sides /\ side = s.last
  <2>1. ~Crosses(s, side, min)
    BY <1>3 DEF Crosses
  <2>2. u = [s EXCEPT !.pending = None, !.count = 0]
    BY <1>3, <2>1 DEF Update
  <2>3. u \in LineState
    <3>1. u = [last |-> s.last, pending |-> None, count |-> 0, first |-> s.first, net |-> s.net]
      BY <2>2
    <3> QED  BY <3>1
  <2>4. u.last = s.last /\ u.first = s.first /\ u.net = s.net
    BY <2>2
  <2> QED  BY <2>3, <2>4 DEF NetRight
<1>4. CASE side \in Sides /\ s.last # None /\ side # s.last /\ Crosses(s, side, min)
  <2>1. u = [s EXCEPT !.last = side, !.pending = None, !.count = 0,
                      !.net = IF side = "in" THEN @ + 1 ELSE @ - 1]
    BY <1>4 DEF Update
  <2>2. /\ u.last = side /\ u.first = s.first
        /\ u.net = IF side = "in" THEN s.net + 1 ELSE s.net - 1
    BY <1>4, <2>1
  <2> DEFINE net == IF side = "in" THEN s.net + 1 ELSE s.net - 1
  <2>3. net \in Int
    OBVIOUS
  <2>4. u = [s EXCEPT !.last = side, !.pending = None, !.count = 0, !.net = net]
    BY <2>1
  <2> HIDE DEF net
  <2>5. u \in LineState
    <3>1. u = [last |-> side, pending |-> None, count |-> 0, first |-> s.first, net |-> net]
      BY <2>4
    <3> QED  BY <1>4, <2>3, <3>1
  <2> QED  BY <1>4, <2>2, <2>5 DEF NetRight, Bit
<1>5. CASE side \in Sides /\ s.last # None /\ side # s.last /\ ~Crosses(s, side, min)
  <2>1. u = [s EXCEPT !.pending = side, !.count = Hits(s, side)]
    BY <1>5 DEF Update
  <2>2. Hits(s, side) \in Nat
    BY DEF Hits
  <2>3. u.last = s.last /\ u.first = s.first /\ u.net = s.net /\ u \in LineState
    BY <1>5, <2>1, <2>2
  <2> QED  BY <2>3 DEF NetRight
<1> QED  BY <1>1, <1>2, <1>3, <1>4, <1>5

LEMMA NewStateFacts == NewState \in LineState /\ NetRight(NewState)
BY NoneAssumption DEF NewState, LineState, NetRight, Bit, Sides

LEMMA SideOfType ==
    ASSUME NEW setting, NEW place \in Places PROVE SideOf(setting, place) \in Places
BY DEF SideOf, Places, Sides

\* A frame changes each line state by at most one update.
LEMMA MovedFacts ==
    ASSUME TypeOK, NEW where \in [Visitors -> Places], NEW p \in Lines \X Visitors
    PROVE  /\ Moved(where)[p] \in LineState
           /\ NetRight(states[p]) => NetRight(Moved(where)[p])
<1>1. p[1] \in Lines /\ p[2] \in Visitors /\ where[p[2]] \in Places /\ states[p] \in LineState
  BY DEF TypeOK
<1>2. CASE Watched(p[1], where[p[2]])
  <2>1. lines[p[1]] \in Settings
    BY <1>1, <1>2 DEF TypeOK, Watched
  <2>2. lines[p[1]].min \in Nat \ {0}
    BY <2>1, SettingAssumption
  <2>3. Moved(where)[p] = Update(states[p], SideAt(p, where), lines[p[1]].min)
    BY <1>2 DEF Moved
  <2>4. SideAt(p, where) \in Places
    BY <1>1, SideOfType DEF SideAt
  <2> QED  BY <1>1, <2>2, <2>3, <2>4, UpdateFacts
<1>3. CASE ~Watched(p[1], where[p[2]])
  BY <1>1, <1>3 DEF Moved
<1> QED  BY <1>2, <1>3

\* What a frame detects is a crossing of the frame's time.
LEMMA ConfirmedFacts ==
    ASSUME TypeOK, NEW where \in [Visitors -> Places], NEW c \in Confirmed(where)
    PROVE  c \in Crossing /\ c.ts = clock + 1
BY DEF TypeOK, Confirmed, Crossing

\* record_entry and record_exit: what they make of an open session.
LEMMA RecordedFacts ==
    ASSUME NEW s \in Session, NEW c \in Crossing, ~s.complete, s.exit_ts = None, s.dwell = None
    PROVE  LET r == Recorded(s, c) IN
           /\ r \in Session /\ r.visitor = s.visitor
           /\ r.complete <=> r.exit_ts # None
           /\ r.dwell = IF r.complete /\ r.entry # None THEN r.exit_ts - r.entry.ts ELSE None
           /\ c.type = "entered" => /\ r.exit = s.exit /\ ~r.complete
                                    /\ r.entry = IF s.entry = None THEN c ELSE s.entry
           /\ c.type = "exited" => r.exit = c /\ r.complete /\ r.entry = s.entry
<1> DEFINE r == Recorded(s, c)
<1> USE NoneAssumption DEF Session
<1>c. c.ts \in Nat /\ c # None /\ c.type \in {"entered", "exited"}
  BY DEF Crossing
<1>1. CASE c.type = "entered" /\ s.entry = None
  <2>1. r = [s EXCEPT !.entry = c]
    BY <1>1 DEF Recorded
  <2> QED  BY <1>1, <1>c, <2>1
<1>2. CASE c.type = "entered" /\ s.entry # None
  <2>1. r = s
    BY <1>2 DEF Recorded
  <2> QED  BY <1>2, <1>c, <2>1
<1>3. CASE c.type = "exited"
  <2>1. r = [s EXCEPT !.exit = c, !.exit_ts = c.ts, !.complete = TRUE,
                   !.dwell = IF s.entry = None THEN @ ELSE c.ts - s.entry.ts]
    BY <1>3 DEF Recorded
  <2>2. s.entry # None => s.entry.ts \in Nat
    BY DEF Crossing
  <2>3. /\ r.visitor = s.visitor /\ r.entry = s.entry /\ r.exit = c
        /\ r.exit_ts = c.ts /\ r.complete = TRUE
        /\ r.dwell = IF s.entry = None THEN None ELSE c.ts - s.entry.ts
    BY <2>1
  <2> DEFINE dwell == IF s.entry = None THEN s.dwell ELSE c.ts - s.entry.ts
  <2>d. dwell \in Int \cup {None}
    BY <1>c, <2>2
  <2>e. r = [s EXCEPT !.exit = c, !.exit_ts = c.ts, !.complete = TRUE, !.dwell = dwell]
    BY <2>1
  <2> HIDE DEF dwell
  <2>4. r \in Session
    BY <1>c, <2>d, <2>e
  <2> QED  BY <1>3, <1>c, <2>3, <2>4
<1> QED  BY <1>1, <1>2, <1>3, <1>c

LEMMA NewSessionType == ASSUME NEW v \in Visitors PROVE NewSession(v) \in Session
BY DEF NewSession, Session

-----------------------------------------------------------------------------
\* A tracking frame touches the detector, the tracks and the tasks only.
LEMMA FrameStep ==
    ASSUME IInv, NEW where \in [Visitors -> Places], NEW gone \in SUBSET Visitors,
           Frame(where, gone)
    PROVE  IInv'
<1> USE DEF IInv
<1>u. UNCHANGED <<fresh, rows, lines, edits, edit_count, crossings, sessions, failures, restarts>>
  BY DEF Frame, lineVars, storeVars
<1>c. clock' = clock + 1 /\ clock \in Nat
  BY DEF Frame, TypeOK
<1>1. states' \in [Lines \X Visitors -> LineState] /\ NetFollowsSide'
  <2>1. ASSUME NEW p \in Lines \X Visitors
        PROVE  states'[p] \in LineState /\ NetRight(states'[p])
    <3>1. states'[p] = IF p[2] \in gone THEN NewState ELSE Moved(where)[p]
      BY DEF Frame
    <3>2. NetRight(states[p])
      BY DEF NetFollowsSide, NetRight
    <3> QED  BY <3>1, <3>2, NewStateFacts, MovedFacts
  <2>2. states' = [p \in Lines \X Visitors |-> states'[p]]
    BY DEF Frame
  <2> QED  BY <2>1, <2>2 DEF NetFollowsSide, NetRight
<1>2. persists' \subseteq Crossing /\ Clocked'
  <2>1. persists' = persists \cup Confirmed(where)
    BY DEF Frame
  <2>2. \A c \in Confirmed(where) : c \in Crossing /\ c.ts = clock + 1
    BY ConfirmedFacts
  <2>3. \A c \in persists \cup crossings : c.ts \in Nat /\ c.ts <= clock
    BY DEF TypeOK, Clocked, Crossing
  <2>4. persists' \subseteq Crossing
    BY <2>1, <2>2 DEF TypeOK
  <2>5. \A c \in persists' \cup crossings' : c.ts <= clock'
    BY <1>u, <1>c, <2>1, <2>2, <2>3
  <2>6. persists' \cap crossings' = {}
    BY <1>u, <1>c, <2>1, <2>2, <2>3 DEF Clocked
  <2> QED  BY <2>4, <2>5, <2>6 DEF Clocked
<1>3. track' \in [Visitors -> {"unseen", "seen", "removed"}]
  BY DEF Frame, TypeOK
<1>4. \A v \in Visitors : closes'[v] = closes[v] \/ closes'[v] = Task("read", clock + 1)
  BY DEF Frame
<1> DEFINE Tasks == [step : {"none", "read", "write"}, found : 0 .. Len(sessions),
                     entry : Crossing \cup {None}, ts : Nat]
<1>5. Task("read", clock + 1) \in Tasks
  <2>1. Len(sessions) \in Nat
    BY LenProperties DEF TypeOK
  <2> QED  BY <1>c, <2>1 DEF Task
<1>6. closes' \in [Visitors -> Tasks]
  <2>1. closes' = [v \in Visitors |-> closes'[v]]
    BY DEF Frame
  <2> QED  BY <1>4, <1>5, <2>1 DEF TypeOK
<1>7. TypeOK'
  BY <1>u, <1>c, <1>1, <1>2, <1>3, <1>6 DEF TypeOK
<1>8. ReadHolds'
  BY <1>u, <1>4 DEF ReadHolds, Task
<1>9. ExitEnds' /\ SessionsCiteCrossings' /\ DwellIsStay'
  BY <1>u DEF ExitEnds, SessionsCiteCrossings, DwellIsStay
<1> QED  BY <1>1, <1>2, <1>7, <1>8, <1>9

\* Steps that leave the tables alone and start or end tasks or requests.
LEMMA QuietStep ==
    ASSUME IInv, UNCHANGED <<crossings, sessions, clock>>, TypeOK', NetFollowsSide',
           persists' \subseteq persists,
           \A v \in Visitors : closes'[v] = closes[v] \/ closes'[v].step # "write"
    PROVE  IInv'
<1>1. Clocked'
  BY DEF IInv, Clocked
<1>2. ExitEnds' /\ SessionsCiteCrossings' /\ DwellIsStay'
  BY DEF IInv, ExitEnds, SessionsCiteCrossings, DwellIsStay
<1>3. ReadHolds'
  BY DEF IInv, ReadHolds
<1> QED  BY <1>1, <1>2, <1>3 DEF IInv

LEMMA IdleType ==
    ASSUME TypeOK
    PROVE  Idle \in [step : {"none", "read", "write"}, found : 0 .. Len(sessions),
                     entry : Crossing \cup {None}, ts : Nat]
<1>1. Len(sessions) \in Nat
  BY LenProperties DEF TypeOK
<1> QED  BY <1>1 DEF Idle, Task

LEMMA PersistFailsStep ==
    ASSUME IInv, NEW c \in persists, PersistFails(c) PROVE IInv'
<1>1. TypeOK'
  BY DEF IInv, TypeOK, PersistFails, lineVars, storeVars
<1>2. NetFollowsSide'
  BY DEF IInv, NetFollowsSide, PersistFails
<1> QED  BY <1>1, <1>2, QuietStep DEF PersistFails, storeVars

LEMMA CloseFailsStep ==
    ASSUME IInv, NEW v \in Visitors, CloseFails(v) PROVE IInv'
<1>t. TypeOK
  BY DEF IInv
<1>u. UNCHANGED <<fresh, rows, lines, edits, edit_count, crossings, sessions, states, track,
                  persists, clock, restarts>> /\ failures' \in Nat
  BY <1>t DEF CloseFails, lineVars, storeVars, TypeOK
<1>c. closes' = [closes EXCEPT ![v] = Idle]
  BY DEF CloseFails
<1>1. TypeOK'
  BY <1>t, <1>u, <1>c, IdleType DEF TypeOK
<1>2. NetFollowsSide'
  BY DEF IInv, NetFollowsSide, CloseFails
<1>3. \A w \in Visitors : closes'[w] = closes[w] \/ closes'[w].step # "write"
  BY DEF IInv, TypeOK, CloseFails, Idle, Task
<1> QED  BY <1>1, <1>2, <1>3, QuietStep DEF CloseFails, storeVars

LEMMA CommitStep ==
    ASSUME IInv, NEW l \in Lines, NEW setting \in Settings \cup {None}, Commit(l, setting),
           fresh' \subseteq Lines
    PROVE  IInv'
<1>t. TypeOK
  BY DEF IInv
<1>u. UNCHANGED <<lines, crossings, sessions, states, track, persists, closes, clock, failures,
                  restarts>> /\ edit_count' = edit_count + 1
  BY DEF Commit, storeVars
<1>r. rows' \in [Lines -> Settings \cup {None}]
  BY <1>t DEF Commit, TypeOK
<1>e. edits' \subseteq [line : Lines, setting : Settings \cup {None}, number : Nat]
  BY <1>t DEF Commit, TypeOK
<1>1. TypeOK'
  BY <1>t, <1>u, <1>r, <1>e DEF TypeOK
<1>2. NetFollowsSide'
  BY DEF IInv, NetFollowsSide, Commit
<1> QED  BY <1>1, <1>2, QuietStep DEF Commit, storeVars

LEMMA SyncStep ==
    ASSUME IInv, NEW e \in edits, Sync(e) PROVE IInv'
<1>t. TypeOK
  BY DEF IInv
<1>e. e.line \in Lines /\ e.setting \in Settings \cup {None}
  BY <1>t DEF TypeOK
<1>u. UNCHANGED <<fresh, rows, edit_count, crossings, sessions, track, persists, closes, clock,
                  failures, restarts>> /\ edits' \subseteq edits
  BY DEF Sync, storeVars
<1>1. lines' \in [Lines -> Settings \cup {None}]
  BY <1>t, <1>e DEF Sync, TypeOK
<1>2. states' \in [Lines \X Visitors -> LineState] /\ NetFollowsSide'
  <2>1. CASE e.setting = None
    <3>1. states' = [p \in Lines \X Visitors |-> IF p[1] = e.line THEN NewState ELSE states[p]]
      BY <2>1 DEF Sync
    <3>2. \A p \in Lines \X Visitors : states[p] \in LineState /\ NetRight(states[p])
      BY DEF IInv, TypeOK, NetFollowsSide, NetRight
    <3>3. \A p \in Lines \X Visitors : states'[p] \in LineState /\ NetRight(states'[p])
      BY <3>1, <3>2, NewStateFacts
    <3> QED  BY <3>1, <3>3 DEF NetFollowsSide, NetRight
  <2>2. CASE e.setting # None
    BY <2>2, <1>t DEF Sync, IInv, TypeOK, NetFollowsSide
  <2> QED  BY <2>1, <2>2
<1>3. TypeOK'
  BY <1>t, <1>u, <1>1, <1>2 DEF TypeOK
<1> QED  BY <1>u, <1>2, <1>3, QuietStep

LEMMA RestartStep ==
    ASSUME IInv, Restart PROVE IInv'
<1>t. TypeOK
  BY DEF IInv
<1>u. UNCHANGED <<fresh, rows, edit_count, crossings, sessions, clock, failures>>
      /\ edits' = {} /\ persists' = {} /\ restarts' \in Nat
  BY <1>t DEF Restart, storeVars, TypeOK
<1>1. lines' \in [Lines -> Settings \cup {None}]
  BY <1>t DEF Restart, TypeOK, Loaded
<1>2. states' \in [Lines \X Visitors -> LineState] /\ NetFollowsSide'
  <2>1. states' = [p \in Lines \X Visitors |-> NewState]
    BY DEF Restart
  <2> QED  BY <2>1, NewStateFacts DEF NetFollowsSide, NetRight
<1>3. closes' = [v \in Visitors |-> Idle] /\ track' = [v \in Visitors |-> "unseen"]
  BY DEF Restart
<1>4. TypeOK'
  BY <1>t, <1>u, <1>1, <1>2, <1>3, IdleType DEF TypeOK
<1>5. \A v \in Visitors : closes'[v].step # "write"
  BY <1>3 DEF Idle, Task
<1> QED  BY <1>u, <1>2, <1>4, <1>5, QuietStep

-----------------------------------------------------------------------------
(* The steps that write sessions.                                          *)

\* Row n is written, as a new row or over an old one.
LEMMA WriteOne ==
    ASSUME sessions \in Seq(Session), NEW n \in 1 .. Len(sessions) + 1, NEW r \in Session,
           sessions' = IF n = Len(sessions) + 1 THEN Append(sessions, r)
                       ELSE [sessions EXCEPT ![n] = r]
    PROVE  /\ sessions' \in Seq(Session) /\ Len(sessions) <= Len(sessions')
           /\ DOMAIN sessions' = DOMAIN sessions \cup {n} /\ sessions'[n] = r
           /\ \A j \in DOMAIN sessions : j # n => sessions'[j] = sessions[j]
<1>l. Len(sessions) \in Nat /\ DOMAIN sessions = 1 .. Len(sessions)
  BY LenProperties
<1>1. CASE n = Len(sessions) + 1
  <2>1. sessions' = Append(sessions, r)
    BY <1>1
  <2> QED  BY <1>l, <1>1, <2>1, AppendProperties
<1>2. CASE n \in 1 .. Len(sessions)
  <2>0. n # Len(sessions) + 1
    BY <1>l, <1>2
  <2>1. sessions' = [sessions EXCEPT ![n] = r]
    BY <2>0
  <2>2. sessions' \in Seq(Session) /\ Len(sessions') = Len(sessions)
    BY <1>2, <2>1, ExceptSeq
  <2>3. DOMAIN sessions' = DOMAIN sessions \cup {n}
    BY <1>l, <1>2, <2>1
  <2>4. sessions'[n] = r /\ \A j \in DOMAIN sessions : j # n => sessions'[j] = sessions[j]
    BY <1>l, <1>2, <2>1
  <2>5. Len(sessions) <= Len(sessions')
    <3>1. \A x \in Nat : x <= x
      OBVIOUS
    <3> QED  BY <1>l, <2>2, <3>1, Zenon
  <2> QED  BY <2>2, <2>3, <2>4, <2>5, Zenon
<1>3. n = Len(sessions) + 1 \/ n \in 1 .. Len(sessions)
  BY <1>l
<1> QED  BY <1>1, <1>2, <1>3

LEMMA CloseReadStep ==
    ASSUME IInv, NEW v \in Visitors, CloseRead(v) PROVE IInv'
<1>t. TypeOK
  BY DEF IInv
<1>u. UNCHANGED <<fresh, rows, lines, edits, edit_count, crossings, sessions, states, track,
                  persists, clock, failures, restarts>>
  BY DEF CloseRead, lineVars, storeVars
<1>1. PICK i \in 0 .. Len(sessions) :
        closes' = [closes EXCEPT ![v] =
               [closes[v] EXCEPT !.step = "write", !.found = i,
                                 !.entry = IF i = 0 THEN None ELSE sessions[i].entry]]
  BY DEF CloseRead
<1> DEFINE e == IF i = 0 THEN None ELSE sessions[i].entry
           t == [closes[v] EXCEPT !.step = "write", !.found = i, !.entry = e]
<1>2. e \in Crossing \cup {None}
  <2>1. i # 0 => sessions[i] \in Session
    BY <1>t, ElementOfSeq DEF TypeOK
  <2> QED  BY <2>1 DEF Session
<1>3. closes' = [closes EXCEPT ![v] = t]
  BY <1>1
<1>4. t.step = "write" /\ t.found = i /\ t.entry = e
  BY <1>t DEF TypeOK
<1>5. i # 0 => sessions[i].entry = e
  OBVIOUS
<1> HIDE DEF e
<1>6. t \in [step : {"none", "read", "write"}, found : 0 .. Len(sessions),
              entry : Crossing \cup {None}, ts : Nat]
  BY <1>t, <1>2 DEF TypeOK
<1> HIDE DEF t
<1>7. closes' \in [Visitors -> [step : {"none", "read", "write"}, found : 0 .. Len(sessions),
                                entry : Crossing \cup {None}, ts : Nat]]
  BY <1>t, <1>3, <1>6 DEF TypeOK
<1>8. TypeOK'
  BY <1>t, <1>u, <1>7 DEF TypeOK
<1>9. ReadHolds'
  BY <1>t, <1>u, <1>3, <1>4, <1>5 DEF IInv, ReadHolds, TypeOK
<1>10. NetFollowsSide' /\ Clocked' /\ ExitEnds' /\ SessionsCiteCrossings' /\ DwellIsStay'
  BY <1>u DEF IInv, NetFollowsSide, Clocked, ExitEnds, SessionsCiteCrossings, DwellIsStay
<1> QED  BY <1>8, <1>9, <1>10 DEF IInv

\* What the storing of a crossing does: one open session, new or the newest open one
\* of the visitor, takes it.
LEMMA PersistFacts ==
    ASSUME IInv, NEW c \in persists, Persist(c)
    PROVE  \E n \in 1 .. Len(sessions) + 1, s \in Session :
        /\ sessions' \in Seq(Session) /\ Len(sessions) <= Len(sessions')
        /\ DOMAIN sessions' = DOMAIN sessions \cup {n}
        /\ sessions'[n] = Recorded(s, c)
        /\ \A j \in DOMAIN sessions : j # n => sessions'[j] = sessions[j]
        /\ ~s.complete /\ s.exit = None /\ s.exit_ts = None /\ s.dwell = None
        /\ s.visitor = c.visitor
        /\ n \in DOMAIN sessions => s = sessions[n]
        /\ n \notin DOMAIN sessions => s.entry = None
<1>t. sessions \in Seq(Session) /\ c \in Crossing /\ c.visitor \in Visitors
  BY DEF IInv, TypeOK, Crossing
<1>l. Len(sessions) \in Nat /\ DOMAIN sessions = 1 .. Len(sessions)
  BY <1>t, LenProperties
<1>1. PICK i \in 0 .. Len(sessions) :
        /\ Found(c.visitor, i)
        /\ sessions' = IF i = 0 THEN Append(sessions, Recorded(NewSession(c.visitor), c))
                       ELSE [sessions EXCEPT ![i] = Recorded(sessions[i], c)]
  BY DEF Persist
<1>2. CASE i = 0
  <2> DEFINE s == NewSession(c.visitor)
             n == Len(sessions) + 1
  <2>1. s \in Session /\ ~s.complete /\ s.exit = None /\ s.exit_ts = None /\ s.dwell = None
        /\ s.visitor = c.visitor /\ s.entry = None
    BY <1>t DEF NewSession, Session
  <2>2. Recorded(s, c) \in Session
    BY <1>t, <2>1, RecordedFacts
  <2>3. n \in 1 .. Len(sessions) + 1 /\ n \notin DOMAIN sessions
    BY <1>l
  <2>4. sessions' = Append(sessions, Recorded(s, c))
    BY <1>1, <1>2
  <2> HIDE DEF s
  <2>5. /\ sessions' \in Seq(Session) /\ Len(sessions) <= Len(sessions')
        /\ DOMAIN sessions' = DOMAIN sessions \cup {n} /\ sessions'[n] = Recorded(s, c)
        /\ \A j \in DOMAIN sessions : j # n => sessions'[j] = sessions[j]
    BY <1>t, <2>2, <2>3, <2>4, WriteOne
  <2> QED  BY <2>1, <2>3, <2>5
<1>3. CASE i # 0
  <2> DEFINE s == sessions[i]
  <2>1. i \in 1 .. Len(sessions) + 1 /\ i \in DOMAIN sessions /\ i # Len(sessions) + 1
    BY <1>l, <1>3
  <2>2. s \in Session
    BY <1>t, <1>l, <2>1, ElementOfSeq
  <2>3. s.visitor = c.visitor /\ ~s.complete
    BY <1>1, <1>3 DEF Found
  <2>4. s.exit = None /\ s.exit_ts = None /\ s.dwell = None
    BY <2>1, <2>3 DEF IInv, ExitEnds, DwellIsStay
  <2>5. Recorded(s, c) \in Session
    BY <1>t, <2>2, <2>3, <2>4, RecordedFacts
  <2>6. sessions' = [sessions EXCEPT ![i] = Recorded(s, c)]
    BY <1>1, <1>3
  <2> HIDE DEF s
  <2>7. /\ sessions' \in Seq(Session) /\ Len(sessions) <= Len(sessions')
        /\ DOMAIN sessions' = DOMAIN sessions \cup {i} /\ sessions'[i] = Recorded(s, c)
        /\ \A j \in DOMAIN sessions : j # i => sessions'[j] = sessions[j]
    BY <1>t, <2>1, <2>5, <2>6, WriteOne
  <2> QED  BY <2>1, <2>2, <2>3, <2>4, <2>7 DEF s
<1> QED  BY <1>2, <1>3

\* What the write of a close task does: nothing, a new empty session, or the end
\* and stay of the session it read, whose entry is still the one it read.
LEMMA CloseWriteFacts ==
    ASSUME IInv, NEW v \in Visitors, CloseWrite(v)
    PROVE  \/ sessions' = sessions
           \/ \E n \in 1 .. Len(sessions) + 1, r \in Session :
                /\ sessions' \in Seq(Session) /\ Len(sessions) <= Len(sessions')
                /\ DOMAIN sessions' = DOMAIN sessions \cup {n} /\ sessions'[n] = r
                /\ \A j \in DOMAIN sessions : j # n => sessions'[j] = sessions[j]
                /\ r.complete <=> r.exit_ts # None
                /\ r.dwell = IF r.complete /\ r.entry # None THEN r.exit_ts - r.entry.ts ELSE None
                /\ n \in DOMAIN sessions =>
                     /\ r.visitor = sessions[n].visitor /\ r.entry = sessions[n].entry
                     /\ r.exit = sessions[n].exit /\ r.complete
                /\ n \notin DOMAIN sessions => r.entry = None /\ r.exit = None
<1>t. sessions \in Seq(Session)
  BY DEF IInv, TypeOK
<1>l. Len(sessions) \in Nat /\ DOMAIN sessions = 1 .. Len(sessions)
  BY <1>t, LenProperties
<1> DEFINE t == closes[v]
<1>c. t.found \in 0 .. Len(sessions) /\ t.ts \in Nat /\ t.entry \in Crossing \cup {None}
  BY DEF IInv, TypeOK
<1>1. CASE t.found = 0
  <2>1. sessions' = Append(sessions, NewSession(v))
    BY <1>1 DEF CloseWrite
  <2> DEFINE r == NewSession(v)
             n == Len(sessions) + 1
  <2>2. /\ r \in Session /\ r.entry = None /\ r.exit = None /\ ~r.complete
        /\ r.exit_ts = None /\ r.dwell = None
    BY DEF NewSession, Session
  <2>3. n \in 1 .. Len(sessions) + 1 /\ n \notin DOMAIN sessions
    BY <1>l
  <2> HIDE DEF r
  <2>4. /\ sessions' \in Seq(Session) /\ Len(sessions) <= Len(sessions')
        /\ DOMAIN sessions' = DOMAIN sessions \cup {n} /\ sessions'[n] = r
        /\ \A j \in DOMAIN sessions : j # n => sessions'[j] = sessions[j]
    BY <1>t, <2>1, <2>2, <2>3, WriteOne DEF r
  <2> QED  BY <2>2, <2>3, <2>4
<1>2. CASE t.found # 0 /\ t.entry = None
  BY <1>2 DEF CloseWrite
<1>3. CASE t.found # 0 /\ t.entry # None
  <2> DEFINE n == t.found
             o == sessions[n]
             r == [o EXCEPT !.exit_ts = t.ts, !.complete = TRUE, !.dwell = t.ts - t.entry.ts]
  <2>1. sessions' = [sessions EXCEPT ![n] = r]
    BY <1>3 DEF CloseWrite
  <2>2. n \in 1 .. Len(sessions) + 1 /\ n \in DOMAIN sessions /\ n # Len(sessions) + 1
    BY <1>l, <1>c, <1>3
  <2>3. o \in Session
    BY <1>t, <1>l, <2>2, ElementOfSeq
  <2>4. o.entry = t.entry
    BY <1>3 DEF IInv, ReadHolds, CloseWrite
  <2>5. t.entry.ts \in Nat /\ t.ts # None
    BY <1>c, <1>3, NoneAssumption DEF Crossing
  <2>6. t.ts - t.entry.ts \in Int
    BY <1>c, <2>5
  <2>7. /\ r.exit_ts = t.ts /\ r.complete /\ r.dwell = t.ts - t.entry.ts
        /\ r.visitor = o.visitor /\ r.entry = o.entry /\ r.exit = o.exit
    BY <2>3 DEF Session
  <2>8. r \in Session
    BY <1>c, <2>3, <2>6 DEF Session
  <2> HIDE DEF r
  <2>9. /\ sessions' \in Seq(Session) /\ Len(sessions) <= Len(sessions')
        /\ DOMAIN sessions' = DOMAIN sessions \cup {n} /\ sessions'[n] = r
        /\ \A j \in DOMAIN sessions : j # n => sessions'[j] = sessions[j]
    BY <1>t, <2>1, <2>2, <2>8, WriteOne
  <2> QED  BY <1>3, <2>2, <2>4, <2>5, <2>7, <2>8, <2>9
<1> QED  BY <1>1, <1>2, <1>3

LEMMA PersistStep ==
    ASSUME IInv, NEW c \in persists, Persist(c)
    PROVE  IInv'
<1>t. TypeOK /\ c \in Crossing /\ c \notin crossings /\ c # None
  BY NoneAssumption DEF IInv, TypeOK, Clocked
<1>u. UNCHANGED <<fresh, rows, lines, edits, edit_count, states, track, closes, clock, failures,
                  restarts>>
      /\ crossings' = crossings \cup {c} /\ persists' = persists \ {c}
  BY DEF Persist, lineVars
<1>1. PICK n \in 1 .. Len(sessions) + 1, s \in Session :
        /\ sessions' \in Seq(Session) /\ Len(sessions) <= Len(sessions')
        /\ DOMAIN sessions' = DOMAIN sessions \cup {n}
        /\ sessions'[n] = Recorded(s, c)
        /\ \A j \in DOMAIN sessions : j # n => sessions'[j] = sessions[j]
        /\ ~s.complete /\ s.exit = None /\ s.exit_ts = None /\ s.dwell = None
        /\ s.visitor = c.visitor
        /\ n \in DOMAIN sessions => s = sessions[n]
        /\ n \notin DOMAIN sessions => s.entry = None
  BY PersistFacts
<1> DEFINE r == Recorded(s, c)
<1>2. /\ r \in Session /\ r.visitor = s.visitor
      /\ r.complete <=> r.exit_ts # None
      /\ r.dwell = IF r.complete /\ r.entry # None THEN r.exit_ts - r.entry.ts ELSE None
      /\ c.type = "entered" => /\ r.exit = s.exit /\ ~r.complete
                               /\ r.entry = IF s.entry = None THEN c ELSE s.entry
      /\ c.type = "exited" => r.exit = c /\ r.complete /\ r.entry = s.entry
  BY <1>t, <1>1, RecordedFacts
<1>3. c.type = "entered" \/ c.type = "exited"
  BY <1>t DEF Crossing
<1>4. sessions'[n] = r
  BY <1>1
<1> HIDE DEF r
<1>l. Len(sessions) \in Nat /\ Len(sessions') \in Nat /\ DOMAIN sessions = 1 .. Len(sessions)
  BY <1>t, <1>1, LenProperties DEF TypeOK
<1>5. TypeOK'
  <2>1. 0 .. Len(sessions) \subseteq 0 .. Len(sessions')
    BY <1>l, <1>1
  <2>2. closes' \in [Visitors -> [step : {"none", "read", "write"}, found : 0 .. Len(sessions'),
                                  entry : Crossing \cup {None}, ts : Nat]]
    BY <1>t, <1>u, <2>1 DEF TypeOK
  <2> QED  BY <1>t, <1>u, <1>1, <2>2 DEF TypeOK
<1>6. NetFollowsSide' /\ Clocked'
  BY <1>u DEF IInv, NetFollowsSide, Clocked
<1>7. ExitEnds'
  BY <1>1, <1>2, <1>3, <1>4 DEF IInv, ExitEnds
<1>8. DwellIsStay'
  BY <1>1, <1>2, <1>4 DEF IInv, DwellIsStay
<1>9. ReadHolds'
  <2> SUFFICES ASSUME NEW v \in Visitors, closes[v].step = "write", closes[v].found # 0,
                      closes[v].entry # None
               PROVE  sessions'[closes[v].found].entry = closes[v].entry
    BY <1>u DEF ReadHolds
  <2>1. sessions[closes[v].found].entry = closes[v].entry
    BY DEF IInv, ReadHolds
  <2>2. closes[v].found \in DOMAIN sessions
    BY <1>t, <1>l DEF TypeOK
  <2>3. n \in DOMAIN sessions /\ sessions[n].entry # None => r.entry = sessions[n].entry
    BY <1>1, <1>2, <1>3
  <2> QED  BY <1>1, <1>4, <2>1, <2>2, <2>3
<1>10. SessionsCiteCrossings'
  <2>o. \A j \in DOMAIN sessions :
          /\ sessions[j].entry # None => /\ sessions[j].entry \in crossings
                                         /\ sessions[j].entry.type = "entered"
                                         /\ sessions[j].entry.visitor = sessions[j].visitor
          /\ sessions[j].exit # None => /\ sessions[j].exit \in crossings
                                        /\ sessions[j].exit.type = "exited"
                                        /\ sessions[j].exit.visitor = sessions[j].visitor
    BY DEF IInv, SessionsCiteCrossings
  <2>1. \A j \in DOMAIN sessions' : LET q == sessions'[j] IN
            /\ q.entry # None => /\ q.entry \in crossings' /\ q.entry.type = "entered"
                                 /\ q.entry.visitor = q.visitor
            /\ q.exit # None => /\ q.exit \in crossings' /\ q.exit.type = "exited"
                                /\ q.exit.visitor = q.visitor
    BY <1>u, <1>1, <1>2, <1>3, <1>4, <2>o
  <2>2. \A i, j \in DOMAIN sessions' : i # j =>
            /\ sessions'[i].entry # None => sessions'[i].entry # sessions'[j].entry
            /\ sessions'[i].exit # None => sessions'[i].exit # sessions'[j].exit
    <3>1. \A i, j \in DOMAIN sessions : i # j =>
            /\ sessions[i].entry # None => sessions[i].entry # sessions[j].entry
            /\ sessions[i].exit # None => sessions[i].exit # sessions[j].exit
      BY DEF IInv, SessionsCiteCrossings
    <3>2. \A j \in DOMAIN sessions : j # n =>
            /\ r.entry # None => r.entry # sessions[j].entry
            /\ r.exit # None => r.exit # sessions[j].exit
      BY <1>t, <1>1, <1>2, <1>3, <2>o, <3>1
    <3>3. \A i \in DOMAIN sessions' : i # n => i \in DOMAIN sessions /\ sessions'[i] = sessions[i]
      BY <1>1
    <3> QED  BY <1>4, <3>1, <3>2, <3>3
  <2>3. \A d \in crossings' : d.type = "exited" => \E i \in DOMAIN sessions' : sessions'[i].exit = d
    <3> SUFFICES ASSUME NEW d \in crossings', d.type = "exited"
                 PROVE  \E i \in DOMAIN sessions' : sessions'[i].exit = d
      OBVIOUS
    <3>1. CASE d = c
      BY <1>1, <1>2, <1>4, <3>1
    <3>2. CASE d \in crossings
      <4>1. PICK i \in DOMAIN sessions : sessions[i].exit = d
        BY <3>2 DEF IInv, SessionsCiteCrossings
      <4>2. d # None
        BY <1>t, <3>2, NoneAssumption DEF TypeOK
      <4>3. i # n
        BY <1>1, <4>1, <4>2
      <4> QED  BY <1>1, <4>1, <4>3
    <3> QED  BY <1>u, <3>1, <3>2
  <2> QED  BY <2>1, <2>2, <2>3 DEF SessionsCiteCrossings
<1> QED  BY <1>5, <1>6, <1>7, <1>8, <1>9, <1>10 DEF IInv

LEMMA CloseWriteStep ==
    ASSUME IInv, NEW v \in Visitors, CloseWrite(v)
    PROVE  IInv'
<1>t. TypeOK
  BY DEF IInv
<1>u. UNCHANGED <<fresh, rows, lines, edits, edit_count, crossings, states, track, persists, clock,
                  failures, restarts>>
  BY DEF CloseWrite, lineVars
<1>c. closes' = [closes EXCEPT ![v] = Idle]
  BY DEF CloseWrite
<1>i. \A w \in Visitors : closes'[w] = closes[w] \/ closes'[w].step # "write"
  BY <1>t, <1>c DEF TypeOK, Idle, Task
<1>l. Len(sessions) \in Nat /\ DOMAIN sessions = 1 .. Len(sessions)
  BY <1>t, LenProperties DEF TypeOK
<1>n. NetFollowsSide' /\ Clocked'
  BY <1>u DEF IInv, NetFollowsSide, Clocked
<1>1. CASE sessions' = sessions
  <2>1. TypeOK'
    BY <1>t, <1>u, <1>c, <1>1, IdleType DEF TypeOK
  <2> QED  BY <1>u, <1>i, <1>n, <1>1, <2>1, QuietStep
<1>2. CASE sessions' # sessions
  <2>1. PICK n \in 1 .. Len(sessions) + 1, r \in Session :
                /\ sessions' \in Seq(Session) /\ Len(sessions) <= Len(sessions')
                /\ DOMAIN sessions' = DOMAIN sessions \cup {n} /\ sessions'[n] = r
                /\ \A j \in DOMAIN sessions : j # n => sessions'[j] = sessions[j]
                /\ r.complete <=> r.exit_ts # None
                /\ r.dwell = IF r.complete /\ r.entry # None THEN r.exit_ts - r.entry.ts ELSE None
                /\ n \in DOMAIN sessions =>
                     /\ r.visitor = sessions[n].visitor /\ r.entry = sessions[n].entry
                     /\ r.exit = sessions[n].exit /\ r.complete
                /\ n \notin DOMAIN sessions => r.entry = None /\ r.exit = None
    BY <1>2, CloseWriteFacts
  <2>2. TypeOK'
    <3>1. Len(sessions') \in Nat
      BY <2>1, LenProperties
    <3>2. 0 .. Len(sessions) \subseteq 0 .. Len(sessions')
      BY <1>l, <2>1, <3>1
    <3>3. closes' \in [Visitors -> [step : {"none", "read", "write"}, found : 0 .. Len(sessions),
                                    entry : Crossing \cup {None}, ts : Nat]]
      BY <1>t, <1>c, IdleType DEF TypeOK
    <3>4. closes' \in [Visitors -> [step : {"none", "read", "write"}, found : 0 .. Len(sessions'),
                                    entry : Crossing \cup {None}, ts : Nat]]
      BY <3>2, <3>3
    <3> QED  BY <1>t, <1>u, <2>1, <3>4 DEF TypeOK
  <2>3. ExitEnds'
    BY <2>1 DEF IInv, ExitEnds
  <2>4. DwellIsStay'
    BY <2>1 DEF IInv, DwellIsStay
  <2>5. ReadHolds'
    <3> SUFFICES ASSUME NEW w \in Visitors, closes'[w] = closes[w], closes[w].step = "write",
                        closes[w].found # 0, closes[w].entry # None
                 PROVE  sessions'[closes[w].found].entry = closes[w].entry
      BY <1>i DEF ReadHolds
    <3>1. sessions[closes[w].found].entry = closes[w].entry
      BY DEF IInv, ReadHolds
    <3>2. closes[w].found \in DOMAIN sessions
      BY <1>t, <1>l DEF TypeOK
    <3> QED  BY <2>1, <3>1, <3>2
  <2>6. SessionsCiteCrossings'
    <3>o. /\ \A i \in DOMAIN sessions : LET s == sessions[i] IN
              /\ s.entry # None => /\ s.entry \in crossings /\ s.entry.type = "entered"
                                   /\ s.entry.visitor = s.visitor
              /\ s.exit # None => /\ s.exit \in crossings /\ s.exit.type = "exited"
                                  /\ s.exit.visitor = s.visitor
          /\ \A i, j \in DOMAIN sessions : i # j =>
              /\ sessions[i].entry # None => sessions[i].entry # sessions[j].entry
              /\ sessions[i].exit # None => sessions[i].exit # sessions[j].exit
          /\ \A c \in crossings : c.type = "exited" => \E i \in DOMAIN sessions : sessions[i].exit = c
      BY DEF IInv, SessionsCiteCrossings
    <3>1. \A i \in DOMAIN sessions' :
            \/ i \in DOMAIN sessions /\ sessions'[i].visitor = sessions[i].visitor
               /\ sessions'[i].entry = sessions[i].entry /\ sessions'[i].exit = sessions[i].exit
            \/ i = n /\ sessions'[i].entry = None /\ sessions'[i].exit = None
      BY <2>1
    <3>2. \A i \in DOMAIN sessions : i \in DOMAIN sessions' /\ sessions'[i].exit = sessions[i].exit
      BY <2>1
    <3>3. \A i \in DOMAIN sessions' : LET s == sessions'[i] IN
              /\ s.entry # None => /\ s.entry \in crossings /\ s.entry.type = "entered"
                                   /\ s.entry.visitor = s.visitor
              /\ s.exit # None => /\ s.exit \in crossings /\ s.exit.type = "exited"
                                  /\ s.exit.visitor = s.visitor
      BY <3>o, <3>1
    <3>4. \A i, j \in DOMAIN sessions' : i # j =>
              /\ sessions'[i].entry # None => sessions'[i].entry # sessions'[j].entry
              /\ sessions'[i].exit # None => sessions'[i].exit # sessions'[j].exit
      BY <3>o, <3>1
    <3>5. \A c \in crossings : c.type = "exited" => \E i \in DOMAIN sessions' : sessions'[i].exit = c
      BY <3>o, <3>2
    <3> QED  BY <1>u, <3>3, <3>4, <3>5 DEF SessionsCiteCrossings
  <2> QED  BY <1>n, <2>2, <2>3, <2>4, <2>5, <2>6 DEF IInv
<1> QED  BY <1>1, <1>2

-----------------------------------------------------------------------------
LEMMA InitIInv == Init => IInv
<1> SUFFICES ASSUME Init PROVE IInv
  OBVIOUS
<1>1. sessions = <<>> /\ Len(sessions) = 0 /\ DOMAIN sessions = {} /\ sessions \in Seq(Session)
  BY EmptySeq DEF Init
<1>2. closes \in [Visitors -> [step : {"none", "read", "write"}, found : 0 .. Len(sessions),
                               entry : Crossing \cup {None}, ts : Nat]]
  BY <1>1 DEF Init, Idle, Task
<1>3. states \in [Lines \X Visitors -> LineState] /\ NetFollowsSide
  BY NewStateFacts DEF Init, NetFollowsSide, NetRight
<1>r. rows \in [Lines -> Settings \cup {None}] /\ lines \in [Lines -> Settings \cup {None}]
  BY DEF Init, Loaded
<1>4. TypeOK
  BY <1>1, <1>2, <1>3, <1>r DEF Init, TypeOK
<1>5. Clocked
  BY DEF Init, Clocked
<1>6. ExitEnds /\ DwellIsStay /\ SessionsCiteCrossings
  BY <1>1 DEF Init, ExitEnds, DwellIsStay, SessionsCiteCrossings
<1>7. ReadHolds
  BY DEF Init, ReadHolds, Idle, Task
<1> QED  BY <1>3, <1>4, <1>5, <1>6, <1>7 DEF IInv

LEMMA NextIInv == IInv /\ [Next]_vars => IInv'
<1> SUFFICES ASSUME IInv, [Next]_vars PROVE IInv'
  OBVIOUS
<1>1. ASSUME NEW where \in [Visitors -> Places], NEW gone \in SUBSET Visitors, Frame(where, gone)
      PROVE  IInv'
  BY <1>1, FrameStep
<1>2. ASSUME NEW c \in persists, Persist(c) \/ PersistFails(c) PROVE IInv'
  BY <1>2, PersistStep, PersistFailsStep
<1>3. ASSUME NEW v \in Visitors, CloseRead(v) \/ CloseWrite(v) \/ CloseFails(v) PROVE IInv'
  BY <1>3, CloseReadStep, CloseWriteStep, CloseFailsStep
<1>4. ASSUME NEW l \in Lines, NEW setting \in Settings,
             CreateLine(l, setting) \/ UpdateLine(l, setting)
      PROVE  IInv'
  <2>1. Commit(l, setting) /\ fresh' \subseteq Lines
    BY <1>4 DEF CreateLine, UpdateLine, IInv, TypeOK
  <2> QED  BY <2>1, CommitStep
<1>5. ASSUME NEW l \in Lines, DeleteLine(l) PROVE IInv'
  <2>1. Commit(l, None) /\ fresh' \subseteq Lines
    BY <1>5 DEF DeleteLine, IInv, TypeOK
  <2> QED  BY <2>1, CommitStep
<1>6. ASSUME NEW e \in edits, Sync(e) PROVE IInv'
  BY <1>6, SyncStep
<1>7. CASE Restart
  BY <1>7, RestartStep
<1>8. CASE UNCHANGED vars
  <2>1. TypeOK' /\ NetFollowsSide'
    BY <1>8 DEF vars, IInv, TypeOK, NetFollowsSide
  <2> QED  BY <1>8, <2>1, QuietStep DEF vars
<1> QED  BY <1>1, <1>2, <1>3, <1>4, <1>5, <1>6, <1>7, <1>8 DEF Next

\* The inductive invariant holds in every reachable state.
THEOREM Invariance == Spec => []IInv
<1>1. Init => IInv
  BY InitIInv
<1>2. IInv /\ [Next]_vars => IInv'
  BY NextIInv
<1> QED  BY <1>1, <1>2, PTL DEF Spec

\* Whatever the order of the tasks, the failures and the restarts, every stored exit
\* ends exactly one session, no entry begins two, and a session cites stored events
\* of its own visitor.
THEOREM SessionsAccountForCrossings == Spec => []SessionsCiteCrossings
<1>1. IInv => SessionsCiteCrossings
  BY DEF IInv
<1> QED  BY <1>1, Invariance, PTL

\* A session's stay is its end minus its entry, also after a close task wrote to a
\* session that a crossing had ended since it read it.
THEOREM StaysAreRight == Spec => []DwellIsStay
<1>1. IInv => DwellIsStay
  BY DEF IInv
<1> QED  BY <1>1, Invariance, PTL

\* Entries minus exits of a visitor at a line follow its side, for every number of
\* confirmations and whatever edits the line meanwhile.
THEOREM CrossingsAlternate == Spec => []NetFollowsSide
<1>1. IInv => NetFollowsSide
  BY DEF IInv
<1> QED  BY <1>1, Invariance, PTL

\* An ended session stays ended, and its entry and exit events are never replaced.
THEOREM PastIsKept == Spec => HistoryIsKept
<1> DEFINE Kept == \A i \in DOMAIN sessions :
        /\ i \in DOMAIN sessions'
        /\ sessions[i].complete => sessions'[i].complete /\ sessions'[i].entry = sessions[i].entry
        /\ sessions[i].entry # None => sessions'[i].entry = sessions[i].entry
        /\ sessions[i].exit # None => sessions'[i].exit = sessions[i].exit
<1>1. IInv /\ [Next]_vars => Kept
  <2> SUFFICES ASSUME IInv, [Next]_vars PROVE Kept
    OBVIOUS
  <2>1. CASE UNCHANGED sessions
    BY <2>1
  <2>2. ASSUME NEW c \in persists, Persist(c) PROVE Kept
    <3>1. c \in Crossing
      BY DEF IInv, TypeOK
    <3>2. PICK n \in 1 .. Len(sessions) + 1, s \in Session :
        /\ sessions' \in Seq(Session) /\ Len(sessions) <= Len(sessions')
        /\ DOMAIN sessions' = DOMAIN sessions \cup {n}
        /\ sessions'[n] = Recorded(s, c)
        /\ \A j \in DOMAIN sessions : j # n => sessions'[j] = sessions[j]
        /\ ~s.complete /\ s.exit = None /\ s.exit_ts = None /\ s.dwell = None
        /\ s.visitor = c.visitor
        /\ n \in DOMAIN sessions => s = sessions[n]
        /\ n \notin DOMAIN sessions => s.entry = None
      BY <2>2, PersistFacts
    <3>3. s.entry # None => Recorded(s, c).entry = s.entry
      BY <3>1, <3>2, RecordedFacts DEF Crossing
    <3> QED  BY <3>2, <3>3
  <2>3. ASSUME NEW v \in Visitors, CloseWrite(v) PROVE Kept
    BY <2>3, CloseWriteFacts
  <2> QED  BY <2>1, <2>2, <2>3 DEF Next, vars, Frame, PersistFails, CloseRead, CloseFails, CreateLine,
              UpdateLine, DeleteLine, Commit, Sync, Restart, storeVars
<1>2. Spec => [][Kept]_vars
  BY <1>1, Invariance, PTL DEF Spec
<1> QED  BY <1>2 DEF HistoryIsKept

-----------------------------------------------------------------------------
(* SyncService: what its loop keeps.                                       *)

\* Records the cloud has received in this cycle and that are not marked yet.
Sent == IF phase \in {"answer", "mark"} THEN batch ELSE {}

\* No record that is marked is in a batch.
BatchIsUnsynced == batch \cap synced = {}

\* The cloud has all that is marked or waits for its answer or its mark.
SentIsReceived == synced \cup Sent \subseteq Received

\* One upload of a record is no consequence of a fault: the one that marked
\* it, or that is about to.
UploadsAreOwed == \A r \in Records : uploads[r] <= IF r \in synced \cup Sent THEN faults + 1 ELSE faults

SyncInv == SyncTypeOK /\ BatchIsUnsynced /\ SentIsReceived /\ UploadsAreOwed

-----------------------------------------------------------------------------
LEMMA InitSync == SyncInit => SyncInv
  BY SyncAssumption DEF SyncInit, SyncInv, SyncTypeOK, Phases, BatchIsUnsynced, SentIsReceived, UploadsAreOwed, Sent, Received

\* A step that forgets the batch or leaves the cloud and the marks alone.
LEMMA ForgetKeepsSync ==
    ASSUME SyncInv, batch' = {}, phase' \in {"sleep", "down"}, UNCHANGED <<stored, synced, delay, online, uploads>>,
           UNCHANGED faults \/ Fault, phase \in {"answer", "mark"} => Fault
    PROVE  SyncInv'
<1> USE SyncAssumption DEF SyncInv
<1>1. SyncTypeOK'
  BY DEF SyncTypeOK, Phases, Fault
<1>2. BatchIsUnsynced'
  BY DEF BatchIsUnsynced
<1>3. SentIsReceived'
  BY DEF SentIsReceived, Sent, Received
<1>4. UploadsAreOwed'
  BY DEF UploadsAreOwed, Sent, SyncTypeOK, Fault
<1> QED BY <1>1, <1>2, <1>3, <1>4

LEMMA GatherKeepsSync == SyncInv /\ Gather => SyncInv'
<1> SUFFICES ASSUME SyncInv, Gather PROVE SyncInv'
  OBVIOUS
<1>1. batch' \subseteq stored \ synced
  BY DEF Gather, Batches, Unsynced
<1>2. /\ phase = "gather" /\ phase' \in {"sleep", "post"}
      /\ UNCHANGED <<stored, synced, delay, online, uploads, faults>>
  BY DEF Gather
<1>3. SyncTypeOK' /\ BatchIsUnsynced'
  BY <1>1, <1>2 DEF SyncInv, SyncTypeOK, Phases, BatchIsUnsynced
<1>4. SentIsReceived' /\ UploadsAreOwed'
  BY <1>2 DEF SyncInv, SentIsReceived, UploadsAreOwed, Sent, Received
<1> QED BY <1>3, <1>4 DEF SyncInv

LEMMA PostKeepsSync == SyncInv /\ Post => SyncInv'
<1> SUFFICES ASSUME SyncInv, Post PROVE SyncInv'
  OBVIOUS
<1>1. /\ phase = "post" /\ phase' = "answer"
      /\ uploads' = [r \in Records |-> IF r \in batch THEN uploads[r] + 1 ELSE uploads[r]]
      /\ UNCHANGED <<stored, synced, batch, delay, online, faults>>
  BY DEF Post
<1>2. Sent = {} /\ Sent' = batch
  BY <1>1 DEF Sent
<1>3. SyncTypeOK'
  BY <1>1 DEF SyncInv, SyncTypeOK, Phases
<1>4. BatchIsUnsynced'
  BY <1>1 DEF SyncInv, BatchIsUnsynced
<1>5. SentIsReceived'
  BY <1>1, <1>2 DEF SyncInv, SentIsReceived, Received, SyncTypeOK
<1>6. UploadsAreOwed'
  BY <1>1, <1>2 DEF SyncInv, UploadsAreOwed, BatchIsUnsynced, SyncTypeOK
<1> QED BY <1>3, <1>4, <1>5, <1>6 DEF SyncInv

LEMMA MarkKeepsSync == SyncInv /\ Mark => SyncInv'
<1> SUFFICES ASSUME SyncInv, Mark PROVE SyncInv'
  OBVIOUS
<1>1. /\ phase = "mark" /\ phase' = "sleep" /\ batch' = {} /\ synced' = synced \cup batch
      /\ UNCHANGED <<stored, delay, online, uploads, faults>>
  BY DEF Mark, Sleep
<1>2. Sent = batch /\ Sent' = {}
  BY <1>1 DEF Sent
<1> QED BY <1>1, <1>2 DEF SyncInv, SyncTypeOK, Phases, BatchIsUnsynced, SentIsReceived, UploadsAreOwed, Received

LEMMA NextKeepsSync == SyncInv /\ [SyncNext]_syncVars => SyncInv'
<1> SUFFICES ASSUME SyncInv, [SyncNext]_syncVars PROVE SyncInv'
  OBVIOUS
<1> USE SyncAssumption DEF SyncInv
<1>1. CASE Write
  BY <1>1 DEF Write, SyncTypeOK, BatchIsUnsynced, SentIsReceived, UploadsAreOwed, Sent, Received
<1>2. CASE Network
  BY <1>2 DEF Network, SyncTypeOK, BatchIsUnsynced, SentIsReceived, UploadsAreOwed, Sent, Received
<1>3. CASE Start
  BY <1>3 DEF Start, SyncTypeOK, Phases, BatchIsUnsynced, SentIsReceived, UploadsAreOwed, Sent, Received
<1>4. CASE Stop
  BY <1>4, ForgetKeepsSync DEF Stop
<1>5. CASE CheckInternet
  BY <1>5 DEF CheckInternet, SyncTypeOK, Phases, BatchIsUnsynced, SentIsReceived, UploadsAreOwed, Sent, Received
<1>6. CASE Gather
  BY <1>6, GatherKeepsSync
<1>7. CASE GatherFails
  BY <1>7, ForgetKeepsSync DEF GatherFails, Sleep
<1>8. CASE Post
  BY <1>8, PostKeepsSync
<1>9. CASE PostFails
  BY <1>9, ForgetKeepsSync DEF PostFails, Sleep
<1>10. CASE Answer
  BY <1>10 DEF Answer, SyncTypeOK, Phases, BatchIsUnsynced, SentIsReceived, UploadsAreOwed, Sent, Received
<1>11. CASE AnswerLost
  BY <1>11, ForgetKeepsSync DEF AnswerLost, Sleep
<1>12. CASE Mark
  BY <1>12, MarkKeepsSync
<1>13. CASE MarkFails
  BY <1>13, ForgetKeepsSync DEF MarkFails, Sleep
<1>14. CASE UNCHANGED syncVars
  BY <1>14 DEF syncVars, SyncTypeOK, BatchIsUnsynced, SentIsReceived, UploadsAreOwed, Sent, Received
<1> QED
  BY <1>1, <1>2, <1>3, <1>4, <1>5, <1>6, <1>7, <1>8, <1>9, <1>10, <1>11, <1>12, <1>13, <1>14 DEF SyncNext, Cycle

\* The strengthened invariant: what is marked or about to be was received, and
\* every further upload is owed to a fault.
THEOREM SyncInvariant == SyncSpec => []SyncInv
  BY InitSync, NextKeepsSync, PTL DEF SyncSpec

\* The tables, the loop and the cloud are of their kinds in every run of the
\* sync engine.
THEOREM SyncTypes == SyncSpec => []SyncTypeOK
<1>1. SyncInv => SyncTypeOK
  BY DEF SyncInv
<1> QED BY SyncInvariant, <1>1, PTL

\* The cloud receives a record at most once more than answers, marks and
\* processes were lost.
THEOREM ResendsAreOnlyFaults == SyncSpec => []ResendsAreFaults
<1>1. SyncInv => ResendsAreFaults
  BY DEF SyncInv, UploadsAreOwed, ResendsAreFaults, SyncTypeOK
<1> QED BY SyncInvariant, <1>1, PTL

-----------------------------------------------------------------------------
(* The outbox.                                                             *)

LEMMA CloudInit == SyncInit => Cloud!Init
  BY DEF SyncInit, Cloud!Init, Received

\* An upload delivers the batch; a mark ticks it off; a row that is inserted is
\* filed; the other steps are no steps of the outbox.
LEMMA CloudNext == SyncInv /\ [SyncNext]_syncVars => [Cloud!Next]_Cloud!vars
<1> SUFFICES ASSUME SyncInv, [SyncNext]_syncVars PROVE [Cloud!Next]_Cloud!vars
  OBVIOUS
<1>1. CASE Write
  <2>1. PICK r \in Records \ stored : stored' = stored \cup {r}
    BY <1>1 DEF Write
  <2>2. Cloud!File(r)
    BY <1>1, <2>1 DEF Write, Cloud!File, Received
  <2> QED BY <2>2 DEF Cloud!Next
<1>2. CASE Post
  <2>1. batch \subseteq stored \ synced /\ batch \in SUBSET Records
    BY DEF SyncInv, SyncTypeOK, BatchIsUnsynced
  <2>2. Received' = Received \cup batch
    BY <1>2 DEF Post, Received, SyncInv, SyncTypeOK
  <2>3. Cloud!Deliver(batch)
    BY <1>2, <2>1, <2>2 DEF Post, Cloud!Deliver
  <2> QED BY <2>1, <2>3 DEF Cloud!Next
<1>3. CASE Mark
  <2>1. batch \subseteq Received /\ batch \in SUBSET Records
    BY <1>3 DEF Mark, SyncInv, SyncTypeOK, SentIsReceived, Sent
  <2>2. Cloud!TickOff(batch)
    BY <1>3, <2>1 DEF Mark, Cloud!TickOff, Received
  <2> QED BY <2>1, <2>2 DEF Cloud!Next
<1>4. CASE \/ Network \/ Start \/ Stop \/ CheckInternet \/ Gather \/ GatherFails \/ PostFails
           \/ Answer \/ AnswerLost \/ MarkFails \/ UNCHANGED syncVars
  <2>1. UNCHANGED <<stored, synced, uploads>>
    BY <1>4 DEF Network, Start, Stop, CheckInternet, Gather, GatherFails, PostFails, Answer, AnswerLost, MarkFails, syncVars
  <2> QED BY <2>1 DEF Cloud!vars, Received
<1> QED BY <1>1, <1>2, <1>3, <1>4 DEF SyncNext, Cycle

\* The sync engine is an outbox: a record is delivered before it is ticked off
\* and not sent again after.
THEOREM SyncImplementsOutbox == SyncSpec => ImplementsOutbox
  BY CloudInit, CloudNext, SyncInvariant, PTL DEF SyncSpec, ImplementsOutbox, Cloud!Spec
=============================================================================
