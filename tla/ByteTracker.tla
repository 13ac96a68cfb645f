------------------------------ MODULE ByteTracker ------------------------------
(***************************************************************************)
(* backend/app/services/tracking_service.py and tracking_models.py: the     *)
(* tracks of one camera over its frames.                                   *)
(*                                                                         *)
(* A frame's boxes matter only through the two assignments _iou_match      *)
(* makes, so a step chooses which tracks they match and how many boxes of  *)
(* high confidence are left.  The Kalman filter, confidences and boxes are  *)
(* not in the model.  The numbers of visitors are those of _id_gen; other  *)
(* cameras draw from it as well, which only leaves gaps.  hits counts up   *)
(* to min_hits, because nothing asks for more.                             *)
(***************************************************************************)
EXTENDS Integers, FiniteSets

CONSTANTS
    MaxVisitors,  \* bound on the visitors this camera numbers
    MinHits,      \* min_hits (3)
    MaxLost,      \* max_lost (30)
    None

ASSUME TrackerAssumption == MaxVisitors \in Nat /\ MinHits \in Nat \ {0} /\ MaxLost \in Nat

Visitors == 1 .. MaxVisitors
States == {"new", "tracked", "lost"}
Tracks == [state : States, hits : 1 .. MinHits, tsu : Nat, start : Nat]
EventTypes == {"enter", "exit", "reacquired"}
VisitorEvents == [type : EventTypes, visitor : Visitors, dwell : Nat]

ASSUME NoneAssumption == None \notin Tracks \cup Nat \cup {"absent"}

VARIABLES
    tracks,   \* _tracks by visitor, None for those not followed
    issued,   \* _id_gen._counter
    shown,    \* visitors in the frame handed on, TrackingFrame.tracked
    emitted,  \* visitor events of the frame
    missed,   \* history: frames in a row in which no box was assigned to the track
    enters,   \* history: ENTER events of each visitor
    exits     \* history: EXIT events of each visitor

trackVars == <<tracks, issued, shown, emitted, missed, enters, exits>>

TrackerInit ==
    /\ tracks = [v \in Visitors |-> None] /\ issued = 0
    /\ shown = {} /\ emitted = {}
    /\ missed = [v \in Visitors |-> 0] /\ enters = [v \in Visitors |-> 0] /\ exits = [v \in Visitors |-> 0]

Followed == {v \in Visitors : tracks[v] # None}
InState(s) == {v \in Followed : tracks[v].state = s}

-----------------------------------------------------------------------------
(* STrack.                                                                 *)

Hit(t) == [t EXCEPT !.hits = IF t.hits < MinHits THEN t.hits + 1 ELSE MinHits, !.tsu = 0]
MarkTracked(t) == [Hit(t) EXCEPT !.state = "tracked"]
\* mark_hit: a NEW track stays NEW until the promotion at the end of the frame.
MarkHit(t) == Hit(t)
MarkLost(t) == [t EXCEPT !.state = "lost", !.tsu = t.tsu + 1]

\* _new_track.
NewTrack(ts) == [state |-> "new", hits |-> 1, tsu |-> 0, start |-> ts]

-----------------------------------------------------------------------------
(* Assignments.                                                            *)

\* _iou_match: the tracks that get a box.  Boxes are not in the model, so it may be any of them.
Matchings(candidates) == SUBSET candidates

\* build_tracking_frame: who is in the frame.
Visible(after) == {v \in DOMAIN after : after[v].state \in {"tracked", "new"}}

-----------------------------------------------------------------------------
(* The stages of update.  high are the tracks that stage 1 matches, low    *)
(* the lost ones that stage 2 matches.                                     *)

\* Stage 1: boxes of high confidence against all tracks.
Stage1(t, v, high) ==
    IF v \in high THEN IF t.state = "new" THEN MarkHit(t) ELSE MarkTracked(t) ELSE t

\* Stage 2: the other boxes against the tracks that were lost before this frame.
Stage2(t, v, low) == IF v \in low THEN MarkTracked(t) ELSE t

\* Whoever stage 1 left is lost, whatever stage 2 did; then whoever was lost and stage 2 left.
Marked(t, v, wasLost, high, low) ==
    LET once == IF v \in high THEN t ELSE MarkLost(t)
    IN  IF wasLost /\ v \notin low THEN MarkLost(once) ELSE once

Matched(v, high, low) ==
    LET t == tracks[v]
    IN  Marked(Stage2(Stage1(t, v, high), v, low), v, t.state = "lost", high, low)

Promotes(t) == t.state = "new" /\ t.hits >= MinHits
Promoted(t) == IF Promotes(t) THEN [t EXCEPT !.state = "tracked"] ELSE t

\* Mutant: off by one.
ExpiresLate(t) == t.state = "lost" /\ t.tsu > MaxLost + 1

Expires(t) == t.state = "lost" /\ t.tsu > MaxLost

Event(type, v, dwell) == [type |-> type, visitor |-> v, dwell |-> dwell]

\* update and build_tracking_frame at time ts; fresh counts the unmatched boxes.
Update(ts, high, low, fresh) ==
    LET born == issued + 1 .. issued + fresh
        moved == [v \in Followed \cup born |->
                     IF v \in born THEN NewTrack(ts) ELSE Matched(v, high, low)]
        after == [v \in DOMAIN moved |-> Promoted(moved[v])]
        gone == {v \in DOMAIN after : Expires(after[v])}
        back == (high \cap InState("lost")) \cup low
        enter == {v \in DOMAIN moved : Promotes(moved[v])}
    IN  /\ issued + fresh <= MaxVisitors
        /\ tracks' = [v \in Visitors |-> IF v \in DOMAIN after \ gone THEN after[v] ELSE None]
        /\ issued' = issued + fresh
        /\ shown' = Visible(after)
        /\ emitted' = {Event("reacquired", v, 0) : v \in back} \cup {Event("enter", v, 0) : v \in enter}
                      \cup {Event("exit", v, ts - after[v].start) : v \in gone}
        /\ missed' = [v \in Visitors |->
              IF v \in Followed \ (high \cup low) THEN missed[v] + 1
              ELSE IF v \in Followed THEN 0 ELSE missed[v]]
        /\ enters' = [v \in Visitors |-> IF v \in enter THEN enters[v] + 1 ELSE enters[v]]
        /\ exits' = [v \in Visitors |-> IF v \in gone THEN exits[v] + 1 ELSE exits[v]]

-----------------------------------------------------------------------------
(* Properties.                                                             *)

\* Every variable of the tracker has its type.
TrackerTypeOK ==
    /\ tracks \in [Visitors -> Tracks \cup {None}] /\ issued \in 0 .. MaxVisitors
    /\ shown \in SUBSET Visitors /\ emitted \in SUBSET VisitorEvents
    /\ {missed, enters, exits} \subseteq [Visitors -> Nat]

\* The frames a track has been without a box are counted once or twice each, and one more is
\* counted after a match that leaves it lost: no track is kept for more than max_lost frames
\* without a box, and none is given up before half of them have passed (STrack.mark_lost,
\* called from two loops of ByteTracker.update).
AbsenceIsBounded ==
    \A v \in Followed :
        /\ missed[v] <= tracks[v].tsu /\ tracks[v].tsu <= 2 * missed[v] + 1
        /\ tracks[v].tsu <= MaxLost

=============================================================================
