------------------------- MODULE AnalyticsTrackerProofs -------------------------
(* Theorems about AnalyticsTracker for all tracks, places, zones, intervals  *)
(* and numbers of faults, and about Rollups, which counts the person_tracks  *)
(* rows the tracker stores, for all cameras, hours and offsets of the clock. *)
EXTENDS AnalyticsTracker, Rollups, Sums, SequenceTheorems, FiniteSetTheorems, TLAPS

-----------------------------------------------------------------------------
(* The heatmap.                                                              *)

Counts == [Cells -> Nat]

LEMMA PositionsType ==
    ASSUME NEW d
    PROVE  Positions(d) \in Counts
<1> SUFFICES ASSUME NEW c \in Cells
             PROVE  Cardinality({t \in Tracks : d[t] # None /\ CellOf(d[t]) = c}) \in Nat
  BY DEF Positions, Counts
<1> DEFINE there == {t \in Tracks : d[t] # None /\ CellOf(d[t]) = c}
<1>1. IsFiniteSet(there)
  BY TrackAssumption, FS_Subset
<1> HIDE DEF there
<1>2. Cardinality(there) \in Nat
  BY <1>1, FS_CardinalityType
<1> QED BY <1>2 DEF there

LEMMA PlusType ==
    ASSUME NEW f \in Counts, NEW g \in Counts
    PROVE  /\ Plus(f, g) \in Counts
           /\ \A c \in Cells : Plus(f, g)[c] = f[c] + g[c]
BY DEF Plus, Counts

\* Equal cell by cell is equal.
LEMMA SameCounts ==
    ASSUME NEW f \in Counts, NEW g \in Counts, \A c \in Cells : f[c] = g[c]
    PROVE  f = g
BY DEF Counts

LEMMA EmptyGridType == EmptyGrid \in Counts /\ \A c \in Cells : EmptyGrid[c] = 0
BY DEF EmptyGrid, Counts

GridTypes(G, C, S, L) == {G, C, S, L} \subseteq Counts
Balanced(G, C, S, L) == Plus(Plus(G, C), L) = S

\* Detections are counted in the grid and in the history alike.
LEMMA CountingBalances ==
    ASSUME NEW G, NEW C, NEW S, NEW L, GridTypes(G, C, S, L), Balanced(G, C, S, L),
           NEW P \in Counts
    PROVE  /\ GridTypes(Plus(G, P), C, Plus(S, P), L)
           /\ Balanced(Plus(G, P), C, Plus(S, P), L)
<1> DEFINE full == Plus(G, P)
           both == Plus(full, C)
           all == Plus(both, L)
           before == Plus(Plus(G, C), L)
           after == Plus(S, P)
<1>1. G \in Counts /\ C \in Counts /\ S \in Counts /\ L \in Counts
  BY DEF GridTypes
<1>2. /\ full \in Counts /\ \A c \in Cells : full[c] = G[c] + P[c]
      /\ after \in Counts /\ \A c \in Cells : after[c] = S[c] + P[c]
  BY <1>1, PlusType
<1>3. Plus(G, C) \in Counts /\ \A c \in Cells : Plus(G, C)[c] = G[c] + C[c]
  BY <1>1, PlusType
<1>4. before = S /\ \A c \in Cells : before[c] = Plus(G, C)[c] + L[c]
  BY <1>1, <1>3, PlusType DEF Balanced
<1> HIDE DEF full, after, before
<1>5. both \in Counts /\ \A c \in Cells : both[c] = full[c] + C[c]
  BY <1>1, <1>2, PlusType
<1> HIDE DEF both
<1>6. all \in Counts /\ \A c \in Cells : all[c] = both[c] + L[c]
  BY <1>1, <1>5, PlusType
<1> HIDE DEF all
<1>7. \A c \in Cells : all[c] = after[c]
  <2> TAKE c \in Cells
  <2>1. G[c] \in Nat /\ C[c] \in Nat /\ S[c] \in Nat /\ L[c] \in Nat /\ P[c] \in Nat
    BY <1>1 DEF Counts
  <2> QED BY <1>2, <1>3, <1>4, <1>5, <1>6, <2>1
<1>8. all = after
  BY <1>2, <1>6, <1>7, SameCounts
<1> QED BY <1>1, <1>2, <1>8 DEF GridTypes, Balanced, all, both, full, after

\* What is in the grid goes to the table, or is lost, and the grid begins again.
LEMMA FlushBalances ==
    ASSUME NEW G, NEW C, NEW S, NEW L, GridTypes(G, C, S, L), Balanced(G, C, S, L)
    PROVE  /\ GridTypes(EmptyGrid, Plus(C, G), S, L) /\ Balanced(EmptyGrid, Plus(C, G), S, L)
           /\ GridTypes(EmptyGrid, C, S, Plus(L, G)) /\ Balanced(EmptyGrid, C, S, Plus(L, G))
<1> DEFINE stored == Plus(C, G)
           gone == Plus(L, G)
           one == Plus(EmptyGrid, stored)
           two == Plus(EmptyGrid, C)
           sumOne == Plus(one, L)
           sumTwo == Plus(two, gone)
           before == Plus(Plus(G, C), L)
<1>1. G \in Counts /\ C \in Counts /\ S \in Counts /\ L \in Counts /\ EmptyGrid \in Counts
  BY EmptyGridType DEF GridTypes
<1>2. /\ stored \in Counts /\ \A c \in Cells : stored[c] = C[c] + G[c]
      /\ gone \in Counts /\ \A c \in Cells : gone[c] = L[c] + G[c]
      /\ two \in Counts /\ \A c \in Cells : two[c] = EmptyGrid[c] + C[c]
  BY <1>1, PlusType
<1>3. Plus(G, C) \in Counts /\ \A c \in Cells : Plus(G, C)[c] = G[c] + C[c]
  BY <1>1, PlusType
<1>4. before = S /\ \A c \in Cells : before[c] = Plus(G, C)[c] + L[c]
  BY <1>1, <1>3, PlusType DEF Balanced
<1> HIDE DEF stored, gone, two, before
<1>5. one \in Counts /\ \A c \in Cells : one[c] = EmptyGrid[c] + stored[c]
  BY <1>1, <1>2, PlusType
<1> HIDE DEF one
<1>6. /\ sumOne \in Counts /\ \A c \in Cells : sumOne[c] = one[c] + L[c]
      /\ sumTwo \in Counts /\ \A c \in Cells : sumTwo[c] = two[c] + gone[c]
  BY <1>1, <1>2, <1>5, PlusType
<1> HIDE DEF sumOne, sumTwo
<1>7. \A c \in Cells : sumOne[c] = S[c] /\ sumTwo[c] = S[c]
  <2> TAKE c \in Cells
  <2>1. G[c] \in Nat /\ C[c] \in Nat /\ S[c] \in Nat /\ L[c] \in Nat /\ EmptyGrid[c] = 0
    BY <1>1, EmptyGridType DEF Counts
  <2> QED BY <1>2, <1>3, <1>4, <1>5, <1>6, <2>1
<1>8. sumOne = S /\ sumTwo = S
  BY <1>1, <1>6, <1>7, SameCounts
<1> QED BY <1>1, <1>2, <1>8 DEF GridTypes, Balanced, sumOne, sumTwo, one, two, stored, gone

-----------------------------------------------------------------------------
(* Crossings.                                                                *)

\* The crossings C are those of one kind into or out of the zones found for each track.
CrossingsAre(C, kind, S, track, found) ==
    /\ C \subseteq Event
    /\ \A c \in C : c.type = kind /\ \E t \in S : c.visit = track[t].visit /\ c.zone \in found[t]
    /\ \A t \in S : \A z \in found[t] : \E c \in C : c.type = kind /\ c.visit = track[t].visit /\ c.zone = z

LEMMA CrossingsOf ==
    ASSUME NEW kind \in Kinds, NEW S \in SUBSET Tracks, NEW track, NEW found \in [S -> SUBSET Zones], NEW at \in Nat,
           \A t \in S : track[t].visit \in Visits,
           NEW C, C = Crossings(kind, track, S, found, at)
    PROVE  CrossingsAre(C, kind, S, track, found)
<1> DEFINE pairs == {q \in S \X Zones : q[2] \in found[q[1]]}
<1>1. C = {[visit |-> track[p[1]].visit, zone |-> p[2], type |-> kind, ts |-> at] : p \in pairs}
  BY DEF Crossings
<1>3. \A q : q \in pairs <=> q \in S \X Zones /\ q[2] \in found[q[1]]
  OBVIOUS
<1> HIDE DEF pairs
<1>4. ASSUME NEW c \in C
      PROVE  c \in Event /\ c.type = kind /\ \E t \in S : c.visit = track[t].visit /\ c.zone \in found[t]
  <2>1. PICK p \in pairs : c = [visit |-> track[p[1]].visit, zone |-> p[2], type |-> kind, ts |-> at]
    BY <1>1, <1>4
  <2>2. p[1] \in S /\ p[2] \in Zones /\ p[2] \in found[p[1]]
    BY <1>3
  <2> QED BY <2>1, <2>2 DEF Event
<1>5. ASSUME NEW t \in S, NEW z \in found[t]
      PROVE  \E c \in C : c.type = kind /\ c.visit = track[t].visit /\ c.zone = z
  <2> DEFINE p == <<t, z>>
             c == [visit |-> track[p[1]].visit, zone |-> p[2], type |-> kind, ts |-> at]
  <2>1. p \in pairs
    BY <1>3, <1>5
  <2>2. c \in C
    BY <1>1, <2>1
  <2>3. c.type = kind /\ c.visit = track[t].visit /\ c.zone = z
    OBVIOUS
  <2> HIDE DEF c
  <2> QED BY <2>2, <2>3
<1> QED BY <1>4, <1>5 DEF CrossingsAre

-----------------------------------------------------------------------------
(* A frame, reduced to what the tracks, the rows and the crossings need.     *)

VisitAt(t, at) == IF tracks[t] = None THEN <<t, at>> ELSE tracks[t].visit

FrameShape(at, shown, new, gone, in, out) ==
    /\ shown \subseteq Tracks /\ new = {t \in shown : tracks[t] = None}
    /\ gone \subseteq {t \in Tracks \ shown : tracks[t] # None}
    /\ in \in [shown -> SUBSET Zones] /\ out \in [shown -> SUBSET Zones]
    /\ \A t \in shown : in[t] \cap zone_state[t] = {} /\ out[t] \subseteq zone_state[t]
    /\ tracks' \in [Tracks -> Track \cup {None}]
    /\ \A t \in gone : tracks'[t] = None
    /\ \A t \in shown : tracks'[t] # None /\ tracks'[t].visit = VisitAt(t, at)
    /\ \A t \in Tracks \ (shown \cup gone) : tracks'[t] = tracks[t]
    /\ zone_state' = [t \in Tracks |->
          IF t \in gone THEN {} ELSE IF t \in shown THEN (zone_state[t] \cup in[t]) \ out[t] ELSE zone_state[t]]

\* The crossings of a frame are those found for its tracks, each in one of the two directions.
FrameCrossings(at, shown, in, out) ==
    /\ crossings' \subseteq Event
    /\ \A c \in crossings' : \E t \in shown :
          c.visit = VisitAt(t, at) /\ c.zone \in (IF c.type = "entry" THEN in[t] ELSE out[t])
    /\ \A t \in shown : \A z \in Zones :
          /\ z \in in[t] => \E c \in crossings' : c.type = "entry" /\ c.visit = VisitAt(t, at) /\ c.zone = z
          /\ z \in out[t] => \E c \in crossings' : c.type = "exit" /\ c.visit = VisitAt(t, at) /\ c.zone = z
    /\ told' = (told \cup {<<c.visit, c.zone>> : c \in {m \in crossings' : m.type = "entry"}})
                \ {<<c.visit, c.zone>> : c \in {m \in crossings' : m.type = "exit"}}

FrameRows(at, new, gone) ==
    \/ /\ UNCHANGED <<rows, events>>
       /\ unsaved' = unsaved \cup {<<t, at>> : t \in new} \cup {c.visit : c \in crossings'}
       /\ orphans' = orphans \cup {tracks[t].visit : t \in gone}
    \/ /\ rows' = PushedRows(new, gone, at) /\ events' = events \cup crossings'
       /\ UNCHANGED unsaved
       /\ orphans' = orphans \cup ({tracks[t].visit : t \in gone} \ DOMAIN rows)

\* Types of what a track's rows and crossings depend on.
TrackTypes ==
    /\ config \in SUBSET Zones /\ zones \in SUBSET Zones
    /\ zone_state \in [Tracks -> SUBSET Zones]
    /\ tracks \in [Tracks -> Track \cup {None}]
    /\ clock \in Nat

LEMMA FrameReduced ==
    ASSUME TrackTypes, NEW at \in Nat \ {0}, NEW d \in [Tracks -> Places \cup {None}], NEW bad, Frame(at, d, bad)
    PROVE  \E shown \in SUBSET Tracks : \E new, gone \in SUBSET Tracks, in, out \in [shown -> SUBSET Zones] :
              /\ FrameShape(at, shown, new, gone, in, out)
              /\ FrameCrossings(at, shown, in, out)
              /\ FrameRows(at, new, gone)
<1> DEFINE reload == Due(at) /\ "load" \notin bad
           known == IF reload THEN Loadable(config) ELSE zones
           last == IF reload THEN NoEvents ELSE last_event
           shown == {t \in Tracks : d[t] # None}
           new == shown \ Live
           gone == LostTracks(shown, at)
           track == [t \in shown |-> IF t \in new THEN NewTrack(t, at) ELSE tracks[t]]
           in == [t \in shown |-> Entered(t, track[t].pos, d[t], at, known, last)]
           out == [t \in shown |-> Left(t, track[t].pos, d[t], at, known, last)]
           stored == Crossings("entry", track, shown, in, at) \cup Crossings("exit", track, shown, out, at)
<1>1. /\ zone_state' = [t \in Tracks |->
              IF t \in gone THEN {}
              ELSE IF t \in shown THEN (zone_state[t] \cup in[t]) \ out[t] ELSE zone_state[t]]
      /\ tracks' = [t \in Tracks |->
              IF t \in gone THEN None
              ELSE IF t \in shown
                   THEN [visit |-> track[t].visit, zones |-> track[t].zones \cup in[t],
                         seen |-> at, pos |-> d[t]]
                   ELSE tracks[t]]
  BY DEF Frame
<1>2. /\ crossings' = stored
      /\ told' = (told \cup {<<c.visit, c.zone>> : c \in {m \in stored : m.type = "entry"}})
                    \ {<<c.visit, c.zone>> : c \in {m \in stored : m.type = "exit"}}
  BY DEF Frame
<1>3. IF "push" \in bad
      THEN /\ UNCHANGED <<rows, events>>
           /\ unsaved' = unsaved \cup {<<t, at>> : t \in new} \cup {c.visit : c \in stored}
           /\ orphans' = orphans \cup {tracks[t].visit : t \in gone}
      ELSE /\ rows' = PushedRows(new, gone, at)
           /\ events' = events \cup stored
           /\ UNCHANGED unsaved
           /\ orphans' = orphans \cup ({tracks[t].visit : t \in gone} \ DOMAIN rows)
  BY DEF Frame
<1>4. FrameRows(at, new, gone)
  BY <1>2, <1>3 DEF FrameRows
<1>5. known \subseteq Zones
  BY DEF TrackTypes, Loadable
<1> HIDE DEF known, last
<1>6. in \in [shown -> SUBSET Zones] /\ out \in [shown -> SUBSET Zones]
  BY <1>5 DEF Entered, Left
<1>7. \A t \in shown : in[t] \cap zone_state[t] = {} /\ out[t] \subseteq zone_state[t]
  BY DEF Entered, Left
<1> HIDE DEF in, out, stored
<1>8. /\ shown \subseteq Tracks /\ new = {t \in shown : tracks[t] = None}
      /\ gone \subseteq {t \in Tracks \ shown : tracks[t] # None}
  BY DEF Live, LostTracks
<1>9. \A t \in shown : track[t].visit = VisitAt(t, at) /\ track[t].visit \in Visits
                       /\ track[t].zones \subseteq Zones /\ d[t] \in Places
  <2> TAKE t \in shown
  <2>1. CASE tracks[t] = None
    BY <1>8, <2>1 DEF VisitAt, NewTrack, Visits
  <2>2. CASE tracks[t] # None
    BY <1>8, <2>2 DEF VisitAt, TrackTypes, Track
  <2> QED BY <2>1, <2>2
<1> HIDE DEF track, new, gone, shown
<1>10. /\ \A t \in gone : tracks'[t] = None
       /\ \A t \in Tracks \ (shown \cup gone) : tracks'[t] = tracks[t]
  BY <1>1, <1>8
<1>11. \A t \in shown : tracks'[t] \in Track /\ tracks'[t].visit = VisitAt(t, at)
  <2> TAKE t \in shown
  <2>1. tracks'[t] = [visit |-> track[t].visit, zones |-> track[t].zones \cup in[t], seen |-> at, pos |-> d[t]]
    BY <1>1, <1>8
  <2>2. track[t].zones \cup in[t] \subseteq Zones
    BY <1>6, <1>9
  <2> QED BY <1>9, <2>1, <2>2 DEF Track
<1>12. tracks' \in [Tracks -> Track \cup {None}] /\ \A t \in shown : tracks'[t] # None
  <2>1. \A t \in Tracks : tracks'[t] \in Track \cup {None}
    BY <1>8, <1>10, <1>11 DEF TrackTypes
  <2> QED BY <1>1, <1>11, <2>1, NoneAssumption DEF Track
<1>13. FrameShape(at, shown, new, gone, in, out)
  BY <1>1, <1>6, <1>7, <1>8, <1>10, <1>11, <1>12 DEF FrameShape
<1>14. FrameCrossings(at, shown, in, out)
  <2> DEFINE I == Crossings("entry", track, shown, in, at)
             O == Crossings("exit", track, shown, out, at)
  <2>0. /\ shown \in SUBSET Tracks /\ at \in Nat /\ \A t \in shown : track[t].visit \in Visits
        /\ "entry" \in Kinds /\ "exit" \in Kinds
    BY <1>8, <1>9 DEF Kinds
  <2>1. stored = I \cup O
    BY DEF stored
  <2>10. I = Crossings("entry", track, shown, in, at)
    OBVIOUS
  <2>11. O = Crossings("exit", track, shown, out, at)
    OBVIOUS
  <2> HIDE DEF I, O
  <2>2. /\ I \subseteq Event
        /\ \A c \in I : c.type = "entry" /\ \E t \in shown : c.visit = track[t].visit /\ c.zone \in in[t]
        /\ \A t \in shown : \A z \in in[t] : \E c \in I : c.type = "entry" /\ c.visit = track[t].visit /\ c.zone = z
    <3>1. CrossingsAre(I, "entry", shown, track, in)
      BY <1>6, <2>0, <2>10, CrossingsOf
    <3> QED BY <3>1 DEF CrossingsAre
  <2>3. /\ O \subseteq Event
        /\ \A c \in O : c.type = "exit" /\ \E t \in shown : c.visit = track[t].visit /\ c.zone \in out[t]
        /\ \A t \in shown : \A z \in out[t] : \E c \in O : c.type = "exit" /\ c.visit = track[t].visit /\ c.zone = z
    <3>1. CrossingsAre(O, "exit", shown, track, out)
      BY <1>6, <2>0, <2>11, CrossingsOf
    <3> QED BY <3>1 DEF CrossingsAre
  <2>4. /\ crossings' \subseteq Event
        /\ \A c \in crossings' : \E t \in shown :
              c.visit = VisitAt(t, at) /\ c.zone \in (IF c.type = "entry" THEN in[t] ELSE out[t])
    BY <1>2, <1>9, <2>1, <2>2, <2>3
  <2>5. \A t \in shown : \A z \in Zones :
          /\ z \in in[t] => \E c \in crossings' : c.type = "entry" /\ c.visit = VisitAt(t, at) /\ c.zone = z
          /\ z \in out[t] => \E c \in crossings' : c.type = "exit" /\ c.visit = VisitAt(t, at) /\ c.zone = z
    BY <1>2, <1>9, <2>1, <2>2, <2>3
  <2> QED BY <1>2, <2>4, <2>5 DEF FrameCrossings
<1>15. shown \in SUBSET Tracks /\ new \in SUBSET Tracks /\ gone \in SUBSET Tracks
  BY <1>8
<1> HIDE DEF reload
<1> QED BY <1>4, <1>6, <1>13, <1>14, <1>15

-----------------------------------------------------------------------------
(* Rows and visits.                                                          *)

LiveVisits(T) == {T[t].visit : t \in {t \in Tracks : T[t] # None}}

\* RowsFollowTracks of the rows R, the visits in memory L, and the histories O and U.
Follows(R, L, O, U) ==
    /\ \A v \in DOMAIN R : R[v].complete \in BOOLEAN /\ (~R[v].complete <=> v \in L \cup O)
    /\ L \subseteq DOMAIN R \cup U
    /\ L \cap O = {}

\* A push stores the new visits and completes the ended ones that have a row.
LEMMA PushFollows ==
    ASSUME NEW R, NEW L, NEW O, NEW U, Follows(R, L, O, U),
           NEW added, NEW ended, ended \subseteq L, added \cap (DOMAIN R \cup L \cup O) = {},
           NEW S, DOMAIN S = DOMAIN R \cup added,
           \A v \in added : S[v].complete = FALSE,
           \A v \in ended \cap DOMAIN R : S[v].complete = TRUE,
           \A v \in DOMAIN R \ ended : S[v] = R[v]
    PROVE  Follows(S, (L \ ended) \cup added, O \cup (ended \ DOMAIN R), U)
<1> DEFINE M == (L \ ended) \cup added
           P == O \cup (ended \ DOMAIN R)
<1>1. ASSUME NEW v \in DOMAIN S
      PROVE  S[v].complete \in BOOLEAN /\ (~S[v].complete <=> v \in M \cup P)
  <2>1. CASE v \in added
    BY <2>1
  <2>2. CASE v \in ended \cap DOMAIN R
    BY <2>2 DEF Follows
  <2>3. CASE v \in DOMAIN R \ ended
    BY <2>3 DEF Follows
  <2> QED BY <2>1, <2>2, <2>3
<1>2. M \subseteq DOMAIN S \cup U /\ M \cap P = {}
  BY DEF Follows
<1> QED BY <1>1, <1>2 DEF Follows

\* A failed push keeps the rows and cuts off what it should have stored.
LEMMA LossFollows ==
    ASSUME NEW R, NEW L, NEW O, NEW U, Follows(R, L, O, U),
           NEW added, NEW ended, ended \subseteq L, added \cap (DOMAIN R \cup L \cup O) = {},
           NEW V, U \cup added \subseteq V
    PROVE  Follows(R, (L \ ended) \cup added, O \cup ended, V)
<1>1. ASSUME NEW v \in DOMAIN R
      PROVE  ~R[v].complete <=> v \in ((L \ ended) \cup added) \cup (O \cup ended)
  BY DEF Follows
<1>2. (L \ ended) \cup added \subseteq DOMAIN R \cup V /\ ((L \ ended) \cup added) \cap (O \cup ended) = {}
  BY DEF Follows
<1> QED BY <1>1, <1>2 DEF Follows

\* The visits of memory are their tracks' own and not in the future.
Owned(T, n) == \A t \in Tracks : T[t] # None => T[t].visit[1] = t /\ T[t].visit[2] \in Nat /\ T[t].visit[2] <= n
Past(V, n) == \A v \in V : v \in Visits /\ v[2] \in Nat /\ v[2] <= n

\* The zones a visit has been told to be in are those its track is taken to be in.
Told(T, Z, K) ==
    /\ \A t \in Tracks : T[t] = None => Z[t] = {}
    /\ \A t \in Tracks : T[t] # None => \A z \in Zones : z \in Z[t] <=> <<T[t].visit, z>> \in K

VisitInv ==
    /\ TrackTypes /\ Owned(tracks, clock)
    /\ Past(DOMAIN rows, clock) /\ Past(orphans, clock) /\ Past(unsaved, clock)
    /\ told \subseteq Visits \X Zones /\ \A p \in told : p[1][2] \in Nat /\ p[1][2] <= clock
    /\ \A v \in DOMAIN rows : rows[v] \in Row
    /\ Follows(rows, LiveVisits(tracks), orphans, unsaved)
    /\ Told(tracks, zone_state, told)

Begun(new, at) == {<<t, at>> : t \in new}
EndedBy(gone) == {tracks[t].visit : t \in gone}

LEMMA VisitsOfFrame ==
    ASSUME VisitInv, NEW at \in Nat \ {0}, at > clock,
           NEW shown \in SUBSET Tracks, NEW new \in SUBSET Tracks, NEW gone \in SUBSET Tracks,
           NEW in \in [shown -> SUBSET Zones], NEW out \in [shown -> SUBSET Zones],
           FrameShape(at, shown, new, gone, in, out)
    PROVE  /\ Owned(tracks', at)
           /\ LiveVisits(tracks') = (LiveVisits(tracks) \ EndedBy(gone)) \cup Begun(new, at)
           /\ EndedBy(gone) \subseteq LiveVisits(tracks)
           /\ Begun(new, at) \cap (DOMAIN rows \cup LiveVisits(tracks) \cup orphans) = {}
           /\ Past(Begun(new, at), at)
<1> DEFINE added == {<<t, at>> : t \in new}
           ended == {tracks[t].visit : t \in gone}
<1>1. /\ clock \in Nat /\ \A t \in Tracks : tracks[t] # None => tracks[t] \in Track
      /\ \A t \in Tracks : tracks[t] # None =>
            tracks[t].visit[1] = t /\ tracks[t].visit[2] \in Nat /\ tracks[t].visit[2] <= clock
  BY DEF VisitInv, TrackTypes, Owned
<1>2. /\ \A t \in Tracks : t \in new <=> t \in shown /\ tracks[t] = None
      /\ \A t \in gone : t \notin shown /\ tracks[t] # None /\ tracks'[t] = None
      /\ \A t \in new : tracks'[t] # None /\ tracks'[t].visit = <<t, at>>
      /\ \A t \in shown \ new : tracks'[t] # None /\ tracks'[t].visit = tracks[t].visit
      /\ \A t \in Tracks \ (shown \cup gone) : tracks'[t] = tracks[t]
  BY DEF FrameShape, VisitAt
<1>3. Owned(tracks', at)
  <2>1. SUFFICES ASSUME NEW t \in Tracks, tracks'[t] # None
                 PROVE  tracks'[t].visit[1] = t /\ tracks'[t].visit[2] \in Nat /\ tracks'[t].visit[2] <= at
    BY DEF Owned
  <2>2. CASE t \in new
    BY <1>2, <2>2
  <2>3. CASE t \notin new
    <3>1. tracks'[t].visit = tracks[t].visit /\ tracks[t] # None
      BY <1>2, <2>1, <2>3
    <3> QED BY <1>1, <3>1
  <2> QED BY <2>2, <2>3
<1>4. Past(added, at)
  BY DEF Past, Visits
<1>5. added \cap (DOMAIN rows \cup LiveVisits(tracks) \cup orphans) = {}
  <2>1. SUFFICES ASSUME NEW t \in new, <<t, at>> \in DOMAIN rows \cup LiveVisits(tracks) \cup orphans
                 PROVE  FALSE
    BY Zenon
  <2>2. <<t, at>>[2] = at
    OBVIOUS
  <2>3. CASE <<t, at>> \in DOMAIN rows \cup orphans
    BY <1>1, <2>2, <2>3 DEF VisitInv, Past
  <2>4. CASE <<t, at>> \in LiveVisits(tracks)
    BY <1>1, <2>2, <2>4 DEF LiveVisits
  <2> QED BY <2>1, <2>3, <2>4
<1>6. ended \subseteq LiveVisits(tracks)
  BY <1>2 DEF LiveVisits
<1>7. LiveVisits(tracks') = (LiveVisits(tracks) \ ended) \cup added
  <2>1. ASSUME NEW v \in LiveVisits(tracks') PROVE v \in (LiveVisits(tracks) \ ended) \cup added
    <3>1. PICK t \in Tracks : tracks'[t] # None /\ v = tracks'[t].visit
      BY <2>1 DEF LiveVisits
    <3>2. CASE t \in new
      BY <1>2, <3>1, <3>2
    <3>3. CASE t \notin new
      <4>1. v = tracks[t].visit /\ tracks[t] # None /\ t \notin gone
        BY <1>2, <3>1, <3>3
      <4>2. v \notin ended
        BY <1>1, <1>2, <4>1
      <4> QED BY <4>1, <4>2 DEF LiveVisits
    <3> QED BY <3>2, <3>3
  <2>2. ASSUME NEW v \in (LiveVisits(tracks) \ ended) PROVE v \in LiveVisits(tracks')
    <3>1. PICK t \in Tracks : tracks[t] # None /\ v = tracks[t].visit
      BY <2>2 DEF LiveVisits
    <3>2. t \notin gone
      BY <2>2, <3>1
    <3>3. tracks'[t] # None /\ tracks'[t].visit = v
      BY <1>2, <3>1, <3>2
    <3> QED BY <3>3 DEF LiveVisits
  <2>3. ASSUME NEW v \in added PROVE v \in LiveVisits(tracks')
    BY <1>2, <2>3 DEF LiveVisits
  <2> QED BY <2>1, <2>2, <2>3
<1> QED BY <1>3, <1>4, <1>5, <1>6, <1>7 DEF Begun, EndedBy

\* What a frame makes of the rows.
LEMMA RowsOfFrame ==
    ASSUME VisitInv, NEW at \in Nat \ {0}, at > clock,
           NEW shown \in SUBSET Tracks, NEW new \in SUBSET Tracks, NEW gone \in SUBSET Tracks,
           NEW in \in [shown -> SUBSET Zones], NEW out \in [shown -> SUBSET Zones],
           FrameShape(at, shown, new, gone, in, out), FrameCrossings(at, shown, in, out),
           FrameRows(at, new, gone)
    PROVE  /\ Past(DOMAIN rows', at) /\ Past(orphans', at) /\ Past(unsaved', at)
           /\ \A v \in DOMAIN rows' : rows'[v] \in Row
           /\ Follows(rows', LiveVisits(tracks'), orphans', unsaved')
<1> DEFINE added == Begun(new, at)
           ended == EndedBy(gone)
           crossed == {c.visit : c \in crossings'}
<1>0. added = {<<t, at>> : t \in new} /\ ended = {tracks[t].visit : t \in gone}
  BY DEF Begun, EndedBy
<1>1. /\ LiveVisits(tracks') = (LiveVisits(tracks) \ ended) \cup added
      /\ ended \subseteq LiveVisits(tracks)
      /\ added \cap (DOMAIN rows \cup LiveVisits(tracks) \cup orphans) = {}
      /\ Past(added, at)
  BY VisitsOfFrame
<1> HIDE DEF added, ended
<1>1b. \A v \in DOMAIN rows : rows[v] \in Row
  BY DEF VisitInv
<1>2. Follows(rows, LiveVisits(tracks), orphans, unsaved)
  BY DEF VisitInv
<1>3. \A V : Past(V, clock) => Past(V, at)
  BY DEF Past, VisitInv, TrackTypes
<1>4. \A v \in LiveVisits(tracks) : v \in Visits /\ v[2] \in Nat /\ v[2] <= clock
  BY DEF LiveVisits, VisitInv, TrackTypes, Owned, Track
<1>5. Past(DOMAIN rows, at) /\ Past(orphans, at) /\ Past(unsaved, at) /\ Past(ended, at)
  BY <1>1, <1>3, <1>4 DEF VisitInv, Past
<1>6. Past(crossed, at)
  <2>1. ASSUME NEW t \in shown
        PROVE  VisitAt(t, at) \in Visits /\ VisitAt(t, at)[2] \in Nat /\ VisitAt(t, at)[2] <= at
    <3>1. CASE tracks[t] = None
      BY <3>1 DEF VisitAt, Visits
    <3>2. CASE tracks[t] # None
      <4>1. tracks[t].visit \in LiveVisits(tracks)
        BY <3>2 DEF LiveVisits
      <4> QED BY <1>4, <3>2, <4>1 DEF VisitAt, VisitInv, TrackTypes
    <3> QED BY <3>1, <3>2
  <2>2. \A c \in crossings' : \E t \in shown : c.visit = VisitAt(t, at)
    BY DEF FrameCrossings
  <2> QED BY <2>1, <2>2 DEF Past
<1> HIDE DEF crossed
<1>7. CASE /\ UNCHANGED <<rows, events>>
           /\ unsaved' = unsaved \cup added \cup crossed
           /\ orphans' = orphans \cup ended
  <2>1. Follows(rows, (LiveVisits(tracks) \ ended) \cup added, orphans \cup ended, unsaved')
    BY <1>1, <1>2, <1>7, LossFollows
  <2>2. Past(orphans', at) /\ Past(unsaved', at)
    BY <1>1, <1>5, <1>6, <1>7 DEF Past
  <2> QED BY <1>1, <1>1b, <1>5, <1>7, <2>1, <2>2
<1>8. CASE /\ rows' = PushedRows(new, gone, at)
           /\ UNCHANGED unsaved
           /\ orphans' = orphans \cup (ended \ DOMAIN rows)
  <2>1. DOMAIN rows' = DOMAIN rows \cup added
    BY <1>8 DEF PushedRows, added, Begun
  <2>2. \A v \in added : rows'[v] = NewRow(at)
    BY <1>8, <2>1 DEF PushedRows, added, Begun
  <2>3. \A v \in DOMAIN rows \ added : rows'[v] = IF v \in ended THEN Completed(rows[v], tracks[v[1]]) ELSE rows[v]
    BY <1>8, <2>1 DEF PushedRows, added, ended, Begun, EndedBy
  <2>4. \A v \in ended : v \notin added /\ tracks[v[1]] \in Track
    <3>1. ASSUME NEW t \in gone PROVE tracks[t].visit[1] = t /\ tracks[t] \in Track
      BY DEF FrameShape, VisitInv, TrackTypes, Owned
    <3> QED BY <1>0, <1>1, <3>1
  <2>5. NewRow(at) \in Row /\ NewRow(at).complete = FALSE
    BY DEF NewRow, Row
  <2>6. ASSUME NEW r \in Row, NEW k \in Track
        PROVE  Completed(r, k) \in Row /\ Completed(r, k).complete = TRUE
    BY DEF Completed, Row, Track
  <2>7. \A v \in ended \cap DOMAIN rows : rows'[v] \in Row /\ rows'[v].complete = TRUE
    <3> TAKE v \in ended \cap DOMAIN rows
    <3>1. rows'[v] = Completed(rows[v], tracks[v[1]]) /\ tracks[v[1]] \in Track /\ rows[v] \in Row
      BY <1>1b, <2>3, <2>4
    <3> QED BY <2>6, <3>1
  <2>8. \A v \in DOMAIN rows \ ended : rows'[v] = rows[v]
    BY <1>1, <2>3
  <2>9. \A v \in DOMAIN rows' : rows'[v] \in Row
    BY <2>1, <2>2, <2>5, <2>7, <2>8, <1>1b
  <2>10. \A v \in added : rows'[v].complete = FALSE
    BY <2>2, <2>5
  <2>11. Follows(rows', (LiveVisits(tracks) \ ended) \cup added, orphans \cup (ended \ DOMAIN rows), unsaved)
    BY <1>1, <1>2, <2>1, <2>7, <2>8, <2>10, PushFollows
  <2>12. Past(DOMAIN rows', at) /\ Past(orphans', at) /\ Past(unsaved', at)
    BY <1>1, <1>5, <1>8, <2>1 DEF Past
  <2> QED BY <1>1, <1>8, <2>9, <2>11, <2>12
<1> QED BY <1>7, <1>8 DEF FrameRows, crossed, added, ended, Begun, EndedBy

\* What a frame makes of the crossings told.
LEMMA ToldOfFrame ==
    ASSUME VisitInv, NEW at \in Nat \ {0}, at > clock,
           NEW shown \in SUBSET Tracks, NEW new \in SUBSET Tracks, NEW gone \in SUBSET Tracks,
           NEW in \in [shown -> SUBSET Zones], NEW out \in [shown -> SUBSET Zones],
           FrameShape(at, shown, new, gone, in, out), FrameCrossings(at, shown, in, out)
    PROVE  /\ told' \subseteq Visits \X Zones /\ \A p \in told' : p[1][2] \in Nat /\ p[1][2] <= at
           /\ Told(tracks', zone_state', told')
           /\ \A c \in crossings' : (c.type = "entry") <=> (<<c.visit, c.zone>> \notin told)
<1> DEFINE entries == {<<c.visit, c.zone>> : c \in {m \in crossings' : m.type = "entry"}}
           exits == {<<c.visit, c.zone>> : c \in {m \in crossings' : m.type = "exit"}}
<1>1. told' = (told \cup entries) \ exits
  BY DEF FrameCrossings
<1>2. /\ \A t \in Tracks : t \in new <=> t \in shown /\ tracks[t] = None
      /\ \A t \in gone : t \in Tracks /\ t \notin shown /\ tracks[t] # None /\ tracks'[t] = None
      /\ \A t \in shown : tracks'[t] # None /\ tracks'[t].visit = VisitAt(t, at)
      /\ \A t \in Tracks \ (shown \cup gone) : tracks'[t] = tracks[t]
      /\ \A t \in shown : zone_state'[t] = (zone_state[t] \cup in[t]) \ out[t]
      /\ \A t \in gone : zone_state'[t] = {}
      /\ \A t \in Tracks \ (shown \cup gone) : zone_state'[t] = zone_state[t]
      /\ \A t \in shown : in[t] \cap zone_state[t] = {} /\ out[t] \subseteq zone_state[t]
  BY DEF FrameShape
<1>3. \A t \in Tracks : tracks[t] # None =>
        /\ tracks[t].visit \in Visits /\ tracks[t].visit[1] = t
        /\ tracks[t].visit[2] \in Nat /\ tracks[t].visit[2] <= clock
  BY DEF VisitInv, TrackTypes, Owned, Track
<1>4. clock \in Nat /\ told \subseteq Visits \X Zones /\ \A p \in told : p[1][2] \in Nat /\ p[1][2] <= clock
  BY DEF VisitInv, TrackTypes
<1>5. \A t \in shown : /\ VisitAt(t, at) \in Visits /\ VisitAt(t, at)[1] = t
                       /\ VisitAt(t, at)[2] \in Nat /\ VisitAt(t, at)[2] <= at
  <2> TAKE t \in shown
  <2>1. CASE tracks[t] = None
    BY <2>1 DEF VisitAt, Visits
  <2>2. CASE tracks[t] # None
    BY <1>3, <1>4, <2>2 DEF VisitAt
  <2> QED BY <2>1, <2>2
<1>6. \A t \in shown : \A z \in Zones : z \in zone_state[t] <=> <<VisitAt(t, at), z>> \in told
  <2> TAKE t \in shown
  <2> TAKE z \in Zones
  <2>1. CASE tracks[t] = None
    <3>1. <<t, at>>[2] = at /\ zone_state[t] = {}
      BY <2>1 DEF VisitInv, Told
    <3>2. <<VisitAt(t, at), z>>[1][2] = at
      BY <2>1 DEF VisitAt
    <3> QED BY <1>4, <3>1, <3>2
  <2>2. CASE tracks[t] # None
    BY <2>2 DEF VisitInv, Told, VisitAt
  <2> QED BY <2>1, <2>2
<1>7. \A c \in crossings' : c \in Event /\ \E t \in shown :
          c.visit = VisitAt(t, at) /\ c.zone \in (IF c.type = "entry" THEN in[t] ELSE out[t])
  BY DEF FrameCrossings
<1>8. /\ \A t \in shown : \A z \in Zones : <<VisitAt(t, at), z>> \in entries <=> z \in in[t]
      /\ \A t \in shown : \A z \in Zones : <<VisitAt(t, at), z>> \in exits <=> z \in out[t]
  <2> SUFFICES ASSUME NEW t \in shown, NEW z \in Zones
               PROVE  /\ <<VisitAt(t, at), z>> \in entries <=> z \in in[t]
                      /\ <<VisitAt(t, at), z>> \in exits <=> z \in out[t]
    OBVIOUS
  <2>1. (z \in in[t] => <<VisitAt(t, at), z>> \in entries) /\ (z \in out[t] => <<VisitAt(t, at), z>> \in exits)
    BY DEF FrameCrossings
  <2>2. ASSUME <<VisitAt(t, at), z>> \in entries PROVE z \in in[t]
    <3>1. PICK c \in crossings' : c.type = "entry" /\ c.visit = VisitAt(t, at) /\ c.zone = z
      BY <2>2
    <3>2. PICK u \in shown : c.visit = VisitAt(u, at) /\ c.zone \in in[u]
      BY <1>7, <3>1
    <3>3. u = t
      BY <1>5, <3>1, <3>2
    <3> QED BY <3>1, <3>2, <3>3
  <2>3. ASSUME <<VisitAt(t, at), z>> \in exits PROVE z \in out[t]
    <3>1. PICK c \in crossings' : c.type = "exit" /\ c.visit = VisitAt(t, at) /\ c.zone = z
      BY <2>3
    <3>2. PICK u \in shown : c.visit = VisitAt(u, at) /\ c.zone \in out[u]
      BY <1>7, <3>1
    <3>3. u = t
      BY <1>5, <3>1, <3>2
    <3> QED BY <3>1, <3>2, <3>3
  <2> QED BY <2>1, <2>2, <2>3
<1>9. \A p \in entries \cup exits : \E t \in shown, z \in Zones : p = <<VisitAt(t, at), z>>
  BY <1>7 DEF Event
<1> HIDE DEF entries, exits
<1>10. told' \subseteq Visits \X Zones /\ \A p \in told' : p[1][2] \in Nat /\ p[1][2] <= at
  <2>1. \A p \in entries : p \in Visits \X Zones /\ p[1][2] \in Nat /\ p[1][2] <= at
    BY <1>5, <1>9
  <2> QED BY <1>1, <1>4, <2>1
<1>11. Told(tracks', zone_state', told')
  <2>1. \A t \in Tracks : tracks'[t] = None => zone_state'[t] = {}
    BY <1>2 DEF VisitInv, Told
  <2>2. SUFFICES ASSUME NEW t \in Tracks, tracks'[t] # None, NEW z \in Zones
                 PROVE  z \in zone_state'[t] <=> <<tracks'[t].visit, z>> \in told'
    BY <2>1 DEF Told
  <2>3. CASE t \in shown
    BY <1>1, <1>2, <1>6, <1>8, <2>3
  <2>4. CASE t \notin shown
    <3>1. tracks'[t] = tracks[t] /\ zone_state'[t] = zone_state[t]
      BY <1>2, <2>2, <2>4
    <3>2. z \in zone_state[t] <=> <<tracks[t].visit, z>> \in told
      BY <2>2, <3>1 DEF VisitInv, Told
    <3>3. <<tracks[t].visit, z>> \notin entries \cup exits
      <4> SUFFICES ASSUME NEW u \in shown, tracks[t].visit = VisitAt(u, at) PROVE FALSE
        BY <1>9
      <4> QED BY <1>3, <1>5, <2>2, <2>4, <3>1
    <3> QED BY <1>1, <3>1, <3>2, <3>3
  <2> QED BY <2>3, <2>4
<1>12. ASSUME NEW c \in crossings' PROVE (c.type = "entry") <=> (<<c.visit, c.zone>> \notin told)
  <2>1. c.zone \in Zones
    BY <1>7, <1>12 DEF Event
  <2>2. PICK t \in shown : c.visit = VisitAt(t, at) /\ c.zone \in (IF c.type = "entry" THEN in[t] ELSE out[t])
    BY <1>7, <1>12
  <2> QED BY <1>2, <1>6, <2>1, <2>2
<1> QED BY <1>10, <1>11, <1>12

-----------------------------------------------------------------------------
(* The inductive invariant.                                                  *)

MiscTypes ==
    /\ loaded \in Nat \cup {None} /\ flushed \in Nat \cup {None}
    /\ last_event \in [Tracks \X Zones \X Kinds -> Nat]
    /\ crossings \in SUBSET Event /\ events \in SUBSET Event
    /\ edits \in Nat /\ failures \in Nat /\ restarts \in Nat

HeatInv == GridTypes(grid, cells, seen, lost) /\ Balanced(grid, cells, seen, lost)

TrackerInv == MiscTypes /\ VisitInv /\ HeatInv

LEMMA FaultsCounted ==
    ASSUME NEW bad \in SUBSET Faults
    PROVE  Cardinality(bad) \in Nat
<1>1. IsFiniteSet({"load"}) /\ IsFiniteSet({"push"}) /\ IsFiniteSet({"flush"})
  BY FS_Singleton
<1>2. IsFiniteSet({"load"} \cup {"push"})
  BY <1>1, FS_Union
<1>3. IsFiniteSet(({"load"} \cup {"push"}) \cup {"flush"})
  BY <1>1, <1>2, FS_Union
<1>4. Faults = ({"load"} \cup {"push"}) \cup {"flush"}
  BY DEF Faults
<1> QED BY <1>3, <1>4, FS_Subset, FS_CardinalityType

LEMMA InitTracker == Init => TrackerInv
<1> SUFFICES ASSUME Init PROVE TrackerInv
  OBVIOUS
<1>1. MiscTypes
  BY DEF Init, MiscTypes, NoEvents
<1>2. HeatInv
  <2>1. Plus(EmptyGrid, EmptyGrid) = EmptyGrid
    <3>1. /\ Plus(EmptyGrid, EmptyGrid) \in Counts
          /\ \A c \in Cells : Plus(EmptyGrid, EmptyGrid)[c] = EmptyGrid[c] + EmptyGrid[c]
      BY EmptyGridType, PlusType
    <3> QED BY <3>1, EmptyGridType, SameCounts
  <2> QED BY <2>1, EmptyGridType DEF Init, HeatInv, GridTypes, Balanced
<1>3. VisitInv
  <2>1. TrackTypes
    BY TimeAssumption DEF Init, TrackTypes
  <2>2. DOMAIN rows = {} /\ orphans = {} /\ unsaved = {} /\ told = {} /\ \A t \in Tracks : tracks[t] = None /\ zone_state[t] = {}
    BY DEF Init
  <2>3. LiveVisits(tracks) = {}
    BY <2>2 DEF LiveVisits
  <2> QED BY <2>1, <2>2, <2>3 DEF VisitInv, Owned, Past, Follows, Told
<1> QED BY <1>1, <1>2, <1>3 DEF TrackerInv

LEMMA FrameKeepsTracker ==
    ASSUME TrackerInv, NEW at \in Nat \ {0}, at > clock, NEW d \in [Tracks -> Places \cup {None}],
           NEW bad \in SUBSET Faults, Frame(at, d, bad)
    PROVE  /\ TrackerInv'
           /\ \A c \in crossings' : (c.type = "entry") <=> (<<c.visit, c.zone>> \notin told)
<1>1. PICK shown \in SUBSET Tracks :
         \E new, gone \in SUBSET Tracks, in, out \in [shown -> SUBSET Zones] :
            /\ FrameShape(at, shown, new, gone, in, out)
            /\ FrameCrossings(at, shown, in, out)
            /\ FrameRows(at, new, gone)
  BY FrameReduced DEF TrackerInv, VisitInv
<1>2. PICK new \in SUBSET Tracks, gone \in SUBSET Tracks, in \in [shown -> SUBSET Zones], out \in [shown -> SUBSET Zones] :
            /\ FrameShape(at, shown, new, gone, in, out)
            /\ FrameCrossings(at, shown, in, out)
            /\ FrameRows(at, new, gone)
  BY <1>1
<1>3. VisitInv
  BY DEF TrackerInv
<1>4. Owned(tracks', at)
  BY <1>2, <1>3, VisitsOfFrame
<1>5. /\ Past(DOMAIN rows', at) /\ Past(orphans', at) /\ Past(unsaved', at)
      /\ \A v \in DOMAIN rows' : rows'[v] \in Row
      /\ Follows(rows', LiveVisits(tracks'), orphans', unsaved')
  BY <1>2, <1>3, RowsOfFrame
<1>6. /\ told' \subseteq Visits \X Zones /\ \A p \in told' : p[1][2] \in Nat /\ p[1][2] <= at
      /\ Told(tracks', zone_state', told')
      /\ \A c \in crossings' : (c.type = "entry") <=> (<<c.visit, c.zone>> \notin told)
  BY <1>2, <1>3, ToldOfFrame
<1>7. /\ clock' = at /\ config' = config /\ edits' = edits /\ restarts' = restarts
      /\ failures' = failures + Cardinality(bad)
      /\ zones' = IF Due(at) /\ "load" \notin bad THEN Loadable(config) ELSE zones
      /\ loaded' = IF Due(at) /\ "load" \notin bad THEN at ELSE loaded
  BY DEF Frame
<1>8. TrackTypes'
  <2>1. tracks' \in [Tracks -> Track \cup {None}]
    BY <1>2 DEF FrameShape
  <2>2. zone_state' \in [Tracks -> SUBSET Zones]
    BY <1>2, <1>3 DEF FrameShape, VisitInv, TrackTypes
  <2>3. zones' \subseteq Zones /\ config' \subseteq Zones
    BY <1>3, <1>7 DEF VisitInv, TrackTypes, Loadable
  <2> QED BY <1>7, <2>1, <2>2, <2>3 DEF TrackTypes
<1>9. VisitInv'
  BY <1>4, <1>5, <1>6, <1>7, <1>8 DEF VisitInv
<1>10. /\ seen' = Plus(seen, Positions(d))
       /\ IF FlushDue(at)
           THEN /\ grid' = EmptyGrid /\ flushed' = at
                /\ cells' = IF "flush" \in bad THEN cells ELSE Plus(cells, Plus(grid, Positions(d)))
                /\ lost' = IF "flush" \in bad THEN Plus(lost, Plus(grid, Positions(d))) ELSE lost
           ELSE /\ grid' = Plus(grid, Positions(d)) /\ flushed' = IF flushed = None THEN at ELSE flushed
                /\ UNCHANGED <<cells, lost>>
  BY DEF Frame, Reset
<1>11. HeatInv'
  <2> DEFINE full == Plus(grid, Positions(d))
             all == Plus(seen, Positions(d))
  <2>1. GridTypes(grid, cells, seen, lost) /\ Balanced(grid, cells, seen, lost) /\ Positions(d) \in Counts
    BY PositionsType DEF TrackerInv, HeatInv
  <2>2. GridTypes(full, cells, all, lost) /\ Balanced(full, cells, all, lost)
    BY <2>1, CountingBalances
  <2> HIDE DEF full, all
  <2>3. /\ GridTypes(EmptyGrid, Plus(cells, full), all, lost) /\ Balanced(EmptyGrid, Plus(cells, full), all, lost)
        /\ GridTypes(EmptyGrid, cells, all, Plus(lost, full)) /\ Balanced(EmptyGrid, cells, all, Plus(lost, full))
    BY <2>2, FlushBalances
  <2>4. /\ seen' = all
        /\ \/ grid' = full /\ cells' = cells /\ lost' = lost
           \/ grid' = EmptyGrid /\ cells' = Plus(cells, full) /\ lost' = lost
           \/ grid' = EmptyGrid /\ cells' = cells /\ lost' = Plus(lost, full)
    BY <1>10 DEF full, all
  <2>5. GridTypes(grid', cells', seen', lost') /\ Balanced(grid', cells', seen', lost')
    BY <2>2, <2>3, <2>4
  <2> QED BY <2>5 DEF HeatInv
<1>12. MiscTypes'
  <2>1. crossings' \subseteq Event
    BY <1>2 DEF FrameCrossings
  <2>2. events' \subseteq Event
    BY <1>2, <2>1 DEF FrameRows, TrackerInv, MiscTypes
  <2>3. last_event' \in [Tracks \X Zones \X Kinds -> Nat]
    <3>1. \E K \in SUBSET (Tracks \X Zones \X Kinds), last \in {NoEvents, last_event} :
            last_event' = [k \in Tracks \X Zones \X Kinds |-> IF k \in K THEN at ELSE last[k]]
      <4> DEFINE reload == Due(at) /\ "load" \notin bad
                 known == IF reload THEN Loadable(config) ELSE zones
                 last == IF reload THEN NoEvents ELSE last_event
                 showing == {t \in Tracks : d[t] # None}
                 unheard == showing \ Live
                 track == [t \in showing |-> IF t \in unheard THEN NewTrack(t, at) ELSE tracks[t]]
                 entered == [t \in showing |-> Entered(t, track[t].pos, d[t], at, known, last)]
                 left == [t \in showing |-> Left(t, track[t].pos, d[t], at, known, last)]
                 K == {k \in Tracks \X Zones \X Kinds :
                         k[1] \in showing /\ k[2] \in (IF k[3] = "entry" THEN entered[k[1]] ELSE left[k[1]])}
      <4>1. last_event' = [k \in Tracks \X Zones \X Kinds |->
              IF k[1] \in showing /\ k[2] \in (IF k[3] = "entry" THEN entered[k[1]] ELSE left[k[1]])
              THEN at ELSE last[k]]
        BY DEF Frame
      <4>2. last \in {NoEvents, last_event}
        OBVIOUS
      <4> HIDE DEF showing, entered, left, last
      <4>3. last_event' = [k \in Tracks \X Zones \X Kinds |-> IF k \in K THEN at ELSE last[k]]
        BY <4>1
      <4>4. K \in SUBSET (Tracks \X Zones \X Kinds)
        OBVIOUS
      <4> HIDE DEF K
      <4> QED BY <4>2, <4>3, <4>4
    <3>2. PICK K \in SUBSET (Tracks \X Zones \X Kinds), last \in {NoEvents, last_event} :
            last_event' = [k \in Tracks \X Zones \X Kinds |-> IF k \in K THEN at ELSE last[k]]
      BY <3>1
    <3>3. last \in [Tracks \X Zones \X Kinds -> Nat]
      BY DEF NoEvents, TrackerInv, MiscTypes
    <3> QED BY <3>2, <3>3
  <2> QED BY <1>7, <1>10, <2>1, <2>2, <2>3, FaultsCounted DEF MiscTypes, TrackerInv
<1> QED BY <1>6, <1>9, <1>11, <1>12 DEF TrackerInv

LEMMA UpdateZonesKeepsTracker ==
    ASSUME TrackerInv, UpdateZones
    PROVE  TrackerInv' /\ crossings' = crossings
<1>1. config' \in SUBSET Zones /\ edits' = edits + 1 /\ UNCHANGED <<memory, tables, history, clock, failures, restarts>>
  BY DEF UpdateZones
<1>2. MiscTypes' /\ crossings' = crossings
  BY <1>1 DEF TrackerInv, MiscTypes, memory, tables
<1>3. HeatInv'
  <2>1. GridTypes(grid', cells', seen', lost') /\ Balanced(grid', cells', seen', lost')
    BY <1>1 DEF TrackerInv, HeatInv, memory, tables, history
  <2> QED BY <2>1 DEF HeatInv
<1>4. VisitInv'
  <2>1. TrackTypes'
    BY <1>1 DEF TrackerInv, VisitInv, TrackTypes, memory
  <2>2. /\ tracks' = tracks /\ clock' = clock /\ rows' = rows /\ orphans' = orphans /\ unsaved' = unsaved
        /\ told' = told /\ zone_state' = zone_state
    BY <1>1 DEF memory, tables, history
  <2>3. /\ Owned(tracks', clock') /\ Past(DOMAIN rows', clock') /\ Past(orphans', clock') /\ Past(unsaved', clock')
        /\ Follows(rows', LiveVisits(tracks'), orphans', unsaved') /\ Told(tracks', zone_state', told')
    BY <2>2 DEF TrackerInv, VisitInv
  <2> QED BY <2>1, <2>2, <2>3 DEF TrackerInv, VisitInv
<1> QED BY <1>2, <1>3, <1>4 DEF TrackerInv

LEMMA RestartKeepsTracker ==
    ASSUME TrackerInv, Restart
    PROVE  TrackerInv' /\ crossings' = {}
<1>1. /\ zones' = {} /\ loaded' = None /\ flushed' = None /\ last_event' = NoEvents /\ crossings' = {}
      /\ zone_state' = [t \in Tracks |-> {}] /\ tracks' = [t \in Tracks |-> None]
      /\ orphans' = orphans \cup LiveVisits(tracks)
      /\ grid' = EmptyGrid /\ lost' = Plus(lost, grid) /\ restarts' = restarts + 1
      /\ UNCHANGED <<config, rows, events, cells, told, unsaved, seen, clock, edits, failures>>
  BY DEF Restart, tables, LiveVisits, Live
<1>2. MiscTypes'
  BY <1>1 DEF TrackerInv, MiscTypes, NoEvents
<1>3. HeatInv'
  <2>1. GridTypes(EmptyGrid, cells, seen, Plus(lost, grid)) /\ Balanced(EmptyGrid, cells, seen, Plus(lost, grid))
    BY FlushBalances DEF TrackerInv, HeatInv
  <2>2. GridTypes(grid', cells', seen', lost') /\ Balanced(grid', cells', seen', lost')
    BY <1>1, <2>1
  <2> QED BY <2>2 DEF HeatInv
<1>4. VisitInv'
  <2>1. TrackTypes'
    BY <1>1 DEF TrackerInv, VisitInv, TrackTypes
  <2>2. /\ Owned(tracks', clock') /\ Told(tracks', zone_state', told') /\ LiveVisits(tracks') = {}
    BY <1>1 DEF Owned, Told, LiveVisits
  <2>3. Past(orphans', clock') /\ Past(DOMAIN rows', clock') /\ Past(unsaved', clock')
    <3>1. Past(LiveVisits(tracks), clock)
      BY DEF TrackerInv, VisitInv, TrackTypes, Owned, Track, LiveVisits, Past
    <3> QED BY <1>1, <3>1 DEF TrackerInv, VisitInv, Past
  <2>4. Follows(rows', LiveVisits(tracks'), orphans', unsaved')
    BY <1>1, <2>2 DEF TrackerInv, VisitInv, Follows
  <2> QED BY <1>1, <2>1, <2>2, <2>3, <2>4 DEF TrackerInv, VisitInv
<1> QED BY <1>1, <1>2, <1>3, <1>4 DEF TrackerInv

\* Every step keeps the invariant and hands over entries and exits in turn.
LEMMA StepKeepsTracker ==
    ASSUME TrackerInv, [Next]_vars
    PROVE  /\ TrackerInv'
           /\ \A c \in crossings' \ crossings : (c.type = "entry") <=> (<<c.visit, c.zone>> \notin told)
<1>1. ASSUME NEW at \in clock + 1 .. clock + MaxGap, NEW d \in [Tracks -> Places \cup {None}],
             NEW bad \in SUBSET Faults, Frame(at, d, bad)
      PROVE  /\ TrackerInv'
             /\ \A c \in crossings' \ crossings : (c.type = "entry") <=> (<<c.visit, c.zone>> \notin told)
  <2>1. at \in Nat \ {0} /\ at > clock
    BY TimeAssumption DEF TrackerInv, VisitInv, TrackTypes
  <2> QED BY <1>1, <2>1, FrameKeepsTracker
<1>2. CASE UpdateZones
  BY <1>2, UpdateZonesKeepsTracker
<1>3. CASE Restart
  BY <1>3, RestartKeepsTracker
<1>4. CASE UNCHANGED vars
  <2>1. UNCHANGED <<config, memory, tables, history, clock, edits, failures, restarts>>
    BY <1>4 DEF vars
  <2>2. MiscTypes' /\ crossings' = crossings
    BY <2>1 DEF TrackerInv, MiscTypes, memory, tables
  <2>3. HeatInv'
    <3>1. GridTypes(grid', cells', seen', lost') /\ Balanced(grid', cells', seen', lost')
      BY <2>1 DEF TrackerInv, HeatInv, memory, tables, history
    <3> QED BY <3>1 DEF HeatInv
  <2>4. VisitInv'
    <3>1. TrackTypes'
      BY <2>1 DEF TrackerInv, VisitInv, TrackTypes, memory
    <3>2. /\ tracks' = tracks /\ clock' = clock /\ rows' = rows /\ orphans' = orphans /\ unsaved' = unsaved
          /\ told' = told /\ zone_state' = zone_state
      BY <2>1 DEF memory, tables, history
    <3>3. /\ Owned(tracks', clock') /\ Past(DOMAIN rows', clock') /\ Past(orphans', clock') /\ Past(unsaved', clock')
          /\ Follows(rows', LiveVisits(tracks'), orphans', unsaved') /\ Told(tracks', zone_state', told')
      BY <3>2 DEF TrackerInv, VisitInv
    <3> QED BY <3>1, <3>2, <3>3 DEF TrackerInv, VisitInv
  <2> QED BY <2>2, <2>3, <2>4 DEF TrackerInv
<1> QED BY <1>1, <1>2, <1>3, <1>4 DEF Next

-----------------------------------------------------------------------------
(* The theorems.                                                             *)

LEMMA TrackerAlways == Spec => []TrackerInv
BY InitTracker, StepKeepsTracker, PTL DEF Spec

\* Memory, tables and histories are of their kinds in every run of the tracker.
THEOREM TrackerTypes == Spec => []TypeOK
<1>1. TrackerInv => TypeOK
  <2> SUFFICES ASSUME TrackerInv PROVE TypeOK
    OBVIOUS
  <2>1. {grid, cells, seen, lost} \subseteq [Cells -> Nat]
    BY DEF TrackerInv, HeatInv, GridTypes, Counts
  <2>2. DOMAIN rows \subseteq Visits /\ orphans \subseteq Visits /\ unsaved \subseteq Visits
    BY DEF TrackerInv, VisitInv, Past
  <2> QED BY <2>1, <2>2 DEF TrackerInv, VisitInv, TrackTypes, MiscTypes, TypeOK
<1> QED BY <1>1, TrackerAlways, PTL

\* A row is complete exactly when its track has left memory, but for those a
\* failed push or a restart cut off, for all tracks, gaps and numbers of faults.
THEOREM RowsFollow == Spec => []RowsFollowTracks
<1>1. TrackerInv => RowsFollowTracks
  BY DEF TrackerInv, VisitInv, Follows, LiveVisits, RowsFollowTracks, Live
<1> QED BY <1>1, TrackerAlways, PTL

\* No detection is counted twice or forgotten, however flushes fail.
THEOREM CountedOnce == Spec => []HeatmapCountsOnce
<1>1. TrackerInv => HeatmapCountsOnce
  BY DEF TrackerInv, HeatInv, Balanced, HeatmapCountsOnce
<1> QED BY <1>1, TrackerAlways, PTL

\* Entries and exits alternate for every visit and zone, whatever the shapes of
\* the zones, their edits, and the throttle.
THEOREM EntriesAndExitsAlternate == Spec => CrossingsAlternate
<1>1. TrackerInv /\ [Next]_vars =>
        [\A c \in crossings' \ crossings : (c.type = "entry") <=> (<<c.visit, c.zone>> \notin told)]_vars
  BY StepKeepsTracker
<1> QED BY <1>1, TrackerAlways, PTL DEF Spec, CrossingsAlternate

-----------------------------------------------------------------------------
(* Rollups: what the aggregator keeps.                                       *)

PersonTrack ==
    [camera : Cameras, entry : Nat, exit : Nat \cup {Null}, dwell : Nat \cup {Null}, zones : SUBSET ZoneNames]
TracksOK ==
    /\ person_tracks \in Seq(PersonTrack) /\ hour \in Nat
    /\ \A i \in DOMAIN person_tracks : person_tracks[i].exit # Null => person_tracks[i].dwell \in Nat

\* A row of a day: conversion_rate is computed from visitors, and they are the entries.
RowOK(row) ==
    /\ row.entries \in Nat /\ row.exits \in Nat /\ row.visitors = row.entries
    /\ row.peak_count \in Nat /\ row.peak_count <= row.entries

\* A camera has a row of a day only if somebody entered on it.
DailyOK ==
    \A k \in DOMAIN daily :
        k \in Sources \X Int /\ RowOK(daily[k]) /\ (k[1] # Store => EnteredOn(k[1], k[2]) # {})

\* The rows of the session were right when they were made, and tracks only grow since.
MadeOK ==
    \A k \in DOMAIN made :
        /\ k \in Sources \X {key} /\ RowOK(made[k])
        /\ k[1] # Store => /\ EnteredOn(k[1], key) # {}
                           /\ made[k].entries <= Cardinality(EnteredOn(k[1], key))
                           /\ made[k].exits <= Cardinality(LeftOn(k[1], key))

CameraRows(table, day) == {k \in DOMAIN table : k[2] = day /\ k[1] # Store}
EntriesOf(table, chosen) == SumFunction([k \in chosen |-> table[k].entries])
ExitsOf(table, chosen) == SumFunction([k \in chosen |-> table[k].exits])
Covered(table, day) ==
    /\ <<Store, day>> \in DOMAIN table
    /\ EntriesOf(table, CameraRows(table, day)) <= table[<<Store, day>>].entries
    /\ ExitsOf(table, CameraRows(table, day)) <= table[<<Store, day>>].exits

\* Whoever has a row of the day is computed again before the rows are committed, and the store last.
PassOK ==
    /\ part \in {"idle", "day"} /\ key \in Int
    /\ part = "day" =>
          /\ todo \subseteq Sources
          /\ \A c \in todo \ {Store} : EnteredOn(c, key) # {}
          /\ \A c \in Cameras : <<c, key>> \in DOMAIN daily => c \in todo \/ <<c, key>> \in DOMAIN made
          /\ Store \in todo \/ (todo = {} /\ Covered(made, key))

StoreOK == \A day \in Int : CameraRows(daily, day) # {} => Covered(daily, day)

\* The rows of the current hour, and those of day in a table, are those of the tracks.
HourExact ==
    \A c \in Cameras : EnteredIn(c, UtcHour) # {} =>
        /\ <<c, UtcHour>> \in DOMAIN hourly
        /\ hourly[<<c, UtcHour>>].entries = Cardinality(EnteredIn(c, UtcHour))
        /\ hourly[<<c, UtcHour>>].exits = Cardinality(LeftIn(c, UtcHour))
DayExact(table, c, day) ==
    EnteredOn(c, day) # {} =>
        /\ <<c, day>> \in DOMAIN table
        /\ table[<<c, day>>].entries = Cardinality(EnteredOn(c, day))
        /\ table[<<c, day>>].exits = Cardinality(LeftOn(c, day))

\* As long as nothing changes what a pass has computed stays right.
FreshOK ==
    /\ {fresh, changed} \subseteq BOOLEAN
    /\ fresh => HourExact /\ \A c \in Cameras : DayExact(daily, c, Today)
    /\ part = "day" /\ ~changed =>
          key = Today /\ HourExact /\ \A c \in Cameras : c \in todo \/ DayExact(made, c, key)

RollupInv == TracksOK /\ DailyOK /\ MadeOK /\ PassOK /\ StoreOK

-----------------------------------------------------------------------------
\* The tracks of a day, and those of them that ended, are finitely many.
LEMMA EnteredIsFinite ==
    ASSUME TracksOK, NEW c, NEW d
    PROVE  /\ IsFiniteSet(EnteredOn(c, d)) /\ Cardinality(EnteredOn(c, d)) \in Nat
           /\ IsFiniteSet(LeftOn(c, d)) /\ Cardinality(LeftOn(c, d)) \in Nat
           /\ LeftOn(c, d) \subseteq EnteredOn(c, d)
           /\ Cardinality(LeftOn(c, d)) <= Cardinality(EnteredOn(c, d))
<1>1. DOMAIN person_tracks = 1 .. Len(person_tracks) /\ Len(person_tracks) \in Nat
  BY DEF TracksOK
<1>2. IsFiniteSet(DOMAIN person_tracks)
  BY <1>1, FS_Interval
<1>3. EnteredOn(c, d) \subseteq DOMAIN person_tracks /\ LeftOn(c, d) \subseteq EnteredOn(c, d)
  BY DEF EnteredOn, Of, LeftOn, Complete
<1> HIDE DEF EnteredOn, LeftOn
<1>4. IsFiniteSet(EnteredOn(c, d))
  BY <1>2, <1>3, FS_Subset
<1> QED BY <1>3, <1>4, FS_Subset, FS_CardinalityType

\* A row as _compute_daily makes it: nobody leaves or is at the peak who did not enter.
LEMMA RowIsOK ==
    ASSUME TracksOK, NEW c, NEW d, NEW peak
    PROVE  /\ RowOK(DayRow(c, d, peak))
           /\ DayRow(c, d, peak).entries = Cardinality(EnteredOn(c, d))
           /\ DayRow(c, d, peak).exits = Cardinality(LeftOn(c, d))
<1> DEFINE I == EnteredOn(c, d)
<1>1. /\ DayRow(c, d, peak).entries = Cardinality(I) /\ DayRow(c, d, peak).visitors = Cardinality(I)
      /\ DayRow(c, d, peak).exits = Cardinality(LeftOn(c, d)) /\ DayRow(c, d, peak).peak_count = At(I, peak)
  BY DEF DayRow
<1>2. IsFiniteSet(I)
  BY EnteredIsFinite
<1> HIDE DEF I
<1>3. At(I, peak) \in Nat /\ At(I, peak) <= Cardinality(I)
  <2> DEFINE J == {i \in I : HourOfDay(i) = peak}
  <2>1. J \subseteq I
    OBVIOUS
  <2> HIDE DEF J
  <2>2. Cardinality(J) \in Nat /\ Cardinality(J) <= Cardinality(I)
    BY <1>2, <2>1, FS_Subset, FS_CardinalityType
  <2> QED BY <2>2 DEF J, At
<1> QED BY <1>1, <1>3, EnteredIsFinite DEF RowOK, I

\* What comes and goes adds to the selections and takes nothing away.
LEMMA TracksGrow ==
    ASSUME TracksOK,
           \/ \E c \in Cameras : Enter(c)
           \/ \E i \in DOMAIN person_tracks, d \in Dwells, visited \in SUBSET ZoneNames : Leave(i, d, visited)
    PROVE  /\ TracksOK'
           /\ \A c, d : EnteredOn(c, d) \subseteq EnteredOn(c, d)' /\ LeftOn(c, d) \subseteq LeftOn(c, d)'
<1>1. CASE \E c \in Cameras : Enter(c)
  <2>1. PICK c \in Cameras : Enter(c)
    BY <1>1
  <2> DEFINE t == [camera |-> c, entry |-> hour, exit |-> Null, dwell |-> Null, zones |-> {}]
  <2>2. t \in PersonTrack /\ t.exit = Null
    BY DEF TracksOK, PersonTrack
  <2>3. person_tracks' = Append(person_tracks, t) /\ hour' = hour
    BY <2>1 DEF Enter
  <2> HIDE DEF t
  <2>4. /\ person_tracks' \in Seq(PersonTrack)
        /\ DOMAIN person_tracks \subseteq DOMAIN person_tracks'
        /\ \A i \in DOMAIN person_tracks : person_tracks'[i] = person_tracks[i]
        /\ \A i \in DOMAIN person_tracks' : i \in DOMAIN person_tracks \/ person_tracks'[i] = t
    BY <2>2, <2>3 DEF TracksOK
  <2>5. TracksOK'
    BY <2>2, <2>3, <2>4 DEF TracksOK
  <2> QED BY <2>4, <2>5 DEF EnteredOn, LeftOn, Complete, Of
<1>2. ASSUME NEW i \in DOMAIN person_tracks, NEW d \in Dwells, NEW visited \in SUBSET ZoneNames, Leave(i, d, visited)
      PROVE  /\ TracksOK'
             /\ \A c, e : EnteredOn(c, e) \subseteq EnteredOn(c, e)' /\ LeftOn(c, e) \subseteq LeftOn(c, e)'
  <2>1. person_tracks[i] \in PersonTrack /\ d \in Nat
    BY RollupAssumption DEF TracksOK
  <2> DEFINE t == [person_tracks[i] EXCEPT !.exit = hour, !.dwell = d, !.zones = visited]
  <2>2. /\ t \in PersonTrack /\ t.camera = person_tracks[i].camera /\ t.entry = person_tracks[i].entry
        /\ t.dwell \in Nat /\ t.exit # Null
    BY <2>1, RollupAssumption DEF TracksOK, PersonTrack
  <2>3. person_tracks' = [person_tracks EXCEPT ![i] = t] /\ hour' = hour
    BY <1>2 DEF Leave
  <2> HIDE DEF t
  <2>4. /\ person_tracks' \in Seq(PersonTrack) /\ DOMAIN person_tracks' = DOMAIN person_tracks
        /\ person_tracks'[i] = t
        /\ \A j \in DOMAIN person_tracks : j # i => person_tracks'[j] = person_tracks[j]
    BY <2>2, <2>3 DEF TracksOK
  <2>5. TracksOK'
    BY <2>2, <2>3, <2>4 DEF TracksOK
  <2>6. \A j \in DOMAIN person_tracks :
            /\ person_tracks'[j].camera = person_tracks[j].camera /\ person_tracks'[j].entry = person_tracks[j].entry
            /\ person_tracks[j].exit # Null => person_tracks'[j].exit # Null
    BY <2>2, <2>4
  <2> QED BY <2>4, <2>5, <2>6 DEF EnteredOn, LeftOn, Complete, Of
<1> QED BY <1>1, <1>2

\* A table of a day's rows is finite, and so is the store's sum over it.
LEMMA RowsAreFinite ==
    ASSUME NEW table, NEW day, \A k \in DOMAIN table : k \in Sources \X Int
    PROVE  /\ IsFiniteSet(CameraRows(table, day))
           /\ \A k \in CameraRows(table, day) : k[1] \in Cameras /\ k = <<k[1], day>>
<1> DEFINE f == [c \in Cameras |-> <<c, day>>]
<1>1. \A k \in CameraRows(table, day) : k[1] \in Cameras /\ k = <<k[1], day>>
  BY DEF CameraRows, Sources
<1>2. CameraRows(table, day) \subseteq {f[c] : c \in Cameras}
  BY <1>1
<1>3. DOMAIN f = Cameras
  OBVIOUS
<1> HIDE DEF f
<1>4. IsFiniteSet({f[c] : c \in Cameras})
  BY <1>3, RollupAssumption, FiniteImage
<1> QED BY <1>1, <1>2, <1>4, FS_Subset

\* Nobody enters on two cameras: the sum over the cameras is the number of the store.
LEMMA EntryDisjoint ==
    ASSUME NEW c \in Cameras, NEW d \in Cameras, c # d, NEW day
    PROVE  EnteredOn(c, day) \cap EnteredOn(d, day) = {}
  BY RollupAssumption DEF EnteredOn, Of

\* The store's row, when it is made after the others, covers them.
LEMMA LastCovers ==
    ASSUME TracksOK, NEW table, NEW day \in Int,
           \A k \in DOMAIN table : k \in Sources \X Int,
           <<Store, day>> \in DOMAIN table,
           table[<<Store, day>>].entries = Cardinality(EnteredOn(Store, day)),
           table[<<Store, day>>].exits = Cardinality(LeftOn(Store, day)),
           \A k \in CameraRows(table, day) :
               /\ table[k].entries \in Nat /\ table[k].entries <= Cardinality(EnteredOn(k[1], day))
               /\ table[k].exits \in Nat /\ table[k].exits <= Cardinality(LeftOn(k[1], day))
    PROVE  Covered(table, day)
<1> DEFINE chosen == CameraRows(table, day)
           came == [k \in chosen |-> EnteredOn(k[1], day)]
           went == [k \in chosen |-> LeftOn(k[1], day)]
           f == [k \in chosen |-> table[k].entries]
           g == [k \in chosen |-> table[k].exits]
<1>1. IsFiniteSet(chosen) /\ \A k \in chosen : k[1] \in Cameras /\ k = <<k[1], day>>
  BY RowsAreFinite
<1>2. \A c \in Cameras : /\ EnteredOn(c, day) \subseteq EnteredOn(Store, day)
                         /\ LeftOn(c, day) \subseteq LeftOn(Store, day) /\ LeftOn(c, day) \subseteq EnteredOn(c, day)
  BY DEF EnteredOn, LeftOn, Complete, Of
<1>3. \A k \in chosen : came[k] = EnteredOn(k[1], day) /\ went[k] = LeftOn(k[1], day)
  OBVIOUS
<1>4. /\ came \in [chosen -> SUBSET EnteredOn(Store, day)] /\ went \in [chosen -> SUBSET LeftOn(Store, day)]
      /\ f \in [chosen -> Int] /\ g \in [chosen -> Int]
  <2>1. \A k \in chosen : came[k] \in SUBSET EnteredOn(Store, day) /\ went[k] \in SUBSET LeftOn(Store, day)
    BY <1>1, <1>2, <1>3
  <2>2. came \in [chosen -> SUBSET EnteredOn(Store, day)] /\ went \in [chosen -> SUBSET LeftOn(Store, day)]
    BY <2>1
  <2>3. f \in [chosen -> Int] /\ g \in [chosen -> Int]
    OBVIOUS
  <2> QED BY <2>2, <2>3
<1>5. \A k, l \in chosen : k # l => came[k] \cap came[l] = {} /\ went[k] \cap went[l] = {}
  <2> SUFFICES ASSUME NEW k \in chosen, NEW l \in chosen, k # l
               PROVE  came[k] \cap came[l] = {} /\ went[k] \cap went[l] = {}
    OBVIOUS
  <2>1. k[1] \in Cameras /\ l[1] \in Cameras /\ k[1] # l[1]
    BY <1>1
  <2>2. EnteredOn(k[1], day) \cap EnteredOn(l[1], day) = {}
    BY <2>1, EntryDisjoint
  <2>3. LeftOn(k[1], day) \subseteq EnteredOn(k[1], day) /\ LeftOn(l[1], day) \subseteq EnteredOn(l[1], day)
    BY <1>2, <2>1
  <2>4. /\ came[k] = EnteredOn(k[1], day) /\ went[k] = LeftOn(k[1], day)
        /\ came[l] = EnteredOn(l[1], day) /\ went[l] = LeftOn(l[1], day)
    BY <1>3
  <2> HIDE DEF came, went, chosen
  <2> QED BY <2>2, <2>3, <2>4
<1>6. \A k \in chosen : f[k] <= Cardinality(came[k]) /\ g[k] <= Cardinality(went[k])
  BY <1>3
<1>7. IsFiniteSet(EnteredOn(Store, day)) /\ IsFiniteSet(LeftOn(Store, day))
  BY EnteredIsFinite
<1>10. /\ \A k, l \in chosen : k # l => came[k] \cap came[l] = {}
       /\ \A k \in chosen : f[k] <= Cardinality(came[k])
  BY <1>5, <1>6
<1>11. /\ \A k, l \in chosen : k # l => went[k] \cap went[l] = {}
       /\ \A k \in chosen : g[k] <= Cardinality(went[k])
  BY <1>5, <1>6
<1> HIDE DEF came, went
<1>8. SumFunction(f) <= Cardinality(EnteredOn(Store, day))
  <2> HIDE DEF f, chosen
  <2> QED BY <1>1, <1>4, <1>7, <1>10, SumOfParts
<1>9. SumFunction(g) <= Cardinality(LeftOn(Store, day))
  <2> HIDE DEF g, chosen
  <2> QED BY <1>1, <1>4, <1>7, <1>11, SumOfParts
<1> QED BY <1>8, <1>9 DEF Covered, EntriesOf, ExitsOf

-----------------------------------------------------------------------------
(* The steps.                                                                *)

\* Tracks coming and going, and the clock, leave rows that only understate what the tracks say now.
LEMMA ChangesKeepRollup ==
    ASSUME RollupInv, TracksOK', UNCHANGED <<daily, part, key, todo, made>>,
           \A c, d : EnteredOn(c, d) \subseteq EnteredOn(c, d)' /\ LeftOn(c, d) \subseteq LeftOn(c, d)'
    PROVE  RollupInv'
<1>1. ASSUME NEW c, NEW d
      PROVE  /\ EnteredOn(c, d) # {} => EnteredOn(c, d)' # {}
             /\ Cardinality(EnteredOn(c, d)) \in Nat /\ Cardinality(EnteredOn(c, d)') \in Nat
             /\ Cardinality(LeftOn(c, d)) \in Nat /\ Cardinality(LeftOn(c, d)') \in Nat
             /\ Cardinality(EnteredOn(c, d)) <= Cardinality(EnteredOn(c, d)')
             /\ Cardinality(LeftOn(c, d)) <= Cardinality(LeftOn(c, d)')
  <2>1. PICK E, F, L, M : E = EnteredOn(c, d) /\ F = EnteredOn(c, d)' /\ L = LeftOn(c, d) /\ M = LeftOn(c, d)'
    OBVIOUS
  <2>2. IsFiniteSet(F) /\ IsFiniteSet(M)
    <3>1. PICK D : D = DOMAIN person_tracks'
      OBVIOUS
    <3>2. D = 1 .. Len(person_tracks') /\ Len(person_tracks') \in Nat
      BY <3>1 DEF TracksOK
    <3>3. IsFiniteSet(D)
      BY <3>2, FS_Interval
    <3>4. F \subseteq D /\ M \subseteq D
      BY <2>1, <3>1 DEF EnteredOn, LeftOn, Complete, Of
    <3> QED BY <3>3, <3>4, FS_Subset
  <2>3. E \subseteq F /\ L \subseteq M
    BY <2>1
  <2>4. Cardinality(E) \in Nat /\ Cardinality(F) \in Nat /\ Cardinality(E) <= Cardinality(F)
    BY <2>2, <2>3, FS_Subset, FS_CardinalityType
  <2>5. Cardinality(L) \in Nat /\ Cardinality(M) \in Nat /\ Cardinality(L) <= Cardinality(M)
    BY <2>2, <2>3, FS_Subset, FS_CardinalityType
  <2> QED BY <2>1, <2>3, <2>4, <2>5
<1>2. DailyOK'
  BY <1>1 DEF RollupInv, DailyOK
<1>3. MadeOK'
  <2> SUFFICES ASSUME NEW k \in DOMAIN made
               PROVE  /\ k \in Sources \X {key} /\ RowOK(made[k])
                      /\ k[1] # Store => /\ EnteredOn(k[1], key)' # {}
                                         /\ made[k].entries <= Cardinality(EnteredOn(k[1], key)')
                                         /\ made[k].exits <= Cardinality(LeftOn(k[1], key)')
    BY DEF MadeOK
  <2>1. /\ k \in Sources \X {key} /\ RowOK(made[k])
        /\ k[1] # Store => /\ EnteredOn(k[1], key) # {}
                           /\ made[k].entries <= Cardinality(EnteredOn(k[1], key))
                           /\ made[k].exits <= Cardinality(LeftOn(k[1], key))
    BY DEF RollupInv, MadeOK
  <2>2. PICK c, d : c = k[1] /\ d = key
    OBVIOUS
  <2>3. EnteredOn(k[1], key)' = EnteredOn(c, d)' /\ LeftOn(k[1], key)' = LeftOn(c, d)'
    BY <2>2
  <2> QED BY <1>1, <2>1, <2>2, <2>3 DEF RowOK
<1>4. PassOK'
  BY <1>1 DEF RollupInv, PassOK
<1>5. StoreOK'
  BY DEF RollupInv, StoreOK
<1> QED BY <1>2, <1>3, <1>4, <1>5 DEF RollupInv

\* An upsert sets one row and keeps the others.
LEMMA UpsertedIs ==
    ASSUME NEW table, NEW chosen
    PROVE  /\ DOMAIN Upserted(table, chosen) = DOMAIN table \cup DOMAIN chosen
           /\ \A k \in DOMAIN chosen : Upserted(table, chosen)[k] = chosen[k]
           /\ \A k \in DOMAIN table \ DOMAIN chosen : Upserted(table, chosen)[k] = table[k]
  BY DEF Upserted

\* What reads person_tracks and the clock stays when they do.
LEMMA SelectionsStay ==
    ASSUME UNCHANGED <<person_tracks, hour>>
    PROVE  /\ \A c, d : /\ EnteredOn(c, d)' = EnteredOn(c, d) /\ LeftOn(c, d)' = LeftOn(c, d)
                       /\ EnteredIn(c, d)' = EnteredIn(c, d) /\ LeftIn(c, d)' = LeftIn(c, d)
           /\ Today' = Today /\ UtcHour' = UtcHour
  BY DEF EnteredOn, LeftOn, EnteredIn, LeftIn, Complete, Of, Today, UtcHour

LEMMA TodayIsInt == ASSUME TracksOK PROVE Today \in Int
  BY RollupAssumption DEF TracksOK, Today, DayOf

\* The rows of an hour do not touch the rows of a day.
LEMMA HourKeeps ==
    ASSUME RollupInv, FreshOK, AggregateHour
    PROVE  RollupInv' /\ FreshOK'
<1>1. /\ part' = "day" /\ key' = Today /\ made' = Empty /\ changed' = FALSE
      /\ todo' = {c \in Cameras : EnteredOn(c, Today) # {}} \cup {Store}
      /\ UNCHANGED <<person_tracks, hour, daily, fresh, errors>>
  BY DEF AggregateHour
<1>2. /\ \A c, d : EnteredOn(c, d)' = EnteredOn(c, d) /\ LeftOn(c, d)' = LeftOn(c, d)
      /\ \A c, h : EnteredIn(c, h)' = EnteredIn(c, h) /\ LeftIn(c, h)' = LeftIn(c, h)
      /\ Today' = Today /\ UtcHour' = UtcHour
  BY <1>1, SelectionsStay
<1>3. TracksOK' /\ DailyOK' /\ StoreOK'
  BY <1>1, <1>2 DEF RollupInv, TracksOK, DailyOK, StoreOK
<1>4. MadeOK'
  BY <1>1 DEF MadeOK, Empty
<1>5. PassOK'
  BY <1>1, <1>2, TodayIsInt DEF PassOK, RollupInv, DailyOK, Sources
<1>6. HourExact'
  <2> SUFFICES ASSUME NEW c \in Cameras, EnteredIn(c, UtcHour) # {}
               PROVE  /\ <<c, UtcHour>> \in DOMAIN hourly'
                      /\ hourly'[<<c, UtcHour>>].entries = Cardinality(EnteredIn(c, UtcHour))
                      /\ hourly'[<<c, UtcHour>>].exits = Cardinality(LeftIn(c, UtcHour))
    BY <1>2 DEF HourExact
  <2> DEFINE keys == {<<d, UtcHour>> : d \in {d \in Cameras : EnteredIn(d, UtcHour) # {}}}
             chosen == [k \in keys |-> HourRow(k[1], k[2])]
  <2>1. hourly' = Upserted(hourly, chosen)
    BY DEF AggregateHour
  <2>2. PICK k : k = <<c, UtcHour>>
    OBVIOUS
  <2>3. k \in keys
    BY <2>2
  <2>4. chosen[k] = HourRow(c, UtcHour) /\ DOMAIN chosen = keys
    BY <2>2, <2>3
  <2>5. /\ HourRow(c, UtcHour).entries = Cardinality(EnteredIn(c, UtcHour))
        /\ HourRow(c, UtcHour).exits = Cardinality(LeftIn(c, UtcHour))
    BY DEF HourRow
  <2> HIDE DEF keys, chosen
  <2>6. k \in DOMAIN hourly' /\ hourly'[k] = chosen[k]
    BY <2>1, <2>3, <2>4, UpsertedIs
  <2> QED BY <2>2, <2>4, <2>5, <2>6
<1>7. FreshOK'
  <2>1. \A c \in Cameras : c \in todo' \/ EnteredOn(c, Today) = {}
    BY <1>1
  <2>2. \A c \in Cameras : fresh => DayExact(daily, c, Today)'
    BY <1>1, <1>2 DEF FreshOK, DayExact
  <2>3. key' = Today' /\ \A c \in Cameras : c \in todo' \/ DayExact(made, c, key)'
    BY <1>1, <1>2, <2>1 DEF DayExact
  <2> QED BY <1>1, <1>2, <1>6, <2>2, <2>3 DEF FreshOK
<1> QED BY <1>3, <1>4, <1>5, <1>7 DEF RollupInv

\* A row of the session is right when it is made, and the store's is made last.
LEMMA DayKeeps ==
    ASSUME RollupInv, FreshOK, NEW c \in Sources, ComputeDay(c)
    PROVE  RollupInv' /\ FreshOK'
<1>1. /\ part = "day" /\ c \in todo /\ (c = Store => todo = {Store})
      /\ todo' = todo \ {c}
      /\ UNCHANGED <<person_tracks, hour, hourly, daily, part, key, fresh, changed, errors>>
  BY DEF ComputeDay, NextRow
<1>2. PICK peak :
          made' = [l \in DOMAIN made \cup {<<c, key>>} |-> IF l = <<c, key>> THEN DayRow(c, key, peak) ELSE made[l]]
  BY DEF ComputeDay, With
<1>3. PICK row, k : row = DayRow(c, key, peak) /\ k = <<c, key>>
  OBVIOUS
<1>4. /\ RowOK(row) /\ row.entries = Cardinality(EnteredOn(c, key)) /\ row.exits = Cardinality(LeftOn(c, key))
  BY <1>3, RowIsOK DEF RollupInv
<1>5. /\ DOMAIN made' = DOMAIN made \cup {k} /\ made'[k] = row
      /\ \A l \in DOMAIN made : l # k => made'[l] = made[l]
  BY <1>2, <1>3
<1>6. /\ \A x, d : EnteredOn(x, d)' = EnteredOn(x, d) /\ LeftOn(x, d)' = LeftOn(x, d)
      /\ \A x, h : EnteredIn(x, h)' = EnteredIn(x, h) /\ LeftIn(x, h)' = LeftIn(x, h)
      /\ Today' = Today /\ UtcHour' = UtcHour
  BY <1>1, SelectionsStay
<1>7. TracksOK' /\ DailyOK' /\ StoreOK'
  BY <1>1, <1>6 DEF RollupInv, TracksOK, DailyOK, StoreOK
<1>8. Cardinality(EnteredOn(c, key)) \in Nat /\ Cardinality(LeftOn(c, key)) \in Nat
  BY EnteredIsFinite DEF RollupInv
<1>9. c # Store => EnteredOn(c, key) # {}
  BY <1>1 DEF RollupInv, PassOK
<1>10. MadeOK'
  <2> SUFFICES ASSUME NEW l \in DOMAIN made'
               PROVE  /\ l \in Sources \X {key} /\ RowOK(made'[l])
                      /\ l[1] # Store => /\ EnteredOn(l[1], key) # {}
                                         /\ made'[l].entries <= Cardinality(EnteredOn(l[1], key))
                                         /\ made'[l].exits <= Cardinality(LeftOn(l[1], key))
    BY <1>1, <1>6 DEF MadeOK
  <2>1. CASE l = k
    BY <1>3, <1>4, <1>5, <1>8, <1>9, <2>1
  <2>2. CASE l # k
    BY <1>5, <2>2 DEF RollupInv, MadeOK
  <2> QED BY <2>1, <2>2
<1>11. Store \in todo' \/ (todo' = {} /\ Covered(made', key))
  <2>1. CASE c # Store
    BY <1>1, <2>1 DEF RollupInv, PassOK
  <2>2. CASE c = Store
    <3>1. todo' = {} /\ k = <<Store, key>>
      BY <1>1, <1>3, <2>2
    <3>2. key \in Int
      BY DEF RollupInv, PassOK
    <3>3. PICK table, day : table = made' /\ day = key
      OBVIOUS
    <3>4. /\ <<Store, day>> \in DOMAIN table
          /\ table[<<Store, day>>].entries = Cardinality(EnteredOn(Store, day))
          /\ table[<<Store, day>>].exits = Cardinality(LeftOn(Store, day))
      BY <1>4, <1>5, <2>2, <3>1, <3>3
    <3>5. \A l \in DOMAIN table :
              /\ l \in Sources \X Int /\ RowOK(table[l])
              /\ l[1] # Store => /\ table[l].entries <= Cardinality(EnteredOn(l[1], day))
                                 /\ table[l].exits <= Cardinality(LeftOn(l[1], day))
      BY <1>1, <1>6, <1>10, <3>2, <3>3 DEF MadeOK
    <3>6. \A l \in CameraRows(table, day) :
              /\ table[l].entries \in Nat /\ table[l].entries <= Cardinality(EnteredOn(l[1], day))
              /\ table[l].exits \in Nat /\ table[l].exits <= Cardinality(LeftOn(l[1], day))
      BY <3>5 DEF CameraRows, RowOK
    <3>7. Covered(table, day)
      BY <3>2, <3>3, <3>4, <3>5, <3>6, LastCovers DEF RollupInv
    <3> QED BY <3>1, <3>3, <3>7
  <2> QED BY <2>1, <2>2
<1>12. PassOK'
  <2>1. \A x \in Cameras : <<x, key>> \in DOMAIN daily => x \in todo' \/ <<x, key>> \in DOMAIN made'
    BY <1>1, <1>3, <1>5 DEF RollupInv, PassOK
  <2>2. todo' \subseteq Sources /\ \A x \in todo' \ {Store} : EnteredOn(x, key)' # {}
    BY <1>1, <1>6 DEF RollupInv, PassOK
  <2> QED BY <1>1, <1>11, <2>1, <2>2 DEF RollupInv, PassOK
<1>13. FreshOK'
  <2>1. HourExact => HourExact'
    BY <1>1, <1>6 DEF HourExact
  <2>2. \A x \in Cameras : DayExact(daily, x, Today) => DayExact(daily, x, Today)'
    BY <1>1, <1>6 DEF DayExact
  <2>3. ASSUME NEW x \in Cameras, ~changed PROVE x \in todo' \/ DayExact(made, x, key)'
    <3>1. x \in todo \/ DayExact(made, x, key)
      BY <1>1, <2>3 DEF FreshOK
    <3>2. CASE x = c
      BY <1>1, <1>3, <1>4, <1>5, <1>6, <3>2 DEF DayExact
    <3>3. CASE x # c /\ x \in todo
      BY <1>1, <3>3
    <3>4. CASE x # c /\ DayExact(made, x, key)
      <4>1. <<x, key>> # k
        BY <1>3, <3>4
      <4> QED BY <1>1, <1>5, <1>6, <3>4, <4>1 DEF DayExact
    <3> QED BY <3>1, <3>2, <3>3, <3>4
  <2> QED BY <1>1, <1>6, <2>1, <2>2, <2>3 DEF FreshOK
<1> QED BY <1>7, <1>10, <1>12, <1>13 DEF RollupInv

\* What is committed replaces the row of every camera that somebody came to, so the store's row covers them all.
LEMMA CommitKeeps ==
    ASSUME RollupInv, FreshOK, CommitDay
    PROVE  RollupInv' /\ FreshOK'
<1>1. /\ part = "day" /\ todo = {} /\ daily' = Upserted(daily, made) /\ part' = "idle" /\ made' = Empty
      /\ fresh' = ~changed /\ UNCHANGED <<person_tracks, hour, hourly, key, todo, changed, errors>>
  BY DEF CommitDay
<1>2. PICK old, new, chosen, day : old = daily /\ new = daily' /\ chosen = made /\ day = key
  OBVIOUS
<1>3. /\ DOMAIN new = DOMAIN old \cup DOMAIN chosen
      /\ \A k \in DOMAIN chosen : new[k] = chosen[k]
      /\ \A k \in DOMAIN old \ DOMAIN chosen : new[k] = old[k]
  <2>1. /\ DOMAIN Upserted(daily, made) = DOMAIN daily \cup DOMAIN made
        /\ \A k \in DOMAIN made : Upserted(daily, made)[k] = made[k]
        /\ \A k \in DOMAIN daily \ DOMAIN made : Upserted(daily, made)[k] = daily[k]
    BY UpsertedIs
  <2> QED BY <1>1, <1>2, <2>1
<1>4. /\ \A x, d : EnteredOn(x, d)' = EnteredOn(x, d) /\ LeftOn(x, d)' = LeftOn(x, d)
      /\ \A x, h : EnteredIn(x, h)' = EnteredIn(x, h) /\ LeftIn(x, h)' = LeftIn(x, h)
      /\ Today' = Today /\ UtcHour' = UtcHour
  BY <1>1, SelectionsStay
<1>5. /\ day \in Int /\ Covered(chosen, day)
      /\ \A c \in Cameras : <<c, day>> \in DOMAIN old => <<c, day>> \in DOMAIN chosen
  BY <1>1, <1>2, RollupAssumption DEF RollupInv, PassOK
<1>6. \A k \in DOMAIN chosen :
          k \in Sources \X {day} /\ RowOK(chosen[k]) /\ (k[1] # Store => EnteredOn(k[1], k[2]) # {})
  BY <1>2 DEF RollupInv, MadeOK
<1>7. \A k \in DOMAIN old :
          k \in Sources \X Int /\ RowOK(old[k]) /\ (k[1] # Store => EnteredOn(k[1], k[2]) # {})
  BY <1>2 DEF RollupInv, DailyOK
<1>8. TracksOK' /\ MadeOK' /\ PassOK'
  BY <1>1 DEF RollupInv, TracksOK, MadeOK, PassOK, Empty
<1>9. DailyOK'
  <2>1. \A k \in DOMAIN new :
            k \in Sources \X Int /\ RowOK(new[k]) /\ (k[1] # Store => EnteredOn(k[1], k[2]) # {})
    BY <1>3, <1>5, <1>6, <1>7
  <2> QED BY <1>2, <1>4, <2>1 DEF DailyOK
<1>10. StoreOK'
  <2> SUFFICES ASSUME NEW d \in Int, CameraRows(new, d) # {} PROVE Covered(new, d)
    BY <1>2 DEF StoreOK
  <2>1. CASE d = day
    <3>1. CameraRows(new, d) = CameraRows(chosen, d)
      BY <1>3, <1>5, <1>7, <2>1 DEF CameraRows, Sources
    <3>2. PICK R : R = CameraRows(chosen, d) /\ \A k \in R : new[k] = chosen[k]
      BY <1>3 DEF CameraRows
    <3>3. EntriesOf(new, R) = EntriesOf(chosen, R) /\ ExitsOf(new, R) = ExitsOf(chosen, R)
      <4>1. [k \in R |-> new[k].entries] = [k \in R |-> chosen[k].entries]
        BY <3>2
      <4>2. [k \in R |-> new[k].exits] = [k \in R |-> chosen[k].exits]
        BY <3>2
      <4> QED BY <4>1, <4>2 DEF EntriesOf, ExitsOf
    <3>4. <<Store, d>> \in DOMAIN chosen
      BY <1>5, <2>1 DEF Covered
    <3> QED BY <1>3, <1>5, <2>1, <3>1, <3>2, <3>3, <3>4 DEF Covered
  <2>2. CASE d # day
    <3>1. CameraRows(new, d) = CameraRows(old, d)
      BY <1>3, <1>6, <2>2 DEF CameraRows
    <3>2. PICK R : R = CameraRows(old, d) /\ \A k \in R : new[k] = old[k]
      BY <1>3, <1>6, <2>2 DEF CameraRows
    <3>3. EntriesOf(new, R) = EntriesOf(old, R) /\ ExitsOf(new, R) = ExitsOf(old, R)
      <4>1. [k \in R |-> new[k].entries] = [k \in R |-> old[k].entries]
        BY <3>2
      <4>2. [k \in R |-> new[k].exits] = [k \in R |-> old[k].exits]
        BY <3>2
      <4> QED BY <4>1, <4>2 DEF EntriesOf, ExitsOf
    <3>4. Covered(old, d)
      BY <1>2, <3>1 DEF RollupInv, StoreOK
    <3>5. <<Store, d>> \notin DOMAIN chosen
      BY <1>6, <2>2
    <3>6. <<Store, d>> \in DOMAIN new /\ new[<<Store, d>>] = old[<<Store, d>>]
      BY <1>3, <3>4, <3>5 DEF Covered
    <3> QED BY <3>1, <3>2, <3>3, <3>4, <3>6 DEF Covered
  <2> QED BY <2>1, <2>2
<1>11. FreshOK'
  <2>1. HourExact => HourExact'
    BY <1>1, <1>4 DEF HourExact
  <2>2. ASSUME ~changed, NEW c \in Cameras PROVE DayExact(daily, c, Today)'
    <3>1. DayExact(chosen, c, day) /\ day = Today
      BY <1>1, <1>2, <2>2 DEF FreshOK
    <3>2. DayExact(new, c, day)
      BY <1>3, <3>1 DEF DayExact
    <3> QED BY <1>2, <1>4, <3>1, <3>2 DEF DayExact
  <2>3. ~changed => HourExact
    BY <1>1 DEF FreshOK
  <2>4. changed \in BOOLEAN
    BY DEF FreshOK
  <2> QED BY <1>1, <2>1, <2>2, <2>3, <2>4 DEF FreshOK
<1> QED BY <1>8, <1>9, <1>10, <1>11 DEF RollupInv

\* An error throws the session away.
LEMMA FailKeeps ==
    ASSUME RollupInv, FreshOK, Fail
    PROVE  RollupInv' /\ FreshOK'
<1>1. /\ part' = "idle" /\ made' = Empty
      /\ UNCHANGED <<person_tracks, hour, hourly, daily, key, fresh, changed>>
  BY DEF Fail, Ended
<1>2. /\ \A x, d : EnteredOn(x, d)' = EnteredOn(x, d) /\ LeftOn(x, d)' = LeftOn(x, d)
      /\ \A x, h : EnteredIn(x, h)' = EnteredIn(x, h) /\ LeftIn(x, h)' = LeftIn(x, h)
      /\ Today' = Today /\ UtcHour' = UtcHour
  BY <1>1, SelectionsStay
<1>3. TracksOK' /\ DailyOK' /\ StoreOK' /\ MadeOK' /\ PassOK'
  BY <1>1, <1>2 DEF RollupInv, TracksOK, DailyOK, StoreOK, MadeOK, PassOK, Empty
<1>4. HourExact => HourExact'
  BY <1>1, <1>2 DEF HourExact
<1>5. \A c \in Cameras : DayExact(daily, c, Today) => DayExact(daily, c, Today)'
  BY <1>1, <1>2 DEF DayExact
<1> QED BY <1>1, <1>3, <1>4, <1>5 DEF RollupInv, FreshOK

LEMMA RollupInitially == RollupInit => RollupInv /\ FreshOK
<1> SUFFICES ASSUME RollupInit PROVE RollupInv /\ FreshOK
  OBVIOUS
<1>1. hour \in Nat
  BY RollupAssumption DEF RollupInit
<1>2. TracksOK
  BY <1>1 DEF RollupInit, TracksOK
<1>3. DOMAIN daily = {} /\ DOMAIN made = {} /\ part = "idle" /\ key = 0 /\ ~fresh /\ {fresh, changed} \subseteq BOOLEAN
  BY DEF RollupInit, Empty
<1>4. DailyOK /\ MadeOK /\ PassOK
  BY <1>3 DEF DailyOK, MadeOK, PassOK
<1>5. StoreOK
  BY <1>3 DEF StoreOK, CameraRows
<1> QED BY <1>2, <1>3, <1>4, <1>5 DEF RollupInv, FreshOK

LEMMA RollupStep == RollupInv /\ FreshOK /\ [RollupNext]_rollupVars => RollupInv' /\ FreshOK'
<1> SUFFICES ASSUME RollupInv, FreshOK, [RollupNext]_rollupVars PROVE RollupInv' /\ FreshOK'
  OBVIOUS
<1>1. ASSUME Changes, UNCHANGED loop PROVE FreshOK'
  BY <1>1 DEF Changes, FreshOK
<1>2. CASE \/ \E c \in Cameras : Enter(c)
           \/ \E i \in DOMAIN person_tracks, d \in Dwells, visited \in SUBSET ZoneNames : Leave(i, d, visited)
  <2>1. Changes /\ UNCHANGED <<daily, part, key, todo, made>> /\ UNCHANGED loop
    BY <1>2 DEF Enter, Leave, loop
  <2>2. /\ TracksOK'
        /\ \A c, d : EnteredOn(c, d) \subseteq EnteredOn(c, d)' /\ LeftOn(c, d) \subseteq LeftOn(c, d)'
    BY <1>2, TracksGrow DEF RollupInv
  <2> QED BY <1>1, <2>1, <2>2, ChangesKeepRollup
<1>3. CASE Tick
  <2>1. /\ Changes /\ UNCHANGED <<daily, part, key, todo, made>> /\ UNCHANGED loop
        /\ hour' = hour + 1 /\ person_tracks' = person_tracks
    BY <1>3 DEF Tick, loop
  <2>2. TracksOK'
    BY <2>1 DEF RollupInv, TracksOK
  <2>3. \A c, d : EnteredOn(c, d) \subseteq EnteredOn(c, d)' /\ LeftOn(c, d) \subseteq LeftOn(c, d)'
    BY <2>1 DEF EnteredOn, LeftOn, Complete, Of
  <2> QED BY <1>1, <2>1, <2>2, <2>3, ChangesKeepRollup
<1>4. CASE Loop
  BY <1>4, HourKeeps, DayKeeps, CommitKeeps DEF Loop
<1>5. CASE Fail
  BY <1>5, FailKeeps
<1>6. CASE UNCHANGED rollupVars
  <2>1. UNCHANGED <<person_tracks, hour, hourly, daily, part, key, todo, made, fresh, changed>>
    BY <1>6 DEF rollupVars, loop
  <2>2. /\ \A x, d : EnteredOn(x, d)' = EnteredOn(x, d) /\ LeftOn(x, d)' = LeftOn(x, d)
        /\ \A x, h : EnteredIn(x, h)' = EnteredIn(x, h) /\ LeftIn(x, h)' = LeftIn(x, h)
        /\ Today' = Today /\ UtcHour' = UtcHour
    BY <2>1, SelectionsStay
  <2>3. TracksOK' /\ DailyOK' /\ StoreOK' /\ MadeOK' /\ PassOK'
    BY <2>1, <2>2 DEF RollupInv, TracksOK, DailyOK, StoreOK, MadeOK, PassOK
  <2>4. HourExact => HourExact'
    BY <2>1, <2>2 DEF HourExact
  <2>5. \A c \in Cameras : /\ DayExact(daily, c, Today) => DayExact(daily, c, Today)'
                           /\ DayExact(made, c, key) => DayExact(made, c, key)'
    BY <2>1, <2>2 DEF DayExact
  <2> QED BY <2>1, <2>2, <2>3, <2>4, <2>5 DEF RollupInv, FreshOK
<1> QED BY <1>2, <1>3, <1>4, <1>5, <1>6 DEF RollupNext

LEMMA RollupAlways == RollupSpec => [](RollupInv /\ FreshOK)
<1>1. RollupInv /\ FreshOK /\ [RollupNext]_rollupVars => (RollupInv /\ FreshOK)'
  BY RollupStep
<1> QED BY <1>1, RollupInitially, PTL DEF RollupSpec

\* The store's row of a day covers the rows of its cameras, for any cameras and hours, whatever comes
\* and goes while they are computed (aggregate_today).
THEOREM StoreAlwaysCovers == RollupSpec => []StoreCoversCameras
<1>1. RollupInv => StoreCoversCameras
  <2> SUFFICES ASSUME RollupInv, NEW day \in 0 .. DayOf(MaxHour), CameraRows(daily, day) # {}
               PROVE  /\ <<Store, day>> \in DOMAIN daily
                      /\ Entries(CameraRows(daily, day)) <= daily[<<Store, day>>].entries
                      /\ Exits(CameraRows(daily, day)) <= daily[<<Store, day>>].exits
    BY DEF StoreCoversCameras, CameraRows
  <2>1. Covered(daily, day)
    BY DEF RollupInv, StoreOK
  <2> QED BY <2>1 DEF Covered, EntriesOf, ExitsOf, Entries, Exits
<1> QED BY <1>1, RollupAlways, PTL

-----------------------------------------------------------------------------
(* The pages after an undisturbed pass.                                      *)

\* coalesce(max(..), 0) of one row.
LEMMA MaxOfTwo ==
    ASSUME NEW n \in Int
    PROVE  Max({0, n}) = IF n > 0 THEN n ELSE 0
<1> DEFINE m == IF n > 0 THEN n ELSE 0
<1>1. m \in {0, n} /\ \A y \in {0, n} : m >= y
  OBVIOUS
<1>2. \A x \in {0, n} : (\A y \in {0, n} : x >= y) => x = m
  OBVIOUS
<1> HIDE DEF m
<1>3. Max({0, n}) = m
  BY <1>1, <1>2 DEF Max
<1> QED BY <1>3 DEF m

\* sum(..) of one row.
LEMMA SumOfOne ==
    ASSUME NEW k, NEW f, f = [l \in {k} |-> f[k]], f[k] \in Int
    PROVE  SumFunction(f) = f[k]
<1>1. f \in [{k} -> Int]
  OBVIOUS
<1> QED BY <1>1, SumSingle

LEMMA WholeRate == ASSUME NEW e \in Nat, e > 0 PROVE (e * 100) \div e = 100
  OBVIOUS

\* The row of a camera that somebody came to today.
LEMMA PageOfRow ==
    ASSUME RollupInv, FreshOK, fresh, NEW c \in Cameras, EnteredOn(c, Today) # {}
    PROVE  /\ DailyRows(c, {Today}) = {<<c, Today>>}
           /\ Entries({<<c, Today>>}) = Cardinality(EnteredOn(c, Today))
           /\ Exits({<<c, Today>>}) = Cardinality(LeftOn(c, Today))
           /\ Summary(c, {Today}).unique_visitors = Cardinality(EnteredOn(c, Today))
           /\ Summary(c, {Today}).peak_count <= Cardinality(EnteredOn(c, Today))
<1>1. PICK k : k = <<c, Today>>
  OBVIOUS
<1>2. /\ k \in DOMAIN daily /\ daily[k].entries = Cardinality(EnteredOn(c, Today))
      /\ daily[k].exits = Cardinality(LeftOn(c, Today))
  BY <1>1 DEF FreshOK, DayExact
<1>3. RowOK(daily[k])
  BY <1>2 DEF RollupInv, DailyOK
<1>4. DailyRows(c, {Today}) = {k}
  BY <1>1, <1>2, RollupAssumption DEF DailyRows, RollupInv, DailyOK
<1>5. Entries({k}) = daily[k].entries
  <2> DEFINE f == [l \in {k} |-> daily[l].entries]
  <2>1. f[k] = daily[k].entries /\ f = [l \in {k} |-> f[k]] /\ f[k] \in Int
    BY <1>3 DEF RowOK
  <2> HIDE DEF f
  <2>2. SumFunction(f) = f[k]
    BY <2>1, SumOfOne
  <2> QED BY <2>1, <2>2 DEF f, Entries
<1>6. Exits({k}) = daily[k].exits
  <2> DEFINE f == [l \in {k} |-> daily[l].exits]
  <2>1. f[k] = daily[k].exits /\ f = [l \in {k} |-> f[k]] /\ f[k] \in Int
    BY <1>3 DEF RowOK
  <2> HIDE DEF f
  <2>2. SumFunction(f) = f[k]
    BY <2>1, SumOfOne
  <2> QED BY <2>1, <2>2 DEF f, Exits
<1>7. Summary(c, {Today}).unique_visitors = daily[k].entries
  <2> DEFINE f == [l \in {k} |-> daily[l].visitors]
  <2>1. f[k] = daily[k].entries /\ f = [l \in {k} |-> f[k]] /\ f[k] \in Int
    BY <1>3 DEF RowOK
  <2>2. Summary(c, {Today}).unique_visitors = SumFunction(f)
    BY <1>4 DEF Summary
  <2> HIDE DEF f
  <2>3. SumFunction(f) = f[k]
    BY <2>1, SumOfOne
  <2> QED BY <2>1, <2>2, <2>3
<1>8. Summary(c, {Today}).peak_count = Max({0, daily[k].peak_count})
  <2>1. {0} \cup {daily[l].peak_count : l \in {k}} = {0, daily[k].peak_count}
    OBVIOUS
  <2>2. Summary(c, {Today}).peak_count = Max({0} \cup {daily[l].peak_count : l \in {k}})
    BY <1>4 DEF Summary
  <2> QED BY <2>1, <2>2
<1>9. Max({0, daily[k].peak_count}) <= daily[k].entries
  BY <1>3, MaxOfTwo DEF RowOK
<1> QED BY <1>1, <1>2, <1>4, <1>5, <1>6, <1>7, <1>8, <1>9

\* A camera that nobody came to today has no row.
LEMMA PageOfNoRow ==
    ASSUME RollupInv, NEW c \in Cameras, EnteredOn(c, Today) = {}
    PROVE  /\ DailyRows(c, {Today}) = {} /\ LeftOn(c, Today) = {}
           /\ Entries({}) = 0 /\ Exits({}) = 0
           /\ Summary(c, {Today}).unique_visitors = 0 /\ Summary(c, {Today}).peak_count = 0
<1>1. DailyRows(c, {Today}) = {}
  BY RollupAssumption DEF DailyRows, RollupInv, DailyOK
<1>2. LeftOn(c, Today) = {}
  BY DEF LeftOn, Complete
<1>3. Entries({}) = 0 /\ Exits({}) = 0 /\ SumFunction([l \in {} |-> daily[l].visitors]) = 0
  BY SumEmpty DEF Entries, Exits
<1>4. Summary(c, {Today}).unique_visitors = 0
  BY <1>1, <1>3 DEF Summary
<1>5. Summary(c, {Today}).peak_count = 0
  <2>1. {0} \cup {daily[l].peak_count : l \in {}} = {0, 0}
    OBVIOUS
  <2>2. Summary(c, {Today}).peak_count = Max({0} \cup {daily[l].peak_count : l \in {}})
    BY <1>1 DEF Summary
  <2>3. Max({0, 0}) = 0
    <3>1. 0 \in Nat /\ 0 <= 0
      OBVIOUS
    <3> QED BY <3>1, MaxOfTwo
  <2> QED BY <2>1, <2>2, <2>3
<1> QED BY <1>1, <1>2, <1>3, <1>4, <1>5

\* An interval of numbers is as large as its bounds say.
LEMMA UpTo ==
    ASSUME NEW a \in {0, 1}, NEW n \in Nat
    PROVE  IsFiniteSet(a .. n) /\ (a = 1 => Cardinality(a .. n) = n)
<1>1. IsFiniteSet(a .. n)
  BY FS_Interval
<1>2. Cardinality(a .. n) = IF a > n THEN 0 ELSE n - a + 1
  BY FS_Interval
<1> QED BY <1>1, <1>2

\* Every completed track is in one bucket of dwell times.
LEMMA DwellsAddUp ==
    ASSUME TracksOK, NEW c, NEW day
    PROVE  SumFunction(DwellDistribution(c, day)) = Cardinality(LeftOn(c, day))
<1> DEFINE A == LeftOn(c, day)
           D == 0 .. Len(Bounds)
           bucket == [i \in A |-> Bucket(person_tracks[i].dwell)]
<1>1. IsFiniteSet(A)
  BY EnteredIsFinite
<1>2. Len(Bounds) = 5 /\ DOMAIN Bounds = 1 .. 5
  BY DEF Bounds
<1>3. IsFiniteSet(D)
  <2>1. D = 0 .. 5
    BY <1>2
  <2>2. IsFiniteSet(0 .. 5)
    BY UpTo
  <2> QED BY <2>1, <2>2
<1>4. \A d : Bucket(d) \in D
  <2> SUFFICES ASSUME NEW d PROVE Bucket(d) \in D
    OBVIOUS
  <2> DEFINE B == {b \in DOMAIN Bounds : d >= Bounds[b]}
  <2>1. B \subseteq 1 .. 5
    BY <1>2
  <2>4. IsFiniteSet(1 .. 5) /\ Cardinality(1 .. 5) = 5
    BY UpTo
  <2>2. Bucket(d) = Cardinality(B)
    BY DEF Bucket
  <2> HIDE DEF B
  <2>3. Cardinality(B) \in Nat /\ Cardinality(B) <= 5
    BY <2>1, <2>4, FS_Subset, FS_CardinalityType
  <2> QED BY <1>2, <2>2, <2>3
<1>5. bucket \in [A -> D]
  BY <1>4
<1>6. DwellDistribution(c, day) = [b \in D |-> Cardinality({i \in A : bucket[i] = b})]
  BY DEF DwellDistribution
<1> HIDE DEF A, D, bucket
<1>7. SumFunction([b \in D |-> Cardinality({i \in A : bucket[i] = b})]) = Cardinality(A)
  BY <1>1, <1>3, <1>5, SumCounts
<1> QED BY <1>6, <1>7 DEF A

\* Nobody is counted twice among those who came and are still there.
LEMMA StillThere ==
    ASSUME TracksOK, NEW c, NEW day
    PROVE  Cardinality({i \in EnteredOn(c, day) : person_tracks[i].exit = Null})
               = Cardinality(EnteredOn(c, day)) - Cardinality(LeftOn(c, day))
<1> DEFINE E == EnteredOn(c, day)
           L == LeftOn(c, day)
           S == {i \in E : person_tracks[i].exit = Null}
<1>1. L \subseteq E /\ IsFiniteSet(E) /\ IsFiniteSet(L)
  BY EnteredIsFinite
<1>2. S \subseteq E /\ S \cup L = E /\ S \cap L = {}
  BY DEF LeftOn, Complete
<1> HIDE DEF E, L, S
<1>3. IsFiniteSet(S) /\ Cardinality(S \cap L) = 0
  BY <1>1, <1>2, FS_Subset, FS_EmptySet
<1>4. Cardinality(S \cup L) = Cardinality(S) + Cardinality(L) - Cardinality(S \cap L)
  BY <1>1, <1>3, FS_Union
<1>5. Cardinality(S) \in Nat /\ Cardinality(L) \in Nat /\ Cardinality(E) \in Nat
  BY <1>1, <1>3, FS_CardinalityType
<1>6. Cardinality(S) = Cardinality(E) - Cardinality(L)
  BY <1>2, <1>3, <1>4, <1>5
<1> QED BY <1>6 DEF E, L, S

\* The numbers of the tracks, as every page gives them.
LEMMA PagesAreExact ==
    ASSUME RollupInv, FreshOK, fresh, NEW c \in Cameras
    PROVE  /\ Summary(c, {Today}).total_entries = Cardinality(EnteredOn(c, Today))
           /\ Summary(c, {Today}).total_exits = Cardinality(LeftOn(c, Today))
           /\ Summary(c, {Today}).unique_visitors = Cardinality(EnteredOn(c, Today))
           /\ Summary(c, {Today}).peak_count <= Cardinality(EnteredOn(c, Today))
           /\ LiveCount(c) = Cardinality({i \in EnteredOn(c, Today) : person_tracks[i].exit = Null})
           /\ Report(c, "daily").entries = Cardinality(EnteredOn(c, Today))
<1> DEFINE E == Cardinality(EnteredOn(c, Today))
           L == Cardinality(LeftOn(c, Today))
           chosen == DailyRows(c, {Today})
<1>1. E \in Nat /\ L \in Nat /\ L <= E
  BY EnteredIsFinite DEF RollupInv
<1>2. /\ Entries(chosen) = E /\ Exits(chosen) = L
      /\ Summary(c, {Today}).unique_visitors = E /\ Summary(c, {Today}).peak_count <= E
  <2>1. CASE EnteredOn(c, Today) # {}
    BY <2>1, PageOfRow
  <2>2. CASE EnteredOn(c, Today) = {}
    <3>1. E = 0 /\ L = 0
      BY <2>2, PageOfNoRow, FS_EmptySet
    <3> HIDE DEF E, L
    <3> QED BY <2>2, <3>1, PageOfNoRow
  <2> QED BY <2>1, <2>2
<1>3. Summary(c, {Today}).total_entries = Entries(chosen) /\ Summary(c, {Today}).total_exits = Exits(chosen)
  BY DEF Summary
<1>4. LiveCount(c) = Max({0, E - L})
  BY <1>2 DEF LiveCount
<1>5. Cardinality({i \in EnteredOn(c, Today) : person_tracks[i].exit = Null}) = E - L
  BY StillThere DEF RollupInv
<1>6. Max({0, E - L}) = E - L
  <2> HIDE DEF E, L
  <2>1. E - L \in Int /\ E - L >= 0
    BY <1>1
  <2> QED BY <2>1, MaxOfTwo
<1>7. Report(c, "daily").entries = Entries(chosen)
  <2>1. Today \in Int
    BY TodayIsInt DEF RollupInv
  <2>2. DaysBack["daily"] = 0
    BY DEF DaysBack
  <2>3. Today - DaysBack["daily"] .. Today = {Today}
    BY <2>1, <2>2
  <2>4. ReportRows(c, "daily") = chosen
    BY <2>3 DEF ReportRows
  <2> QED BY <2>4 DEF Report
<1> QED BY <1>2, <1>3, <1>4, <1>5, <1>6, <1>7

\* After a whole pass in which nothing changed the pages of a camera agree with the tracks and with
\* each other, for any tracks, hours and offset of the clock (_compute_daily, get_summary and the rest).
THEOREM PagesAlwaysAgree == RollupSpec => []PagesAgree
<1>1. RollupInv /\ FreshOK => PagesAgree
  <2> SUFFICES ASSUME RollupInv, FreshOK, fresh, NEW c \in Cameras
               PROVE  LET page == Summary(c, {Today})
                          entered == EnteredOn(c, Today)
                      IN  /\ page.total_entries = Cardinality(entered) /\ page.unique_visitors = page.total_entries
                          /\ LiveCount(c) = Cardinality({i \in entered : person_tracks[i].exit = Null})
                          /\ page.total_exits = SumFunction(DwellDistribution(c, Today))
                          /\ page.total_exits = Conversion(c, Today).entered
                          /\ \A z \in ZoneNames : ZoneDistribution(c, Today)[z] <= page.total_exits
                          /\ Report(c, "daily").entries = page.total_entries
                          /\ page.peak_count <= page.total_entries
                          /\ \A p \in ConversionTrend(c, 1) : p.rate \in {0, 100}
                          /\ EnteredIn(c, UtcHour) # {} =>
                                 \E k \in HourlyTraffic(c, DayOf(UtcHour)) :
                                     /\ k[2] = UtcHour /\ hourly[k].entries = Cardinality(EnteredIn(c, UtcHour))
                                     /\ hourly[k].exits = Cardinality(LeftIn(c, UtcHour))
    BY DEF PagesAgree
  <2>1. TracksOK
    BY DEF RollupInv
  <2>2. SumFunction(DwellDistribution(c, Today)) = Cardinality(LeftOn(c, Today))
    BY <2>1, DwellsAddUp
  <2>3. Conversion(c, Today).entered = Cardinality(LeftOn(c, Today))
    BY DEF Conversion
  <2>4. \A z \in ZoneNames : ZoneDistribution(c, Today)[z] <= Cardinality(LeftOn(c, Today))
    <3> SUFFICES ASSUME NEW z \in ZoneNames
                 PROVE  ZoneDistribution(c, Today)[z] <= Cardinality(LeftOn(c, Today))
      OBVIOUS
    <3> DEFINE L == LeftOn(c, Today)
               Z == {i \in L : z \in person_tracks[i].zones}
    <3>1. ZoneDistribution(c, Today)[z] = Cardinality(Z)
      BY DEF ZoneDistribution
    <3>2. Z \subseteq L /\ IsFiniteSet(L)
      BY <2>1, EnteredIsFinite
    <3> HIDE DEF L, Z
    <3>3. Cardinality(Z) <= Cardinality(L)
      BY <3>2, FS_Subset
    <3> QED BY <3>1, <3>3 DEF L
  <2>5. \A p \in ConversionTrend(c, 1) : p.rate \in {0, 100}
    <3> SUFFICES ASSUME NEW k \in DailyTraffic(c, 1) PROVE Rate(k) \in {0, 100}
      BY DEF ConversionTrend
    <3>1. RowOK(daily[k])
      BY DEF DailyTraffic, DailyRows, RollupInv, DailyOK
    <3>2. PICK e \in Nat : e = daily[k].entries /\ e = daily[k].visitors
      BY <3>1 DEF RowOK
    <3> QED BY <3>2, WholeRate DEF Rate
  <2>6. EnteredIn(c, UtcHour) # {} =>
            \E k \in HourlyTraffic(c, DayOf(UtcHour)) :
                /\ k[2] = UtcHour /\ hourly[k].entries = Cardinality(EnteredIn(c, UtcHour))
                /\ hourly[k].exits = Cardinality(LeftIn(c, UtcHour))
    <3> SUFFICES ASSUME EnteredIn(c, UtcHour) # {}
                 PROVE  \E k \in HourlyTraffic(c, DayOf(UtcHour)) :
                            /\ k[2] = UtcHour /\ hourly[k].entries = Cardinality(EnteredIn(c, UtcHour))
                            /\ hourly[k].exits = Cardinality(LeftIn(c, UtcHour))
      OBVIOUS
    <3>1. PICK k : k = <<c, UtcHour>>
      OBVIOUS
    <3>2. /\ k \in DOMAIN hourly /\ hourly[k].entries = Cardinality(EnteredIn(c, UtcHour))
          /\ hourly[k].exits = Cardinality(LeftIn(c, UtcHour))
      BY <3>1 DEF FreshOK, HourExact
    <3>3. k[1] = c /\ k[2] = UtcHour
      BY <3>1
    <3>4. k \in HourlyTraffic(c, DayOf(UtcHour))
      BY <3>2, <3>3 DEF HourlyTraffic
    <3> QED BY <3>2, <3>3, <3>4
  <2> QED BY <2>2, <2>3, <2>4, <2>5, <2>6, PagesAreExact
<1> QED BY <1>1, RollupAlways, PTL
=============================================================================
