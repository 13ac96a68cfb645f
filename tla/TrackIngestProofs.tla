---------------------------- MODULE TrackIngestProofs ----------------------------
(***************************************************************************)
(* Theorems about TrackIngest for all zones, retries, page limits and      *)
(* numbers of faults and restarts: while nothing fails the tables are      *)
(* exact, what is posted is filed under its own visit, a visit whose end   *)
(* was answered is complete, and the first page of the history misses no   *)
(* newest entry.  That the posts of a frame end stays with TLC.            *)
(***************************************************************************)
EXTENDS TrackIngest, SequenceTheorems, FiniteSetTheorems, TLAPS

-----------------------------------------------------------------------------
(* The posts of a frame, in the order of the loop.                         *)

StartPost == [kind : {"start"}, visit : Visits, id : TrackIds, at : Nat]
EndPost == [kind : {"end"}, visit : Visits, id : TrackIds, zones : SUBSET Zones, at : Nat]
CrossingPost == [kind : {"cross"}, visit : Visits, id : TrackIds, zone : Zones, at : Nat]
HeatPost == [kind : {"heat"}, count : Nat, at : Nat]
Post == StartPost \cup EndPost \cup CrossingPost \cup HeatPost

Order == [start |-> 1, end |-> 2, cross |-> 3, heat |-> 4]

InOrder(p) == \A i, j \in DOMAIN p : i < j => Order[p[i].kind] < Order[p[j].kind]
Members(p) == {p[i] : i \in DOMAIN p}

-----------------------------------------------------------------------------
(* The invariant.                                                          *)

Row == [visit : Visits, entry : Nat, exit : Nat \cup {None}, zones : SUBSET Zones, by : Visits \cup {None}]
Event == [post : Post, row : Nat \cup {None}, copy : Nat]

IngestTypes ==
    /\ next_id \in Nat /\ following \in [Visits -> (SUBSET Zones) \cup {None}] /\ grid \in Nat
    /\ posts \in Seq(Post) /\ attempts \in Nat /\ late \subseteq Post \X Nat
    /\ active \in [TrackIds -> Nat \cup {None}] /\ rows \in Seq(Row)
    /\ events \subseteq Event /\ IsFiniteSet(events) /\ cells \in Nat
    /\ id_of \in Seq(TrackIds) /\ seen \in Nat /\ answered \subseteq Visits /\ intact \subseteq Visits
    /\ clean \in BOOLEAN /\ {frames, faults, restarts} \subseteq Nat

\* The visits of the pipeline that runs now: the last next_id of them, numbered from 1.
Current(n, ids) == {v \in DOMAIN ids : v > Len(ids) - n}

Numbered ==
    /\ next_id <= Len(id_of) /\ Len(id_of) <= MaxVisits
    /\ \A v \in Current(next_id, id_of) : id_of[v] = v - (Len(id_of) - next_id)

\* A post or a late request is about a visit of this pipeline, under its track id.
Owned(m) ==
    /\ m \in Post /\ m.at < frames
    /\ m.kind # "heat" => m.visit \in Current(next_id, id_of) /\ m.id = id_of[m.visit]

PostsOwned ==
    /\ InOrder(posts) /\ \A m \in Members(posts) : Owned(m)
    /\ \A request \in late : Owned(request[1])
    /\ \A v \in Followed : v \in Current(next_id, id_of)

RowsOfVisits ==
    /\ \A r \in DOMAIN rows : rows[r].visit \in DOMAIN id_of
    /\ \A e \in events : e.post.at < frames
    /\ intact \subseteq DOMAIN id_of

\* What the backend calls active under the id of a visit is a row of that visit, or none.
Reaches(v) == active[id_of[v]] \in Rows(v)
HasEnd(v) == \E r \in Rows(v) : IsComplete(r)

ActiveIsOwn ==
    /\ \A v \in Current(next_id, id_of) : Rows(v) # {} => Reaches(v) \/ active[id_of[v]] \in {None, 0}
    /\ \A v \in Current(next_id, id_of) \cap intact : HasEnd(v) \/ Reaches(v)
    /\ \A v \in answered : HasEnd(v)

IngestInv == IngestTypes /\ Numbered /\ PostsOwned /\ RowsOfVisits /\ ActiveIsOwn

-----------------------------------------------------------------------------
(* While nothing goes wrong.                                               *)

Starts(v) == \E m \in Members(posts) : m.kind = "start" /\ m.visit = v
Ends(v) == \E m \in Members(posts) : m.kind = "end" /\ m.visit = v

\* A visit has no row until its start is posted, then one, complete once its end is posted.
VisitExact(v) ==
    \/ Starts(v) /\ Rows(v) = {}
    \/ /\ ~Starts(v)
       /\ \E r \in DOMAIN rows :
             /\ Rows(v) = {r} /\ (IsComplete(r) <=> v \notin Followed /\ ~Ends(v))
             /\ IsComplete(r) \/ active[id_of[v]] = r

PostExact(m) ==
    /\ m.kind \in {"start", "cross"} => m.visit \in Followed
    /\ m.kind = "end" => m.visit \notin Followed
    /\ m.kind = "cross" => \A e \in events : e.post # m
    /\ m.kind = "heat" => cells + grid + m.count = seen

ExactSoFar ==
    /\ late = {} /\ next_id = Len(id_of)
    /\ \A m \in Members(posts) : PostExact(m)
    /\ \A v \in DOMAIN id_of : VisitExact(v)
    /\ \A e \in events : e.copy = 0 /\ e.row \in Rows(e.post.visit)
    /\ (\A m \in Members(posts) : m.kind # "heat") => cells + grid = seen

CleanInv == clean => ExactSoFar

-----------------------------------------------------------------------------
(* Sequences of posts.                                                     *)

LEMMA PostKinds ==
    ASSUME NEW m \in Post
    PROVE  /\ m.at \in Nat /\ Order[m.kind] \in 1 .. 4
           /\ m.kind = "start" => m \in StartPost
           /\ m.kind = "end" => m \in EndPost
           /\ m.kind = "cross" => m \in CrossingPost
           /\ m.kind = "heat" => m \in HeatPost
           /\ m.kind \in {"start", "end", "cross", "heat"}
           /\ m.kind # "heat" => m.visit \in Visits /\ m.id \in TrackIds
BY DEF Post, StartPost, EndPost, CrossingPost, HeatPost, Order

\* The first post is tried, the others stay in order.
LEMMA HeadAndTail ==
    ASSUME NEW p \in Seq(Post), p # <<>>, InOrder(p)
    PROVE  /\ Head(p) \in Post /\ Tail(p) \in Seq(Post) /\ InOrder(Tail(p))
           /\ Members(p) = {Head(p)} \cup Members(Tail(p))
           /\ \A m \in Members(Tail(p)) : Order[Head(p).kind] < Order[m.kind]
<1> DEFINE t == Tail(p)
<1>1. /\ Head(p) \in Post /\ t \in Seq(Post) /\ Len(t) = Len(p) - 1
      /\ \A i \in 1 .. Len(t) : t[i] = p[i + 1]
  BY HeadTailProperties
<1>2. Len(p) \in Nat \ {0} /\ DOMAIN p = 1 .. Len(p) /\ DOMAIN t = 1 .. Len(t) /\ Head(p) = p[1]
  BY <1>1, EmptySeq, LenProperties
<1> HIDE DEF t
<1>3. InOrder(t)
  <2> SUFFICES ASSUME NEW i \in DOMAIN t, NEW j \in DOMAIN t, i < j
               PROVE  Order[t[i].kind] < Order[t[j].kind]
    BY DEF InOrder
  <2>1. i + 1 \in DOMAIN p /\ j + 1 \in DOMAIN p /\ i + 1 < j + 1 /\ t[i] = p[i + 1] /\ t[j] = p[j + 1]
    BY <1>1, <1>2
  <2> QED BY <2>1 DEF InOrder
<1>4. \A m \in Members(t) : m \in Members(p) /\ Order[Head(p).kind] < Order[m.kind]
  <2> SUFFICES ASSUME NEW i \in DOMAIN t PROVE t[i] \in Members(p) /\ Order[p[1].kind] < Order[t[i].kind]
    BY <1>2 DEF Members
  <2>1. 1 \in DOMAIN p /\ i + 1 \in DOMAIN p /\ 1 < i + 1 /\ t[i] = p[i + 1]
    BY <1>1, <1>2
  <2> QED BY <2>1 DEF InOrder, Members
<1>5. \A m \in Members(p) : m = Head(p) \/ m \in Members(t)
  <2> SUFFICES ASSUME NEW i \in DOMAIN p, i # 1 PROVE p[i] \in Members(t)
    BY <1>2 DEF Members
  <2>1. i - 1 \in DOMAIN t /\ t[i - 1] = p[i]
    BY <1>1, <1>2
  <2> QED BY <2>1 DEF Members
<1>6. Head(p) \in Members(p)
  BY <1>2 DEF Members
<1> QED BY <1>1, <1>3, <1>4, <1>5, <1>6 DEF t

\* In a sequence in order no two posts are of one kind.
LEMMA OneOfAKind ==
    ASSUME NEW p \in Seq(Post), InOrder(p), NEW m \in Members(p), NEW n \in Members(p), m.kind = n.kind
    PROVE  m = n
<1>1. PICK i \in DOMAIN p : m = p[i]
  BY DEF Members
<1>2. PICK j \in DOMAIN p : n = p[j]
  BY DEF Members
<1>3. i \in Nat /\ j \in Nat /\ m \in Post /\ n \in Post
  BY <1>1, <1>2, LenProperties, ElementOfSeq
<1>4. Order[m.kind] \in Nat
  BY <1>3, PostKinds
<1>5. ~(i < j) /\ ~(j < i)
  BY <1>1, <1>2, <1>4 DEF InOrder
<1> QED BY <1>1, <1>2, <1>3, <1>5

\* A later kind of post is put at the end.
LEMMA OneMore ==
    ASSUME NEW p \in Seq(Post), InOrder(p), NEW x \in Post,
           \A m \in Members(p) : Order[m.kind] < Order[x.kind]
    PROVE  /\ p \o <<x>> \in Seq(Post) /\ InOrder(p \o <<x>>)
           /\ Members(p \o <<x>>) = Members(p) \cup {x}
<1> DEFINE q == p \o <<x>>
<1>1. <<x>> \in Seq(Post) /\ Len(<<x>>) = 1 /\ <<x>>[1] = x
  OBVIOUS
<1>2. /\ q \in Seq(Post) /\ Len(q) = Len(p) + Len(<<x>>)
      /\ \A i \in 1 .. Len(p) + Len(<<x>>) : q[i] = IF i <= Len(p) THEN p[i] ELSE <<x>>[i - Len(p)]
  BY <1>1, ConcatProperties
<1>3. Len(p) \in Nat /\ DOMAIN p = 1 .. Len(p) /\ DOMAIN q = 1 .. Len(q)
  BY <1>2, LenProperties
<1> HIDE DEF q
<1>4. /\ DOMAIN q = DOMAIN p \cup {Len(p) + 1} /\ q[Len(p) + 1] = x
      /\ \A i \in DOMAIN p : q[i] = p[i] /\ i < Len(p) + 1
  <2>1. q[Len(p) + 1] = <<x>>[1]
    BY <1>1, <1>2, <1>3
  <2> QED BY <1>1, <1>2, <1>3, <2>1
<1>5. Members(q) = Members(p) \cup {x}
  BY <1>4 DEF Members
<1>6. InOrder(q)
  <2> SUFFICES ASSUME NEW i \in DOMAIN q, NEW j \in DOMAIN q, i < j
               PROVE  Order[q[i].kind] < Order[q[j].kind]
    BY DEF InOrder
  <2>1. i \in DOMAIN p
    BY <1>2, <1>3, <1>4
  <2>2. CASE j \in DOMAIN p
    BY <1>4, <2>1, <2>2 DEF InOrder
  <2>3. CASE j = Len(p) + 1
    BY <1>4, <2>1, <2>3 DEF Members
  <2> QED BY <1>4, <2>2, <2>3
<1> QED BY <1>2, <1>5, <1>6 DEF q

\* Who and what the posts of a frame are about.
InFrame(m, new, gone, cross, batch) ==
    \/ new /\ m = Start(New, next_id + 1, frames)
    \/ gone # None /\ m = End(gone, id_of[gone], following[gone], frames)
    \/ cross # None /\ m = Crossing(cross.visit, IdIn(cross.visit), cross.zone, frames)
    \/ batch > 0 /\ m = Heat(batch, frames)

LEMMA KindOf ==
    ASSUME NEW v, NEW t, NEW z, NEW n, NEW a
    PROVE  /\ Start(v, t, a).kind = "start" /\ End(v, t, z, a).kind = "end"
           /\ Crossing(v, t, z, a).kind = "cross" /\ Heat(n, a).kind = "heat"
BY DEF Start, End, Crossing, Heat

LEMMA FramePostsAre ==
    ASSUME NEW new \in BOOLEAN, NEW gone, NEW cross, NEW batch,
           \A m : InFrame(m, new, gone, cross, batch) => m \in Post
    PROVE  /\ FramePosts(new, gone, cross, batch) \in Seq(Post)
           /\ InOrder(FramePosts(new, gone, cross, batch))
           /\ \A m : m \in Members(FramePosts(new, gone, cross, batch)) <=> InFrame(m, new, gone, cross, batch)
<1> DEFINE s == Start(New, next_id + 1, frames)
           e == End(gone, id_of[gone], following[gone], frames)
           c == Crossing(cross.visit, IdIn(cross.visit), cross.zone, frames)
           h == Heat(batch, frames)
           A == IF new THEN <<s>> ELSE <<>>
           B == A \o (IF gone # None THEN <<e>> ELSE <<>>)
           C == B \o (IF cross # None THEN <<c>> ELSE <<>>)
           D == C \o (IF batch > 0 THEN <<h>> ELSE <<>>)
<1>1. s.kind = "start" /\ e.kind = "end" /\ c.kind = "cross" /\ h.kind = "heat"
  BY KindOf
<1>2. FramePosts(new, gone, cross, batch) = D
  BY DEF FramePosts
<1>3. \A m : InFrame(m, new, gone, cross, batch) <=>
        (new /\ m = s) \/ (gone # None /\ m = e) \/ (cross # None /\ m = c) \/ (batch > 0 /\ m = h)
  BY DEF InFrame
<1>4. /\ new => s \in Post
      /\ gone # None => e \in Post
      /\ cross # None => c \in Post
      /\ batch > 0 => h \in Post
  BY <1>3
<1> HIDE DEF s, e, c, h
<1>5. A \in Seq(Post) /\ InOrder(A) /\ \A m : m \in Members(A) <=> new /\ m = s
  <2>1. CASE new
    BY <1>4, <2>1 DEF InOrder, Members
  <2>2. CASE ~new
    BY <2>2 DEF InOrder, Members
  <2> QED BY <2>1, <2>2
<1> HIDE DEF A
<1>6. B \in Seq(Post) /\ InOrder(B) /\ \A m : m \in Members(B) <=> (new /\ m = s) \/ (gone # None /\ m = e)
  <2>1. CASE gone # None
    <3>1. \A m \in Members(A) : Order[m.kind] < Order[e.kind]
      BY <1>1, <1>5 DEF Order
    <3> QED BY <1>4, <1>5, <2>1, <3>1, OneMore
  <2>2. CASE gone = None
    BY <1>5, <2>2, ConcatEmptySeq
  <2> QED BY <2>1, <2>2
<1> HIDE DEF B
<1>7. /\ C \in Seq(Post) /\ InOrder(C)
      /\ \A m : m \in Members(C) <=> (new /\ m = s) \/ (gone # None /\ m = e) \/ (cross # None /\ m = c)
  <2>1. CASE cross # None
    <3>1. \A m \in Members(B) : Order[m.kind] < Order[c.kind]
      BY <1>1, <1>6 DEF Order
    <3> QED BY <1>4, <1>6, <2>1, <3>1, OneMore
  <2>2. CASE cross = None
    BY <1>6, <2>2, ConcatEmptySeq
  <2> QED BY <2>1, <2>2
<1> HIDE DEF C
<1>8. /\ D \in Seq(Post) /\ InOrder(D)
      /\ \A m : m \in Members(D) <=>
           (new /\ m = s) \/ (gone # None /\ m = e) \/ (cross # None /\ m = c) \/ (batch > 0 /\ m = h)
  <2>1. CASE batch > 0
    <3>1. \A m \in Members(C) : Order[m.kind] < Order[h.kind]
      BY <1>1, <1>7 DEF Order
    <3> QED BY <1>4, <1>7, <2>1, <3>1, OneMore
  <2>2. CASE ~(batch > 0)
    BY <1>7, <2>2, ConcatEmptySeq
  <2> QED BY <2>1, <2>2
<1> QED BY <1>2, <1>3, <1>8

-----------------------------------------------------------------------------
(* The handlers.                                                           *)

\* What a handler does to the table of tracks.
LEMMA RowEffects ==
    ASSUME IngestTypes, NEW m \in Post, Handle(m)
    PROVE  /\ rows' \in Seq(Row) /\ active' \in [TrackIds -> Nat \cup {None}]
           /\ events' \subseteq Event /\ IsFiniteSet(events') /\ cells' \in Nat
           /\ m.kind = "start" =>
                /\ DOMAIN rows' = DOMAIN rows \cup {Len(rows) + 1} /\ Len(rows) + 1 \notin DOMAIN rows
                /\ \A r \in DOMAIN rows : rows'[r] = rows[r]
                /\ rows'[Len(rows) + 1] = NewRow(m) /\ active' = [active EXCEPT ![m.id] = Len(rows) + 1]
           /\ m.kind = "end" =>
                /\ DOMAIN rows' = DOMAIN rows /\ active' = [active EXCEPT ![m.id] = None]
                /\ \A r \in DOMAIN rows : rows'[r] = IF r = active[m.id] THEN Completed(rows[r], m) ELSE rows[r]
           /\ m.kind \in {"cross", "heat"} => UNCHANGED <<rows, active>>
<1>1. CASE m.kind = "start"
  <2>1. /\ rows' = Append(rows, NewRow(m)) /\ active' = [active EXCEPT ![m.id] = Len(rows) + 1]
        /\ UNCHANGED <<events, cells>>
    BY <1>1 DEF Handle, TrackStart, Registered
  <2>2. NewRow(m) \in Row
    BY <1>1, PostKinds DEF NewRow, Row, StartPost
  <2>3. rows \in Seq(Row) /\ Len(rows) \in Nat /\ DOMAIN rows = 1 .. Len(rows)
    BY LenProperties DEF IngestTypes
  <2>4. /\ rows' \in Seq(Row) /\ Len(rows') = Len(rows) + 1 /\ rows'[Len(rows) + 1] = NewRow(m)
        /\ \A r \in 1 .. Len(rows) : rows'[r] = rows[r]
    BY <2>1, <2>2, <2>3, AppendProperties
  <2>5. DOMAIN rows' = 1 .. Len(rows')
    BY <2>4, LenProperties
  <2>6. active' \in [TrackIds -> Nat \cup {None}]
    <3>1. active \in [TrackIds -> Nat \cup {None}] /\ Len(rows) + 1 \in Nat
      BY <2>3 DEF IngestTypes
    <3> QED BY <2>1, <3>1
  <2> QED BY <1>1, <2>1, <2>3, <2>4, <2>5, <2>6 DEF IngestTypes
<1>2. CASE m.kind = "end"
  <2>1. /\ rows' = [r \in DOMAIN rows |-> IF r = active[m.id] THEN Completed(rows[r], m) ELSE rows[r]]
        /\ active' = [active EXCEPT ![m.id] = None] /\ UNCHANGED <<events, cells>>
    BY <1>2 DEF Handle, TrackEnd, Forgotten
  <2>2. rows \in Seq(Row) /\ Len(rows) \in Nat /\ DOMAIN rows = 1 .. Len(rows)
    BY LenProperties DEF IngestTypes
  <2>3. \A r \in DOMAIN rows : rows[r] \in Row
    BY <2>2, ElementOfSeq
  <2>4. \A row \in Row : Completed(row, m) \in Row
    BY <1>2, PostKinds DEF Completed, Row, EndPost
  <2>5. rows' \in [1 .. Len(rows) -> Row]
    BY <2>1, <2>2, <2>3, <2>4
  <2>6. rows' \in Seq(Row)
    BY <2>2, <2>5, SeqDef
  <2>7. active' \in [TrackIds -> Nat \cup {None}]
    BY <2>1 DEF IngestTypes
  <2> QED BY <1>2, <2>1, <2>6, <2>7 DEF IngestTypes
<1>3. CASE m.kind = "cross"
  <2> DEFINE same == {e \in events : e.post = m}
             e == [post |-> m, row |-> active[m.id], copy |-> Cardinality(same)]
  <2>1. events' = events \cup {e} /\ UNCHANGED <<active, rows, cells>>
    BY <1>3 DEF Handle, ZoneCrossing
  <2>2. same \in SUBSET events /\ IsFiniteSet(events)
    BY DEF IngestTypes
  <2>3. Cardinality(same) \in Nat
    BY <2>2, FS_Subset, FS_CardinalityType
  <2>4. m.id \in TrackIds
    BY <1>3, PostKinds
  <2>5. e \in Event
    BY <2>3, <2>4 DEF Event, IngestTypes
  <2> HIDE DEF e
  <2>6. IsFiniteSet(events')
    BY <2>1, <2>2, FS_AddElement
  <2> QED BY <1>3, <2>1, <2>5, <2>6 DEF IngestTypes
<1>4. CASE m.kind = "heat"
  <2>1. cells' = cells + m.count /\ UNCHANGED <<active, rows, events>>
    BY <1>4 DEF Handle, HeatmapBatch
  <2>2. m.count \in Nat
    BY <1>4, PostKinds DEF HeatPost
  <2> QED BY <1>4, <2>1, <2>2 DEF IngestTypes
<1> QED BY <1>1, <1>2, <1>3, <1>4, PostKinds
LEMMA OneVisitPerId ==
    ASSUME IngestTypes, Numbered, NEW v \in Current(next_id, id_of), NEW w \in Current(next_id, id_of), id_of[v] = id_of[w]
    PROVE  v = w
<1>1. Len(id_of) \in Nat /\ DOMAIN id_of = 1 .. Len(id_of) /\ next_id \in Nat
  BY LenProperties DEF IngestTypes
<1>2. v \in Int /\ w \in Int
  BY <1>1 DEF Current
<1> QED BY <1>1, <1>2 DEF Numbered

\* What a handler leaves as it was: rows stay with their visit, and complete ones complete.
RowsKept(R, S) ==
    \A r \in DOMAIN R :
        r \in DOMAIN S /\ S[r].visit = R[r].visit /\ (R[r].exit # None => S[r].exit # None)

LEMMA HandleKeepsRows ==
    ASSUME IngestInv, NEW m, Owned(m), Handle(m)
    PROVE  /\ RowsKept(rows, rows')
           /\ \A r \in DOMAIN rows' : r \in DOMAIN rows \/ (m.kind = "start" /\ r = Len(rows) + 1 /\ rows'[r].visit = m.visit)
           /\ \A r \in DOMAIN rows' : rows'[r].visit \in DOMAIN id_of
<1>1. m \in Post
  BY DEF Owned
<1>2. CASE m.kind = "start"
  <2>1. /\ DOMAIN rows' = DOMAIN rows \cup {Len(rows) + 1} /\ \A r \in DOMAIN rows : rows'[r] = rows[r]
        /\ rows'[Len(rows) + 1] = NewRow(m)
    BY <1>1, <1>2, RowEffects DEF IngestInv
  <2>2. NewRow(m).visit = m.visit /\ m.visit \in DOMAIN id_of
    BY <1>2 DEF NewRow, Owned, Current
  <2> QED BY <1>2, <2>1, <2>2 DEF RowsKept, IngestInv, RowsOfVisits
<1>3. CASE m.kind = "end"
  <2>1. /\ DOMAIN rows' = DOMAIN rows
        /\ \A r \in DOMAIN rows : rows'[r] = IF r = active[m.id] THEN Completed(rows[r], m) ELSE rows[r]
    BY <1>1, <1>3, RowEffects DEF IngestInv
  <2>2. m.at # None
    BY <1>1, PostKinds, IngestAssumption
  <2>3. \A r \in DOMAIN rows : rows[r] \in Row
    BY ElementOfSeq, LenProperties DEF IngestInv, IngestTypes
  <2>4. \A row \in Row : Completed(row, m).visit = row.visit /\ Completed(row, m).exit = m.at
    BY DEF Completed, Row
  <2> QED BY <2>1, <2>2, <2>3, <2>4 DEF RowsKept, IngestInv, RowsOfVisits
<1>4. CASE m.kind \in {"cross", "heat"}
  <2>1. rows' = rows
    BY <1>1, <1>4, RowEffects DEF IngestInv
  <2> QED BY <2>1 DEF RowsKept, IngestInv, RowsOfVisits
<1> QED BY <1>1, <1>2, <1>3, <1>4, PostKinds

\* Rows that are kept are found again.
LEMMA KeptRows ==
    ASSUME RowsKept(rows, rows'), NEW v
    PROVE  Rows(v) \subseteq Rows(v)' /\ (HasEnd(v) => HasEnd(v)')
BY DEF RowsKept, Rows, HasEnd, IsComplete

\* After a handler the id of a visit names a row of that visit, or none; who had a row of his
\* own under his id has it, or has a complete one.
LEMMA HandleReaches ==
    ASSUME IngestInv, NEW m, Owned(m), Handle(m), UNCHANGED <<id_of, next_id>>
    PROVE  /\ \A v \in Current(next_id, id_of) : Rows(v)' # {} => Reaches(v)' \/ active'[id_of[v]] \in {None, 0}
           /\ \A v \in Current(next_id, id_of) : HasEnd(v) \/ Reaches(v) => HasEnd(v)' \/ Reaches(v)'
           /\ m.kind = "start" => Reaches(m.visit)'
           /\ m.kind = "end" /\ (HasEnd(m.visit) \/ Reaches(m.visit)) => HasEnd(m.visit)'
<1>1. /\ m \in Post /\ RowsKept(rows, rows')
      /\ \A r \in DOMAIN rows' : r \in DOMAIN rows \/ (m.kind = "start" /\ r = Len(rows) + 1 /\ rows'[r].visit = m.visit)
  BY HandleKeepsRows DEF Owned
<1>2. \A v : Rows(v) \subseteq Rows(v)' /\ (HasEnd(v) => HasEnd(v)')
  BY <1>1, KeptRows
<1>3. m.kind # "heat" => m.visit \in Current(next_id, id_of) /\ m.id = id_of[m.visit] /\ m.id \in TrackIds
  BY <1>1, PostKinds DEF Owned
<1>4. active \in [TrackIds -> Nat \cup {None}] /\ \A v \in Current(next_id, id_of) : id_of[v] \in TrackIds
  BY ElementOfSeq, LenProperties DEF IngestInv, IngestTypes, Current
<1>5. \A v : Rows(v)' = Rows(v) \/ (m.kind = "start" /\ v = m.visit)
  BY <1>1 DEF Rows, RowsKept
<1>6. ASSUME m.kind = "start" PROVE Reaches(m.visit)'
  <2>1. /\ Len(rows) + 1 \in DOMAIN rows' /\ rows'[Len(rows) + 1] = NewRow(m)
        /\ active' = [active EXCEPT ![m.id] = Len(rows) + 1]
    BY <1>1, <1>6, RowEffects DEF IngestInv
  <2>2. active'[id_of[m.visit]] = Len(rows) + 1
    BY <1>3, <1>4, <1>6, <2>1
  <2> QED BY <2>1, <2>2 DEF Reaches, Rows, NewRow
<1>7. ASSUME m.kind = "end" PROVE active'[m.id] = None
  BY <1>1, <1>3, <1>4, <1>7, RowEffects DEF IngestInv
<1>8. ASSUME m.kind = "end", Reaches(m.visit) PROVE HasEnd(m.visit)'
  <2> DEFINE r == active[m.id]
  <2>1. r \in Rows(m.visit) /\ r \in DOMAIN rows /\ rows[r] \in Row
    BY <1>3, <1>8, ElementOfSeq, LenProperties DEF Reaches, Rows, IngestInv, IngestTypes
  <2>2. rows'[r] = Completed(rows[r], m)
    BY <1>1, <1>8, <2>1, RowEffects DEF IngestInv
  <2>3. rows'[r].exit = m.at /\ m.at # None
    BY <1>1, <2>1, <2>2, PostKinds, IngestAssumption DEF Completed, Row
  <2> QED BY <1>2, <2>1, <2>3 DEF HasEnd, IsComplete
<1>9. \A v \in Current(next_id, id_of) : active'[id_of[v]] = active[id_of[v]] \/ (m.kind \in {"start", "end"} /\ v = m.visit)
  <2>1. CASE m.kind \in {"cross", "heat"}
    BY <1>1, <2>1, RowEffects DEF IngestInv
  <2>2. CASE m.kind \in {"start", "end"}
    <3>1. PICK a : active' = [active EXCEPT ![m.id] = a]
      BY <1>1, <2>2, RowEffects DEF IngestInv
    <3>2. \A v \in Current(next_id, id_of) : v # m.visit => id_of[v] # m.id
      BY <1>3, <2>2, OneVisitPerId DEF IngestInv
    <3> QED BY <1>4, <2>2, <3>1, <3>2
  <2> QED BY <1>1, <2>1, <2>2, PostKinds
<1>10. ASSUME NEW v \in Current(next_id, id_of), Rows(v)' # {} PROVE Reaches(v)' \/ active'[id_of[v]] \in {None, 0}
  <2>1. CASE m.kind \in {"start", "end"} /\ v = m.visit
    BY <1>3, <1>6, <1>7, <2>1
  <2>2. CASE ~(m.kind \in {"start", "end"} /\ v = m.visit)
    <3>1. Rows(v)' = Rows(v) /\ active'[id_of[v]] = active[id_of[v]]
      BY <1>5, <1>9, <2>2
    <3> QED BY <1>10, <3>1 DEF IngestInv, ActiveIsOwn, Reaches
  <2> QED BY <2>1, <2>2
<1>11. ASSUME NEW v \in Current(next_id, id_of), HasEnd(v) \/ Reaches(v) PROVE HasEnd(v)' \/ Reaches(v)'
  <2>1. CASE m.kind \in {"start", "end"} /\ v = m.visit
    BY <1>2, <1>6, <1>8, <1>11, <2>1
  <2>2. CASE ~(m.kind \in {"start", "end"} /\ v = m.visit)
    <3>1. active'[id_of[v]] = active[id_of[v]]
      BY <1>9, <2>2
    <3> QED BY <1>2, <1>11, <3>1 DEF Reaches
  <2> QED BY <2>1, <2>2
<1> QED BY <1>2, <1>6, <1>8, <1>10, <1>11
-----------------------------------------------------------------------------
(* Every step keeps the invariant.                                         *)

LEMMA FrameFacts ==
    ASSUME IngestTypes
    PROVE  /\ frames \in Nat /\ faults \in Nat /\ restarts \in Nat
           /\ Len(id_of) \in Nat /\ DOMAIN id_of = 1 .. Len(id_of)
           /\ Len(rows) \in Nat /\ DOMAIN rows = 1 .. Len(rows)
           /\ \A r \in DOMAIN rows : rows[r] \in Row
           /\ \A v \in DOMAIN id_of : id_of[v] \in TrackIds
BY ElementOfSeq, LenProperties DEF IngestTypes

LEMMA HeadIsOwned ==
    ASSUME IngestInv, posts # <<>>
    PROVE  Head(posts) \in Members(posts) /\ Owned(Head(posts))
BY HeadAndTail DEF IngestInv, IngestTypes, PostsOwned

\* The posts and the late requests stay about visits of this pipeline.
LEMMA PostsStay ==
    ASSUME IngestInv, UNCHANGED <<next_id, following, id_of, frames>>,
           posts' = posts \/ (posts # <<>> /\ posts' = Tail(posts)),
           \A q \in late' : q \in late \/ (posts # <<>> /\ q = <<Head(posts), attempts>>)
    PROVE  Numbered' /\ PostsOwned' /\ posts' \in Seq(Post) /\ late' \subseteq Post \X Nat
<1>1. posts' \in Seq(Post) /\ InOrder(posts') /\ Members(posts') \subseteq Members(posts)
  BY HeadAndTail DEF IngestInv, IngestTypes, PostsOwned
<1>2. \A m : Owned(m) => Owned(m)'
  BY DEF Owned
<1>3. \A m \in Members(posts') : Owned(m)'
  BY <1>1, <1>2 DEF IngestInv, PostsOwned
<1>4. \A q \in late' : q \in Post \X Nat /\ Owned(q[1])'
  <2> SUFFICES ASSUME NEW q \in late' PROVE q \in Post \X Nat /\ Owned(q[1])'
    OBVIOUS
  <2>1. CASE q \in late
    <3>1. q \in Post \X Nat /\ Owned(q[1])
      BY <2>1 DEF IngestInv, IngestTypes, PostsOwned
    <3> QED BY <1>2, <3>1
  <2>2. CASE posts # <<>> /\ q = <<Head(posts), attempts>>
    <3>1. Owned(Head(posts)) /\ Head(posts) \in Post /\ attempts \in Nat
      BY <2>2, HeadIsOwned DEF IngestInv, IngestTypes, Owned
    <3>2. q[1] = Head(posts) /\ q \in Post \X Nat
      BY <2>2, <3>1
    <3> QED BY <1>2, <3>1, <3>2
  <2> QED BY <2>1, <2>2
<1>5. Numbered'
  BY DEF IngestInv, Numbered
<1>6. \A v \in Followed' : v \in Current(next_id', id_of')
  BY DEF IngestInv, PostsOwned, Followed
<1>7. InOrder(posts)'
  BY <1>1 DEF InOrder
<1> QED BY <1>1, <1>3, <1>4, <1>5, <1>6, <1>7 DEF PostsOwned, Members

\* The tables and the memory of the backend after a handler.
LEMMA HandleKeeps ==
    ASSUME IngestInv, NEW m, Owned(m), Handle(m), UNCHANGED <<next_id, id_of, frames>>,
           intact' \subseteq DOMAIN id_of,
           \A v \in intact' : v \in intact \/ (m.kind = "start" /\ v = m.visit),
           \A v \in answered' : v \in answered \/ (m.kind = "end" /\ v = m.visit /\ v \in intact)
    PROVE  /\ RowsOfVisits' /\ ActiveIsOwn'
           /\ rows' \in Seq(Row) /\ active' \in [TrackIds -> Nat \cup {None}]
           /\ events' \subseteq Event /\ IsFiniteSet(events') /\ cells' \in Nat
<1>1. /\ m \in Post /\ RowsKept(rows, rows') /\ \A r \in DOMAIN rows' : rows'[r].visit \in DOMAIN id_of
      /\ rows' \in Seq(Row) /\ active' \in [TrackIds -> Nat \cup {None}]
      /\ events' \subseteq Event /\ IsFiniteSet(events') /\ cells' \in Nat
  BY HandleKeepsRows, RowEffects DEF Owned, IngestInv
<1>2. \A e \in events' : e \in events \/ e.post = m
  <2>1. events' = events \/ \E row, copy : events' = events \cup {[post |-> m, row |-> row, copy |-> copy]}
    BY DEF Handle, TrackStart, TrackEnd, ZoneCrossing, HeatmapBatch
  <2> QED BY <2>1
<1>3. RowsOfVisits'
  BY <1>1, <1>2 DEF RowsOfVisits, IngestInv, Owned
<1>4. \A v : HasEnd(v) => HasEnd(v)'
  BY <1>1, KeptRows
<1>5. /\ \A v \in Current(next_id, id_of) : Rows(v)' # {} => Reaches(v)' \/ active'[id_of[v]] \in {None, 0}
      /\ \A v \in Current(next_id, id_of) : HasEnd(v) \/ Reaches(v) => HasEnd(v)' \/ Reaches(v)'
      /\ m.kind = "start" => Reaches(m.visit)'
      /\ m.kind = "end" /\ (HasEnd(m.visit) \/ Reaches(m.visit)) => HasEnd(m.visit)'
  BY HandleReaches
<1>6. \A v \in Current(next_id, id_of) \cap intact' : HasEnd(v)' \/ Reaches(v)'
  BY <1>5 DEF IngestInv, ActiveIsOwn
<1>7. \A v \in answered' : HasEnd(v)'
  BY <1>4, <1>5 DEF IngestInv, ActiveIsOwn, Owned
<1>8. ActiveIsOwn'
  BY <1>5, <1>6, <1>7 DEF ActiveIsOwn
<1> QED BY <1>1, <1>3, <1>8

LEMMA AnsweredKeeps == IngestInv /\ Answered => IngestInv'
<1> SUFFICES ASSUME IngestInv, Answered PROVE IngestInv'
  OBVIOUS
<1> DEFINE m == Head(posts)
<1>1. /\ posts # <<>> /\ Handle(m) /\ posts' = Tail(posts) /\ attempts' = 0
      /\ intact' = intact \cup (IF m.kind = "start" THEN {m.visit} ELSE {})
      /\ answered' = answered \cup (IF m.kind = "end" THEN {m.visit} \cap intact ELSE {})
      /\ UNCHANGED <<next_id, following, grid, late, id_of, seen, clean, frames, faults, restarts>>
  BY DEF Answered
<1>2. Owned(m) /\ m \in Post
  BY <1>1, HeadIsOwned DEF Owned
<1> HIDE DEF m
<1>3. Numbered' /\ PostsOwned' /\ posts' \in Seq(Post) /\ late' \subseteq Post \X Nat
  BY <1>1, PostsStay
<1>4. intact' \subseteq DOMAIN id_of /\ intact' \subseteq Visits /\ answered' \subseteq Visits
  BY <1>1, <1>2, PostKinds DEF Owned, Current, IngestInv, IngestTypes, RowsOfVisits
<1>5. /\ RowsOfVisits' /\ ActiveIsOwn'
      /\ rows' \in Seq(Row) /\ active' \in [TrackIds -> Nat \cup {None}]
      /\ events' \subseteq Event /\ IsFiniteSet(events') /\ cells' \in Nat
  BY <1>1, <1>2, <1>4, HandleKeeps
<1>6. IngestTypes'
  BY <1>1, <1>3, <1>4, <1>5 DEF IngestTypes, IngestInv
<1> QED BY <1>3, <1>5, <1>6 DEF IngestInv

\* What follows a failed attempt, whatever the backend made of the request.
LEMMA FailureTypes ==
    ASSUME IngestTypes, AfterFailure
    PROVE  /\ posts # <<>> => posts' = posts \/ posts' = Tail(posts)
           /\ attempts' \in Nat
           /\ UNCHANGED <<next_id, following, grid, answered, id_of, seen, frames, restarts>>
BY DEF AfterFailure, IngestTypes

LEMMA FaultTypes ==
    ASSUME IngestTypes, Fault
    PROVE  faults' \in Nat /\ clean' \in BOOLEAN
<1>1. faults' \in Nat
  BY FrameFacts DEF Fault
<1>2. clean' = FALSE
  BY DEF Fault
<1> QED BY <1>1, <1>2

LEMMA LostKeeps == IngestInv /\ Lost => IngestInv'
<1> SUFFICES ASSUME IngestInv, Lost PROVE IngestInv'
  OBVIOUS
<1>1. /\ posts # <<>> /\ AfterFailure /\ clean' = FALSE
      /\ UNCHANGED <<active, rows, events, cells, late, intact, faults>>
  BY DEF Lost, backVars
<1>2. /\ posts' = posts \/ posts' = Tail(posts)
      /\ attempts' \in Nat /\ UNCHANGED <<next_id, following, grid, answered, id_of, seen, frames, restarts>>
  BY <1>1, FailureTypes DEF IngestInv
<1>3. Numbered' /\ PostsOwned' /\ posts' \in Seq(Post) /\ late' \subseteq Post \X Nat
  BY <1>1, <1>2, PostsStay
<1>4. RowsOfVisits' /\ ActiveIsOwn'
  BY <1>1, <1>2 DEF IngestInv, RowsOfVisits, ActiveIsOwn, Rows, Reaches, HasEnd, IsComplete
<1>5. IngestTypes'
  BY <1>1, <1>2, <1>3 DEF IngestInv, IngestTypes
<1> QED BY <1>3, <1>4, <1>5 DEF IngestInv

LEMMA UnansweredKeeps == IngestInv /\ Unanswered => IngestInv'
<1> SUFFICES ASSUME IngestInv, Unanswered PROVE IngestInv'
  OBVIOUS
<1>1. posts # <<>> /\ Fault /\ AfterFailure /\ Handle(Head(posts)) /\ UNCHANGED <<late, intact>>
  BY DEF Unanswered
<1>2. /\ posts' = posts \/ posts' = Tail(posts)
      /\ attempts' \in Nat /\ UNCHANGED <<next_id, following, grid, answered, id_of, seen, frames, restarts>>
      /\ faults' \in Nat /\ clean' \in BOOLEAN
  BY <1>1, FailureTypes, FaultTypes DEF IngestInv
<1>3. Numbered' /\ PostsOwned' /\ posts' \in Seq(Post) /\ late' \subseteq Post \X Nat
  BY <1>1, <1>2, PostsStay
<1>4. /\ RowsOfVisits' /\ ActiveIsOwn'
      /\ rows' \in Seq(Row) /\ active' \in [TrackIds -> Nat \cup {None}]
      /\ events' \subseteq Event /\ IsFiniteSet(events') /\ cells' \in Nat
  BY <1>1, <1>2, HeadIsOwned, HandleKeeps DEF IngestInv, RowsOfVisits
<1>5. IngestTypes'
  BY <1>1, <1>2, <1>3, <1>4 DEF IngestInv, IngestTypes
<1> QED BY <1>3, <1>4, <1>5 DEF IngestInv

LEMMA TimedOutKeeps == IngestInv /\ TimedOut => IngestInv'
<1> SUFFICES ASSUME IngestInv, TimedOut PROVE IngestInv'
  OBVIOUS
<1>1. /\ posts # <<>> /\ Fault /\ AfterFailure /\ late' = late \cup {<<Head(posts), attempts>>}
      /\ UNCHANGED <<active, rows, events, cells, intact>>
  BY DEF TimedOut, backVars
<1>2. /\ posts' = posts \/ posts' = Tail(posts)
      /\ attempts' \in Nat /\ UNCHANGED <<next_id, following, grid, answered, id_of, seen, frames, restarts>>
      /\ faults' \in Nat /\ clean' \in BOOLEAN
  BY <1>1, FailureTypes, FaultTypes DEF IngestInv
<1>3. Numbered' /\ PostsOwned' /\ posts' \in Seq(Post) /\ late' \subseteq Post \X Nat
  BY <1>1, <1>2, PostsStay
<1>4. RowsOfVisits' /\ ActiveIsOwn'
  BY <1>1, <1>2 DEF IngestInv, RowsOfVisits, ActiveIsOwn, Rows, Reaches, HasEnd, IsComplete
<1>5. IngestTypes'
  BY <1>1, <1>2, <1>3 DEF IngestInv, IngestTypes
<1> QED BY <1>3, <1>4, <1>5 DEF IngestInv

\* A failed commit clears the list of intact visits; the id of a visit still names no row of another.
LEMMA RefusedKeeps == IngestInv /\ Refused => IngestInv'
<1> SUFFICES ASSUME IngestInv, Refused PROVE IngestInv'
  OBVIOUS
<1> DEFINE m == Head(posts)
<1>1. /\ posts # <<>> /\ Fault /\ AfterFailure /\ intact' = {} /\ UNCHANGED <<late, rows, events, cells>>
      /\ active' = active \/ (m.kind # "heat" /\ \E a \in {0, None} : active' = [active EXCEPT ![m.id] = a])
  BY DEF Refused, HandleFails, Forgotten
<1>2. /\ posts' = posts \/ posts' = Tail(posts)
      /\ attempts' \in Nat /\ UNCHANGED <<next_id, following, grid, answered, id_of, seen, frames, restarts>>
      /\ faults' \in Nat /\ clean' \in BOOLEAN
  BY <1>1, FailureTypes, FaultTypes DEF IngestInv
<1>3. Numbered' /\ PostsOwned' /\ posts' \in Seq(Post) /\ late' \subseteq Post \X Nat
  BY <1>1, <1>2, PostsStay
<1>4. Owned(m)
  BY <1>1, HeadIsOwned
<1> HIDE DEF m
<1>5. active' \in [TrackIds -> Nat \cup {None}]
  BY <1>1 DEF IngestInv, IngestTypes
<1>6. \A v \in Current(next_id, id_of) : active'[id_of[v]] = active[id_of[v]] \/ active'[id_of[v]] \in {None, 0}
  <2>1. \A v \in Current(next_id, id_of) : id_of[v] \in TrackIds
    BY FrameFacts DEF IngestInv, Current
  <2> QED BY <1>1, <2>1 DEF IngestInv, IngestTypes
<1>7. RowsOfVisits' /\ ActiveIsOwn'
  BY <1>1, <1>2, <1>6 DEF IngestInv, RowsOfVisits, ActiveIsOwn, Rows, Reaches, HasEnd, IsComplete
<1>8. IngestTypes'
  BY <1>1, <1>2, <1>3, <1>5 DEF IngestInv, IngestTypes
<1> QED BY <1>3, <1>7, <1>8 DEF IngestInv

\* A request the pipeline no longer waits for is handled like the others.
LEMMA LateKeeps == IngestInv /\ (\E request \in late : Late(request)) => IngestInv'
<1> SUFFICES ASSUME IngestInv, NEW request \in late, Late(request) PROVE IngestInv'
  OBVIOUS
<1>1. /\ Handle(request[1]) /\ late' = late \ {request}
      /\ UNCHANGED <<next_id, following, grid, posts, attempts, id_of, seen, answered, intact, clean, frames, faults, restarts>>
  BY DEF Late, pipeVars
<1>2. Owned(request[1])
  BY DEF IngestInv, PostsOwned
<1>3. Numbered' /\ PostsOwned' /\ posts' \in Seq(Post) /\ late' \subseteq Post \X Nat
  BY <1>1, PostsStay
<1>4. /\ RowsOfVisits' /\ ActiveIsOwn'
      /\ rows' \in Seq(Row) /\ active' \in [TrackIds -> Nat \cup {None}]
      /\ events' \subseteq Event /\ IsFiniteSet(events') /\ cells' \in Nat
  BY <1>1, <1>2, HandleKeeps DEF IngestInv, RowsOfVisits
<1>5. IngestTypes'
  BY <1>1, <1>3, <1>4 DEF IngestInv, IngestTypes
<1> QED BY <1>3, <1>4, <1>5 DEF IngestInv

LEMMA BackendRestartKeeps == IngestInv /\ BackendRestart => IngestInv'
<1> SUFFICES ASSUME IngestInv, BackendRestart PROVE IngestInv'
  OBVIOUS
<1>1. /\ restarts' = restarts + 1 /\ clean' = FALSE
      /\ active' = [t \in TrackIds |-> None] /\ late' = {} /\ intact' = {}
      /\ UNCHANGED <<next_id, following, grid, posts, attempts, rows, events, cells, id_of, seen, answered, frames, faults>>
  BY DEF BackendRestart, pipeVars
<1>2. Numbered' /\ PostsOwned' /\ posts' \in Seq(Post) /\ late' \subseteq Post \X Nat
  BY <1>1, PostsStay
<1>3. \A v \in Current(next_id, id_of) : active'[id_of[v]] = None
  BY <1>1, FrameFacts DEF IngestInv, Current
<1>4. RowsOfVisits' /\ ActiveIsOwn'
  BY <1>1, <1>3 DEF IngestInv, RowsOfVisits, ActiveIsOwn, Rows, Reaches, HasEnd, IsComplete
<1>5. IngestTypes'
  <2>1. restarts' \in Nat /\ frames' \in Nat /\ faults' \in Nat
    BY <1>1, FrameFacts DEF IngestInv
  <2>2. clean' \in BOOLEAN
    BY <1>1
  <2> QED BY <1>1, <1>2, <2>1, <2>2 DEF IngestInv, IngestTypes
<1> QED BY <1>2, <1>4, <1>5 DEF IngestInv

\* The ids begin again: no visit so far is one of the new pipeline.
LEMMA PipelineRestartKeeps == IngestInv /\ PipelineRestart => IngestInv'
<1> SUFFICES ASSUME IngestInv, PipelineRestart PROVE IngestInv'
  OBVIOUS
<1>1. /\ restarts' = restarts + 1 /\ clean' = FALSE
      /\ next_id' = 0 /\ following' = [v \in Visits |-> None] /\ grid' = 0
      /\ posts' = <<>> /\ attempts' = 0 /\ late' = {}
      /\ UNCHANGED <<active, rows, events, cells, id_of, seen, answered, intact, frames, faults>>
  BY DEF PipelineRestart, backVars
<1>2. Current(next_id', id_of') = {}
  BY <1>1, FrameFacts DEF IngestInv, Current
<1>3. Members(posts') = {} /\ InOrder(posts') /\ Followed' = {}
  BY <1>1 DEF Members, InOrder, Followed
<1>4. Numbered'
  <2>1. next_id' <= Len(id_of') /\ Len(id_of') <= MaxVisits
    BY <1>1, FrameFacts DEF IngestInv, Numbered
  <2> QED BY <1>2, <2>1 DEF Numbered
<1>5. PostsOwned'
  BY <1>1, <1>3 DEF PostsOwned, Members, InOrder
<1>6. RowsOfVisits' /\ ActiveIsOwn'
  BY <1>1, <1>2 DEF IngestInv, RowsOfVisits, ActiveIsOwn, Rows, Reaches, HasEnd, IsComplete
<1>7. IngestTypes'
  <2>1. restarts' \in Nat /\ frames' \in Nat /\ faults' \in Nat
    BY <1>1, FrameFacts DEF IngestInv
  <2>2. clean' \in BOOLEAN
    BY <1>1
  <2>3. following' \in [Visits -> (SUBSET Zones) \cup {None}] /\ posts' \in Seq(Post) /\ late' \subseteq Post \X Nat
    BY <1>1
  <2> QED BY <1>1, <2>1, <2>2, <2>3 DEF IngestInv, IngestTypes
<1> QED BY <1>4, <1>5, <1>6, <1>7 DEF IngestInv

-----------------------------------------------------------------------------
(* A frame.                                                                *)

Crossed == [visit : Visits, zone : Zones]
There(new, gone) == (Followed \cup (IF new THEN {New} ELSE {})) \ {gone}

\* The visits and their ids after a frame.
LEMMA FrameNumbers ==
    ASSUME IngestInv, NEW new \in BOOLEAN, NEW gone, NEW cross, Frame(new, gone, cross)
    PROVE  /\ id_of' \in Seq(TrackIds) /\ next_id' \in Nat /\ DOMAIN id_of' = 1 .. Len(id_of')
           /\ Len(id_of') = Len(id_of) + (IF new THEN 1 ELSE 0)
           /\ next_id' = next_id + (IF new THEN 1 ELSE 0)
           /\ New \notin DOMAIN id_of /\ \A v \in DOMAIN id_of : id_of'[v] = id_of[v]
           /\ new => next_id + 1 \in TrackIds /\ New \in Visits /\ id_of'[New] = next_id + 1
<1>1. /\ new => New <= MaxVisits
      /\ id_of' = (IF new THEN Append(id_of, next_id + 1) ELSE id_of)
      /\ next_id' = IF new THEN next_id + 1 ELSE next_id
  BY DEF Frame
<1>2. next_id \in Nat /\ id_of \in Seq(TrackIds) /\ MaxVisits \in Nat /\ next_id <= Len(id_of)
  BY IngestAssumption DEF IngestInv, IngestTypes, Numbered
<1>3. Len(id_of) \in Nat /\ DOMAIN id_of = 1 .. Len(id_of)
  BY <1>2, LenProperties
<1>4. new => next_id + 1 \in TrackIds /\ New \in Visits
  BY <1>1, <1>2, <1>3 DEF New, Visits, TrackIds
<1>5. New \notin DOMAIN id_of
  BY <1>3 DEF New
<1>6. CASE new
  <2>1. /\ id_of' \in Seq(TrackIds) /\ Len(id_of') = Len(id_of) + 1 /\ id_of'[New] = next_id + 1
        /\ \A v \in 1 .. Len(id_of) : id_of'[v] = id_of[v]
    BY <1>1, <1>2, <1>4, <1>6, AppendProperties DEF New
  <2>2. DOMAIN id_of' = 1 .. Len(id_of')
    BY <2>1, LenProperties
  <2>3. next_id' = next_id + 1
    BY <1>1, <1>6
  <2> QED BY <1>2, <1>3, <1>4, <1>5, <1>6, <2>1, <2>2, <2>3
<1>7. CASE ~new
  BY <1>1, <1>2, <1>3, <1>4, <1>5, <1>7
<1> QED BY <1>6, <1>7

LEMMA FrameCurrent ==
    ASSUME IngestInv, NEW new \in BOOLEAN, NEW gone, NEW cross, Frame(new, gone, cross)
    PROVE  /\ Current(next_id', id_of') = Current(next_id, id_of) \cup (IF new THEN {New} ELSE {})
           /\ Numbered'
<1>1. /\ DOMAIN id_of' = 1 .. Len(id_of') /\ New \notin DOMAIN id_of
      /\ Len(id_of') = Len(id_of) + (IF new THEN 1 ELSE 0)
      /\ next_id' = next_id + (IF new THEN 1 ELSE 0)
      /\ \A v \in DOMAIN id_of : id_of'[v] = id_of[v]
      /\ new => New \in Visits /\ id_of'[New] = next_id + 1
  BY FrameNumbers
<1>2. Len(id_of) \in Nat /\ DOMAIN id_of = 1 .. Len(id_of) /\ next_id \in Nat /\ next_id <= Len(id_of)
  BY FrameFacts DEF IngestInv, IngestTypes, Numbered
<1>3. Current(next_id', id_of') = Current(next_id, id_of) \cup (IF new THEN {New} ELSE {})
  BY <1>1, <1>2 DEF Current, New
<1>4. Len(id_of') <= MaxVisits /\ next_id' <= Len(id_of')
  BY <1>1, <1>2, IngestAssumption DEF IngestInv, Numbered, New, Visits
<1>5. ASSUME NEW v \in Current(next_id', id_of') PROVE id_of'[v] = v - (Len(id_of') - next_id')
  <2>1. Len(id_of') - next_id' = Len(id_of) - next_id
    BY <1>1, <1>2
  <2>2. CASE v \in Current(next_id, id_of)
    <3>1. id_of'[v] = id_of[v] /\ id_of[v] = v - (Len(id_of) - next_id)
      BY <1>1, <2>2 DEF IngestInv, Numbered, Current
    <3> QED BY <2>1, <3>1
  <2>3. CASE new /\ v = New
    BY <1>1, <1>2, <2>1, <2>3 DEF New
  <2> QED BY <1>3, <1>5, <2>2, <2>3
<1> QED BY <1>3, <1>4, <1>5 DEF Numbered

\* Who is followed after a frame.
LEMMA FrameFollows ==
    ASSUME IngestInv, NEW new \in BOOLEAN, NEW gone, NEW cross \in Crossed \cup {None}, Frame(new, gone, cross)
    PROVE  /\ There(new, gone) \subseteq Visits /\ Cardinality(There(new, gone)) \in Nat
           /\ following' \in [Visits -> (SUBSET Zones) \cup {None}] /\ Followed' = There(new, gone)
           /\ There(new, gone) \subseteq Current(next_id', id_of')
<1> DEFINE T == There(new, gone)
<1>1. following' = Noted(T, cross)
  BY DEF Frame, There
<1>2. T \subseteq Visits
  BY FrameNumbers DEF There, Followed
<1>3. IsFiniteSet(Visits)
  BY IngestAssumption, FS_Interval DEF Visits
<1>4. Cardinality(T) \in Nat
  BY <1>2, <1>3, FS_Subset, FS_CardinalityType
<1>5. T \subseteq Current(next_id', id_of')
  BY FrameCurrent DEF There, IngestInv, PostsOwned
<1>6. \A v \in T : v = New \/ v \in Followed
  BY DEF There
<1> HIDE DEF T
<1>7. \A v \in Visits : following'[v] = (IF v \notin T THEN None
                                          ELSE (IF v = New THEN {} ELSE following[v])
                                               \cup (IF cross # None /\ cross.visit = v THEN {cross.zone} ELSE {}))
  BY <1>1 DEF Noted
<1>8. \A v \in Visits : v \in Followed => following[v] \in SUBSET Zones
  BY DEF IngestInv, IngestTypes, Followed
<1>9. \A S \in SUBSET Zones : S # None
  BY IngestAssumption
<1>10. cross # None => cross.zone \in Zones
  BY DEF Crossed
<1>11. \A v \in Visits : IF v \in T THEN following'[v] \in SUBSET Zones ELSE following'[v] = None
  <2> SUFFICES ASSUME NEW v \in Visits PROVE IF v \in T THEN following'[v] \in SUBSET Zones ELSE following'[v] = None
    OBVIOUS
  <2>1. CASE v \notin T
    BY <1>7, <2>1
  <2>2. CASE v \in T
    <3>1. (IF v = New THEN {} ELSE following[v]) \in SUBSET Zones
      BY <1>6, <1>8, <2>2
    <3>2. (IF cross # None /\ cross.visit = v THEN {cross.zone} ELSE {}) \in SUBSET Zones
      BY <1>10
    <3>3. following'[v] = (IF v = New THEN {} ELSE following[v])
                            \cup (IF cross # None /\ cross.visit = v THEN {cross.zone} ELSE {})
      BY <1>7, <2>2
    <3>4. following'[v] \in SUBSET Zones
      BY <3>1, <3>2, <3>3
    <3> QED BY <2>2, <3>4
  <2> QED BY <2>1, <2>2
<1>12. following' \in [Visits -> (SUBSET Zones) \cup {None}]
  <2>1. DOMAIN following' = Visits /\ following' = [v \in Visits |-> following'[v]]
    BY <1>1 DEF Noted
  <2> QED BY <1>11, <2>1
<1>13. Followed' = T
  BY <1>2, <1>9, <1>11 DEF Followed
<1> QED BY <1>2, <1>4, <1>5, <1>12, <1>13 DEF T

\* The posts of a frame are about visits of this pipeline.
LEMMA FramePostsOwned ==
    ASSUME IngestInv, NEW new \in BOOLEAN, NEW gone \in Visits \cup {None}, NEW cross \in Crossed \cup {None},
           Frame(new, gone, cross), NEW batch \in Nat, NEW m, InFrame(m, new, gone, cross, batch)
    PROVE  Owned(m)'
<1>1. /\ Current(next_id', id_of') = Current(next_id, id_of) \cup (IF new THEN {New} ELSE {})
      /\ \A v \in DOMAIN id_of : id_of'[v] = id_of[v] /\ id_of[v] \in TrackIds
      /\ new => next_id + 1 \in TrackIds /\ New \in Visits /\ id_of'[New] = next_id + 1
      /\ New \notin DOMAIN id_of /\ There(new, gone) \subseteq Current(next_id', id_of')
  BY FrameNumbers, FrameCurrent, FrameFollows, FrameFacts DEF IngestInv
<1>2. frames \in Nat /\ frames' = frames + 1
  BY FrameFacts DEF IngestInv, Frame
<1>3. Current(next_id, id_of) \subseteq DOMAIN id_of /\ None \notin Visits
  BY IngestAssumption DEF Current, Visits
<1>4. CASE new /\ m = Start(New, next_id + 1, frames)
  <2>1. m \in StartPost /\ m.kind = "start" /\ m.visit = New /\ m.id = next_id + 1 /\ m.at = frames
    BY <1>1, <1>2, <1>4 DEF Start, StartPost
  <2> QED BY <1>1, <1>2, <1>4, <2>1 DEF Owned, Post
<1>5. CASE gone # None /\ m = End(gone, id_of[gone], following[gone], frames)
  <2>1. gone \in Followed /\ gone \in Visits /\ gone \in Current(next_id, id_of) /\ following[gone] \in SUBSET Zones
    BY <1>5 DEF Frame, IngestInv, PostsOwned, IngestTypes, Followed
  <2>2. m \in EndPost /\ m.kind = "end" /\ m.visit = gone /\ m.id = id_of[gone] /\ m.at = frames
    BY <1>1, <1>2, <1>3, <1>5, <2>1 DEF End, EndPost
  <2> QED BY <1>1, <1>2, <1>3, <2>1, <2>2 DEF Owned, Post
<1>6. CASE cross # None /\ m = Crossing(cross.visit, IdIn(cross.visit), cross.zone, frames)
  <2> DEFINE v == cross.visit
  <2>1. v \in There(new, gone) /\ v \in Visits /\ cross.zone \in Zones
    BY <1>6 DEF Frame, There, Crossed
  <2>2. IdIn(v) = id_of'[v] /\ IdIn(v) \in TrackIds
    BY <1>1, <1>3, <2>1 DEF IdIn
  <2> HIDE DEF v
  <2>3. m = Crossing(v, IdIn(v), cross.zone, frames)
    BY <1>6 DEF v
  <2>4. m \in CrossingPost /\ m.kind = "cross" /\ m.visit = v /\ m.id = id_of'[v] /\ m.at = frames
    BY <1>2, <2>1, <2>2, <2>3 DEF Crossing, CrossingPost
  <2> QED BY <1>1, <1>2, <2>1, <2>4 DEF Owned, Post
<1>7. CASE batch > 0 /\ m = Heat(batch, frames)
  <2>1. m \in HeatPost /\ m.kind = "heat" /\ m.at = frames
    BY <1>2, <1>7 DEF Heat, HeatPost
  <2> QED BY <1>2, <2>1 DEF Owned, Post
<1> QED BY <1>4, <1>5, <1>6, <1>7 DEF InFrame

Batch(there) == IF (frames + 1) % FlushEvery = 0 THEN grid + Cardinality(there) ELSE 0

\* The posts after a frame.
LEMMA FramePosted ==
    ASSUME IngestInv, NEW new \in BOOLEAN, NEW gone \in Visits \cup {None}, NEW cross \in Crossed \cup {None},
           Frame(new, gone, cross)
    PROVE  /\ posts' \in Seq(Post) /\ InOrder(posts') /\ Batch(There(new, gone)) \in Nat /\ grid' \in Nat
           /\ \A m : m \in Members(posts') <=> InFrame(m, new, gone, cross, Batch(There(new, gone)))
           /\ \A m \in Members(posts') : Owned(m)'
<1> DEFINE T == There(new, gone)
           b == Batch(T)
<1>1. /\ posts' = FramePosts(new, gone, cross, b)
      /\ grid' = IF (frames + 1) % FlushEvery = 0 THEN 0 ELSE grid + Cardinality(T)
  BY DEF Frame, There, Batch
<1>2. Cardinality(T) \in Nat /\ grid \in Nat
  BY FrameFollows DEF IngestInv, IngestTypes
<1>3. b \in Nat /\ grid' \in Nat
  BY <1>1, <1>2 DEF Batch
<1> HIDE DEF T, b
<1>4. \A m : InFrame(m, new, gone, cross, b) => Owned(m)'
  BY <1>3, FramePostsOwned
<1>5. \A m : InFrame(m, new, gone, cross, b) => m \in Post
  BY <1>4 DEF Owned
<1>6. posts' \in Seq(Post) /\ InOrder(posts') /\ \A m : m \in Members(posts') <=> InFrame(m, new, gone, cross, b)
  BY <1>1, <1>5, FramePostsAre
<1> QED BY <1>3, <1>4, <1>6 DEF b, T

LEMMA FrameKeeps ==
    IngestInv /\ (\E new \in BOOLEAN, gone \in Visits \cup {None}, cross \in Crossed \cup {None} : Frame(new, gone, cross))
        => IngestInv'
<1> SUFFICES ASSUME IngestInv, NEW new \in BOOLEAN, NEW gone \in Visits \cup {None}, NEW cross \in Crossed \cup {None},
                    Frame(new, gone, cross)
             PROVE  IngestInv'
  OBVIOUS
<1>1. /\ UNCHANGED <<attempts, late, active, rows, events, cells, answered, intact, clean, faults, restarts>>
      /\ frames' = frames + 1 /\ seen' = seen + Cardinality(There(new, gone))
  BY DEF Frame, backVars, There
<1>2. /\ Current(next_id', id_of') = Current(next_id, id_of) \cup (IF new THEN {New} ELSE {})
      /\ Numbered' /\ id_of' \in Seq(TrackIds) /\ next_id' \in Nat /\ DOMAIN id_of \subseteq DOMAIN id_of'
      /\ \A v \in DOMAIN id_of : id_of'[v] = id_of[v]
      /\ New \notin DOMAIN id_of
  BY FrameNumbers, FrameCurrent, FrameFacts DEF IngestInv
<1>3. /\ Cardinality(There(new, gone)) \in Nat /\ following' \in [Visits -> (SUBSET Zones) \cup {None}]
      /\ Followed' \subseteq Current(next_id', id_of')
  BY FrameFollows
<1>4. posts' \in Seq(Post) /\ InOrder(posts') /\ grid' \in Nat /\ \A m \in Members(posts') : Owned(m)'
  BY FramePosted
<1>5. Current(next_id, id_of) \subseteq DOMAIN id_of /\ frames \in Nat
  BY FrameFacts DEF Current, IngestInv
<1>6. \A m : Owned(m) => Owned(m)'
  <2>1. \A m : Owned(m) => m.at < frames + 1
    BY <1>5, PostKinds DEF Owned
  <2> QED BY <1>1, <1>2, <1>5, <2>1 DEF Owned
<1>7. PostsOwned'
  BY <1>1, <1>3, <1>4, <1>6 DEF IngestInv, PostsOwned, InOrder, Members
<1>8. RowsOfVisits'
  <2>1. \A e \in events : e \in Event /\ e.post \in Post /\ e.post.at \in Nat
    BY PostKinds DEF IngestInv, IngestTypes, Event
  <2> QED BY <1>1, <1>2, <1>5, <2>1 DEF IngestInv, RowsOfVisits
<1>9. ActiveIsOwn'
  <2>1. \A v : Rows(v)' = Rows(v) /\ (HasEnd(v) <=> HasEnd(v)')
    BY <1>1 DEF Rows, HasEnd, IsComplete
  <2>2. Rows(New) = {} /\ New \notin intact
    BY <1>2 DEF Rows, IngestInv, RowsOfVisits
  <2>3. \A v \in Current(next_id, id_of) : active'[id_of'[v]] = active[id_of[v]]
    BY <1>1, <1>2, <1>5
  <2>4. \A v \in Current(next_id, id_of) : Reaches(v)' <=> Reaches(v)
    BY <2>1, <2>3 DEF Reaches
  <2> QED BY <1>1, <1>2, <2>1, <2>2, <2>3, <2>4 DEF IngestInv, ActiveIsOwn
<1>10. IngestTypes'
  <2>1. restarts' \in Nat /\ frames' \in Nat /\ faults' \in Nat
    BY <1>1, FrameFacts DEF IngestInv
  <2>2. seen' \in Nat
    BY <1>1, <1>3 DEF IngestInv, IngestTypes
  <2> QED BY <1>1, <1>2, <1>3, <1>4, <2>1, <2>2 DEF IngestInv, IngestTypes
<1> QED BY <1>2, <1>7, <1>8, <1>9, <1>10 DEF IngestInv

LEMMA InitKeeps == Init => IngestInv
<1> SUFFICES ASSUME Init PROVE IngestInv
  OBVIOUS
<1>1. Len(id_of) = 0 /\ DOMAIN id_of = {} /\ DOMAIN rows = {} /\ Members(posts) = {} /\ Followed = {}
  BY DEF Init, Members, Followed
<1>2. IngestTypes
  <2>1. IsFiniteSet(events)
    BY FS_EmptySet DEF Init
  <2> QED BY <2>1 DEF Init, IngestTypes
<1>3. Numbered
  BY <1>1, IngestAssumption DEF Init, Numbered, Current
<1>4. PostsOwned /\ RowsOfVisits /\ ActiveIsOwn
  BY <1>1 DEF Init, PostsOwned, InOrder, RowsOfVisits, ActiveIsOwn, Current
<1> QED BY <1>2, <1>3, <1>4 DEF IngestInv

LEMMA StepKeeps == IngestInv /\ [Next]_vars => IngestInv'
<1> SUFFICES ASSUME IngestInv, [Next]_vars PROVE IngestInv'
  OBVIOUS
<1>1. CASE Next
  BY <1>1, FrameKeeps, AnsweredKeeps, LostKeeps, UnansweredKeeps, TimedOutKeeps, RefusedKeeps, LateKeeps,
     BackendRestartKeeps, PipelineRestartKeeps DEF Next, Attempt, Crossed
<1>2. CASE UNCHANGED vars
  <2>1. UNCHANGED <<next_id, following, grid, posts, attempts, late, active, rows, events, cells, id_of, seen,
                    answered, intact, clean, frames, faults, restarts>>
    BY <1>2 DEF vars, pipeVars, backVars
  <2> QED BY <2>1 DEF IngestInv, IngestTypes, Numbered, PostsOwned, InOrder, Members, Owned, Followed, RowsOfVisits,
                      ActiveIsOwn, Reaches, HasEnd, Rows, IsComplete
<1> QED BY <1>1, <1>2

\* Ids, posts, rows and active tracks keep their types and belong together, whatever is lost, late or
\* handled twice (track_start, track_end, zone_crossing).
THEOREM IngestAlways == Spec => []IngestInv
<1>1. Init => IngestInv
  BY InitKeeps
<1>2. IngestInv /\ [Next]_vars => IngestInv'
  BY StepKeeps
<1> QED BY <1>1, <1>2, PTL DEF Spec

\* EndedIsComplete: a visit whose start and end were both answered, with no restart of the backend
\* and no failed commit in between, has a complete row (track_start, track_end).
THEOREM EndedAlwaysComplete == Spec => []EndedIsComplete
<1>1. IngestInv => EndedIsComplete
  BY DEF IngestInv, ActiveIsOwn, HasEnd, EndedIsComplete
<1> QED BY <1>1, IngestAlways, PTL

-----------------------------------------------------------------------------
(* What is filed under whom.                                               *)

FiledStep ==
    /\ \A e \in events' \ events : e.row \in DOMAIN rows \ Rows(e.post.visit) => Rows(e.post.visit) = {}
    /\ \A r \in DOMAIN rows :
           rows'[r] # rows[r] /\ rows'[r].by # rows[r].visit => Rows(rows'[r].by) = {}

\* The row a handler finds under the id of a visit is the visit's own unless the visit has none.
LEMMA FoundIsOwn ==
    ASSUME IngestInv, NEW m, Owned(m), m.kind # "heat", active[m.id] \in DOMAIN rows \ Rows(m.visit)
    PROVE  Rows(m.visit) = {}
<1>1. m.visit \in Current(next_id, id_of) /\ m.id = id_of[m.visit]
  BY DEF Owned
<1>2. active[m.id] \notin {None, 0}
  BY FrameFacts, IngestAssumption DEF IngestInv
<1> QED BY <1>1, <1>2 DEF IngestInv, ActiveIsOwn, Reaches

LEMMA HandleFiles ==
    ASSUME IngestInv, NEW m, Owned(m), Handle(m)
    PROVE  FiledStep
<1>1. m \in Post
  BY DEF Owned
<1>2. CASE m.kind = "start"
  <2>1. UNCHANGED events /\ \A r \in DOMAIN rows : rows'[r] = rows[r]
    BY <1>1, <1>2, RowEffects DEF IngestInv, Handle, TrackStart
  <2> QED BY <2>1 DEF FiledStep
<1>3. CASE m.kind = "end"
  <2>1. UNCHANGED events
    BY <1>3 DEF Handle, TrackEnd
  <2>2. \A r \in DOMAIN rows : rows'[r] = IF r = active[m.id] THEN Completed(rows[r], m) ELSE rows[r]
    BY <1>1, <1>3, RowEffects DEF IngestInv
  <2>3. \A r \in DOMAIN rows : Completed(rows[r], m).by = m.visit
    <3>1. \A r \in DOMAIN rows : rows[r] \in Row
      BY FrameFacts DEF IngestInv
    <3> QED BY <3>1 DEF Completed, Row
  <2>4. ASSUME NEW r \in DOMAIN rows, rows'[r] # rows[r], rows'[r].by # rows[r].visit
        PROVE  Rows(rows'[r].by) = {}
    <3>1. r = active[m.id] /\ rows'[r].by = m.visit /\ r \notin Rows(m.visit)
      BY <2>2, <2>3, <2>4 DEF Rows
    <3> QED BY <1>3, <2>4, <3>1, FoundIsOwn
  <2> QED BY <2>1, <2>4 DEF FiledStep
<1>4. CASE m.kind = "cross"
  <2>1. rows' = rows
    BY <1>1, <1>4, RowEffects DEF IngestInv
  <2>2. \A e \in events' \ events : e.post = m /\ e.row = active[m.id]
    <3>1. PICK copy : events' = events \cup {[post |-> m, row |-> active[m.id], copy |-> copy]}
      BY <1>4 DEF Handle, ZoneCrossing
    <3> QED BY <3>1
  <2> QED BY <1>4, <2>1, <2>2, FoundIsOwn DEF FiledStep
<1>5. CASE m.kind = "heat"
  BY <1>5 DEF Handle, HeatmapBatch, FiledStep
<1> QED BY <1>1, <1>2, <1>3, <1>4, <1>5, PostKinds

LEMMA StepFiles == IngestInv /\ [Next]_vars => [FiledStep]_vars
<1> SUFFICES ASSUME IngestInv, Next PROVE FiledStep
  OBVIOUS
<1>1. UNCHANGED <<rows, events>> => FiledStep
  BY DEF FiledStep
<1>2. CASE \E new \in BOOLEAN, gone \in Visits \cup {None}, cross \in [visit : Visits, zone : Zones] \cup {None} :
               Frame(new, gone, cross)
  BY <1>1, <1>2 DEF Frame, backVars
<1>3. CASE Answered \/ Unanswered
  BY <1>3, HeadIsOwned, HandleFiles DEF Answered, Unanswered
<1>4. CASE Lost \/ TimedOut \/ Refused
  BY <1>1, <1>4 DEF Lost, TimedOut, Refused, HandleFails, backVars
<1>5. CASE \E request \in late : Late(request)
  BY <1>5, HandleFiles DEF Late, IngestInv, PostsOwned
<1>6. CASE BackendRestart \/ PipelineRestart
  BY <1>1, <1>6 DEF BackendRestart, PipelineRestart, backVars
<1> QED BY <1>2, <1>3, <1>4, <1>5, <1>6 DEF Next, Attempt

\* FiledUnderOwnVisit: what is posted of a visit reaches the row of another visit only when no row of
\* its own visit is there, however track ids are reused (_active_tracks, track_end, zone_crossing).
THEOREM FiledUnderOwn == Spec => FiledUnderOwnVisit
<1>1. IngestInv /\ [Next]_vars => [FiledStep]_vars
  BY StepFiles
<1>2. Spec => [][FiledStep]_vars
  BY <1>1, IngestAlways, PTL DEF Spec
<1> QED BY <1>2 DEF FiledUnderOwnVisit, FiledStep

-----------------------------------------------------------------------------
(* While nothing goes wrong.                                               *)

\* Every visit is one of the running pipeline, and no two have one id.
LEMMA IdsDiffer ==
    ASSUME IngestInv, ExactSoFar, NEW v \in DOMAIN id_of, NEW w \in DOMAIN id_of, v # w
    PROVE  id_of[v] # id_of[w]
<1>1. Current(next_id, id_of) = DOMAIN id_of
  BY FrameFacts DEF IngestInv, ExactSoFar, Current
<1> QED BY <1>1, OneVisitPerId DEF IngestInv

\* The first post and what it leaves.
LEMMA FirstPost ==
    ASSUME IngestInv, posts # <<>>, posts' = Tail(posts)
    PROVE  /\ Owned(Head(posts)) /\ Head(posts) \in Post
           /\ \A x : x \in Members(posts) <=> x = Head(posts) \/ x \in Members(posts')
           /\ \A x \in Members(posts') : x \in Post /\ Order[Head(posts).kind] < Order[x.kind]
<1>1. posts \in Seq(Post) /\ InOrder(posts)
  BY DEF IngestInv, IngestTypes, PostsOwned
<1>2. /\ Members(posts) = {Head(posts)} \cup Members(posts')
      /\ \A x \in Members(posts') : Order[Head(posts).kind] < Order[x.kind]
  BY <1>1, HeadAndTail
<1>3. \A x \in Members(posts) : Owned(x)
  BY DEF IngestInv, PostsOwned
<1> QED BY <1>2, <1>3 DEF Owned

\* What handling the first post leaves alone.
LEMMA AnsweredLeaves ==
    ASSUME Answered
    PROVE  /\ posts # <<>> /\ posts' = Tail(posts) /\ Handle(Head(posts))
           /\ UNCHANGED <<next_id, following, grid, late, id_of, seen, clean>>
BY DEF Answered

LEMMA StartExact ==
    ASSUME IngestInv, ExactSoFar, Answered, NEW m, m = Head(posts), m.kind = "start", NEW w, w = m.visit,
           NEW n, n = Len(rows) + 1
    PROVE  ExactSoFar'
<1>1. /\ posts # <<>> /\ posts' = Tail(posts) /\ Handle(m)
      /\ UNCHANGED <<next_id, following, grid, late, id_of, seen, clean, events, cells>>
  BY AnsweredLeaves DEF Handle, TrackStart
<1>2. /\ Owned(m) /\ m \in Post /\ m.kind = "start"
      /\ \A x : x \in Members(posts) <=> x = m \/ x \in Members(posts')
      /\ \A x \in Members(posts') : x \in Post /\ x.kind \in {"end", "cross", "heat"}
  <2>1. \A x \in Members(posts') : x \in Post /\ Order["start"] < Order[x.kind]
    BY <1>1, FirstPost
  <2>2. \A x \in Members(posts') : x.kind \in {"end", "cross", "heat"}
    BY <2>1, PostKinds DEF Order
  <2> QED BY <1>1, <2>1, <2>2, FirstPost
<1>3. /\ DOMAIN rows' = DOMAIN rows \cup {n} /\ n \notin DOMAIN rows
      /\ \A r \in DOMAIN rows : rows'[r] = rows[r]
      /\ rows'[n] = NewRow(m) /\ active' = [active EXCEPT ![m.id] = n]
  BY <1>1, <1>2, RowEffects DEF IngestInv
<1>4. w \in DOMAIN id_of /\ m.id = id_of[w] /\ m.id \in TrackIds /\ active \in [TrackIds -> Nat \cup {None}]
  BY <1>2, FrameFacts DEF Owned, Current, IngestInv, IngestTypes
<1>5. NewRow(m).visit = w /\ NewRow(m).exit = None
  BY DEF NewRow
<1>6. Starts(w) /\ Rows(w) = {} /\ w \in Followed
  <2>1. m \in Members(posts)
    BY <1>2
  <2>2. PostExact(m) /\ VisitExact(w) /\ Starts(w)
    BY <1>2, <1>4, <2>1 DEF ExactSoFar, Starts
  <2> QED BY <1>2, <2>2 DEF PostExact, VisitExact
<1>7. \A v : ~Starts(v)' /\ (Ends(v)' <=> Ends(v)) /\ (v # w => ~Starts(v))
  <2>1. \A v : ~Starts(v)' /\ (v # w => ~Starts(v))
    BY <1>2 DEF Starts
  <2>2. \A v : Ends(v)' <=> Ends(v)
    BY <1>2 DEF Ends
  <2> QED BY <2>1, <2>2
<1>8. Rows(w)' = {n} /\ \A v : v # w => Rows(v)' = Rows(v)
  BY <1>3, <1>5, <1>6 DEF Rows
<1>9. ASSUME NEW v \in DOMAIN id_of PROVE VisitExact(v)'
  <2>1. CASE v = w
    <3>1. active'[id_of'[v]] = n /\ ~IsComplete(n)' /\ Followed' = Followed
      BY <1>1, <1>3, <1>4, <1>5, <2>1 DEF IsComplete, Followed
    <3> QED BY <1>3, <1>6, <1>7, <1>8, <2>1, <3>1 DEF VisitExact
  <2>2. CASE v # w
    <3>1. PICK r \in DOMAIN rows : /\ Rows(v) = {r} /\ (IsComplete(r) <=> v \notin Followed /\ ~Ends(v))
                                   /\ IsComplete(r) \/ active[id_of[v]] = r
      BY <1>7, <1>9, <2>2 DEF ExactSoFar, VisitExact
    <3>2. /\ Rows(v)' = {r} /\ r \in DOMAIN rows' /\ (IsComplete(r)' <=> IsComplete(r)) /\ Followed' = Followed
      BY <1>1, <1>3, <1>8, <2>2, <3>1 DEF IsComplete, Followed
    <3>3. active'[id_of'[v]] = active[id_of[v]]
      <4>1. id_of[v] # m.id /\ id_of[v] \in TrackIds
        BY <1>4, <1>9, <2>2, IdsDiffer, FrameFacts DEF IngestInv
      <4> QED BY <1>1, <1>3, <1>4, <4>1
    <3> QED BY <1>7, <3>1, <3>2, <3>3 DEF VisitExact
  <2> QED BY <2>1, <2>2
<1>10. \A x \in Members(posts') : PostExact(x)'
  <2>1. Followed' = Followed
    BY <1>1 DEF Followed
  <2>2. \A x \in Members(posts') : PostExact(x)
    BY <1>2 DEF ExactSoFar
  <2> QED BY <1>1, <2>1, <2>2 DEF PostExact
<1>11. \A e \in events' : e.copy = 0 /\ e.row \in Rows(e.post.visit)'
  BY <1>1, <1>6, <1>8 DEF ExactSoFar
<1>12. (\A x \in Members(posts') : x.kind # "heat") => cells' + grid' = seen'
  BY <1>1, <1>2 DEF ExactSoFar
<1> QED BY <1>1, <1>9, <1>10, <1>11, <1>12 DEF ExactSoFar, Members

LEMMA EndExact ==
    ASSUME IngestInv, ExactSoFar, Answered, NEW m, m = Head(posts), m.kind = "end", NEW w, w = m.visit,
           NEW n, n = active[m.id]
    PROVE  ExactSoFar'
<1>1. /\ posts # <<>> /\ posts' = Tail(posts) /\ Handle(m)
      /\ UNCHANGED <<next_id, following, grid, late, id_of, seen, clean, events, cells>>
  BY AnsweredLeaves DEF Handle, TrackEnd
<1>2. /\ Owned(m) /\ m \in Post /\ m.kind = "end"
      /\ \A x : x \in Members(posts) <=> x = m \/ x \in Members(posts')
      /\ \A x \in Members(posts') : x \in Post /\ x.kind \in {"cross", "heat"}
  <2>1. \A x \in Members(posts') : x \in Post /\ Order["end"] < Order[x.kind]
    BY <1>1, FirstPost
  <2>2. \A x \in Members(posts') : x.kind \in {"cross", "heat"}
    BY <2>1, PostKinds DEF Order
  <2> QED BY <1>1, <2>1, <2>2, FirstPost
<1>3. /\ DOMAIN rows' = DOMAIN rows /\ active' = [active EXCEPT ![m.id] = None]
      /\ \A r \in DOMAIN rows : rows'[r] = IF r = n THEN Completed(rows[r], m) ELSE rows[r]
  BY <1>1, <1>2, RowEffects DEF IngestInv
<1>4. w \in DOMAIN id_of /\ m.id = id_of[w] /\ m.id \in TrackIds /\ active \in [TrackIds -> Nat \cup {None}]
  BY <1>2, FrameFacts DEF Owned, Current, IngestInv, IngestTypes
<1>5. \A r \in DOMAIN rows : Completed(rows[r], m).visit = rows[r].visit /\ Completed(rows[r], m).exit # None
  <2>1. \A r \in DOMAIN rows : rows[r] \in Row
    BY FrameFacts DEF IngestInv
  <2>2. m.at # None
    BY <1>2, PostKinds, IngestAssumption
  <2> QED BY <2>1, <2>2 DEF Completed, Row
<1>6. ~Starts(w) /\ Ends(w) /\ w \notin Followed /\ n \in DOMAIN rows /\ Rows(w) = {n}
  <2>1. m \in Members(posts)
    BY <1>2
  <2>2. PostExact(m) /\ VisitExact(w) /\ Ends(w)
    BY <1>2, <1>4, <2>1 DEF ExactSoFar, Ends
  <2>3. w \notin Followed /\ ~Starts(w)
    <3>1. w \notin Followed
      BY <1>2, <2>2 DEF PostExact
    <3> QED BY <3>1 DEF ExactSoFar, PostExact, Starts
  <2> QED BY <1>4, <2>2, <2>3 DEF VisitExact
<1>7. \A v : (Starts(v)' <=> Starts(v)) /\ (v # w => (Ends(v)' <=> Ends(v))) /\ ~Ends(v)'
  <2>1. \A v : Starts(v)' <=> Starts(v)
    BY <1>2 DEF Starts
  <2>2. \A v : (v # w => (Ends(v)' <=> Ends(v))) /\ ~Ends(v)'
    BY <1>2 DEF Ends
  <2> QED BY <2>1, <2>2
<1>8. \A v : Rows(v)' = Rows(v)
  BY <1>3, <1>5 DEF Rows
<1>9. ASSUME NEW v \in DOMAIN id_of PROVE VisitExact(v)'
  <2>1. CASE v = w
    <3>1. IsComplete(n)' /\ Followed' = Followed
      BY <1>1, <1>3, <1>5, <1>6 DEF IsComplete, Followed
    <3>2. n \in DOMAIN rows' /\ Rows(v)' = {n}
      BY <1>3, <1>6, <1>8, <2>1
    <3> QED BY <1>6, <1>7, <2>1, <3>1, <3>2 DEF VisitExact
  <2>2. CASE v # w /\ Starts(v)
    <3>1. Rows(v)' = {}
      BY <1>8, <1>9, <2>2 DEF ExactSoFar, VisitExact
    <3> QED BY <1>7, <2>2, <3>1 DEF VisitExact
  <2>3. CASE v # w /\ ~Starts(v)
    <3>1. PICK r \in DOMAIN rows : /\ Rows(v) = {r} /\ (IsComplete(r) <=> v \notin Followed /\ ~Ends(v))
                                   /\ IsComplete(r) \/ active[id_of[v]] = r
      BY <1>9, <2>3 DEF ExactSoFar, VisitExact
    <3>2. r # n
      BY <1>6, <2>3, <3>1 DEF Rows
    <3>3. /\ Rows(v)' = {r} /\ r \in DOMAIN rows' /\ (IsComplete(r)' <=> IsComplete(r)) /\ Followed' = Followed
      BY <1>1, <1>3, <1>8, <3>1, <3>2 DEF IsComplete, Followed
    <3>4. active'[id_of'[v]] = active[id_of[v]]
      <4>1. id_of[v] # m.id /\ id_of[v] \in TrackIds
        BY <1>4, <1>9, <2>3, IdsDiffer, FrameFacts DEF IngestInv
      <4> QED BY <1>1, <1>3, <1>4, <4>1
    <3> QED BY <1>7, <2>3, <3>1, <3>3, <3>4 DEF VisitExact
  <2> QED BY <2>1, <2>2, <2>3
<1>10. \A x \in Members(posts') : PostExact(x)'
  <2>1. Followed' = Followed
    BY <1>1 DEF Followed
  <2>2. \A x \in Members(posts') : PostExact(x)
    BY <1>2 DEF ExactSoFar
  <2> QED BY <1>1, <2>1, <2>2 DEF PostExact
<1>11. \A e \in events' : e.copy = 0 /\ e.row \in Rows(e.post.visit)'
  BY <1>1, <1>8 DEF ExactSoFar
<1>12. (\A x \in Members(posts') : x.kind # "heat") => cells' + grid' = seen'
  BY <1>1, <1>2 DEF ExactSoFar
<1> QED BY <1>1, <1>9, <1>10, <1>11, <1>12 DEF ExactSoFar, Members

LEMMA CrossExact ==
    ASSUME IngestInv, ExactSoFar, Answered, NEW m, m = Head(posts), m.kind = "cross", NEW w, w = m.visit
    PROVE  ExactSoFar'
<1>1. /\ posts # <<>> /\ posts' = Tail(posts) /\ Handle(m)
      /\ UNCHANGED <<next_id, following, grid, late, id_of, seen, clean, rows, active, cells>>
  BY AnsweredLeaves DEF Handle, ZoneCrossing
<1>2. /\ Owned(m) /\ m \in Post
      /\ \A x : x \in Members(posts) <=> x = m \/ x \in Members(posts')
      /\ \A x \in Members(posts') : x \in Post /\ x.kind = "heat"
      /\ \A x \in Members(posts) : x.kind \in {"cross", "heat"}
  <2>1. \A x \in Members(posts') : x \in Post /\ Order["cross"] < Order[x.kind]
    BY <1>1, FirstPost
  <2>2. \A x \in Members(posts') : x.kind = "heat"
    BY <2>1, PostKinds DEF Order
  <2> QED BY <1>1, <2>1, <2>2, FirstPost
<1>3. w \in DOMAIN id_of /\ m.id = id_of[w]
  BY <1>2 DEF Owned, Current
<1>4. \A v : ~Starts(v) /\ ~Ends(v) /\ ~Starts(v)' /\ ~Ends(v)'
  BY <1>2 DEF Starts, Ends
<1>5. w \in Followed /\ Rows(w) = {active[m.id]} /\ \A e \in events : e.post # m
  <2>1. PostExact(m) /\ VisitExact(w)
    BY <1>2, <1>3 DEF ExactSoFar
  <2> QED BY <1>3, <1>4, <2>1 DEF PostExact, VisitExact
<1>6. Cardinality({e \in events : e.post = m}) = 0
  <2>1. {e \in events : e.post = m} = {}
    BY <1>5
  <2> QED BY <2>1, FS_EmptySet
<1>7. events' = events \cup {[post |-> m, row |-> active[m.id], copy |-> 0]}
  BY <1>6, <1>1 DEF Handle, ZoneCrossing
<1>8. \A v : Rows(v)' = Rows(v)
  BY <1>1 DEF Rows
<1>9. \A v \in DOMAIN id_of : VisitExact(v)'
  <2>1. Followed' = Followed /\ \A r : IsComplete(r)' <=> IsComplete(r)
    BY <1>1 DEF Followed, IsComplete
  <2> QED BY <1>1, <1>4, <1>8, <2>1 DEF ExactSoFar, VisitExact
<1>10. \A x \in Members(posts') : PostExact(x)'
  <2>1. \A x \in Members(posts') : PostExact(x) /\ x.kind = "heat"
    BY <1>2 DEF ExactSoFar
  <2> QED BY <1>1, <2>1 DEF PostExact
<1>11. \A e \in events' : e.copy = 0 /\ e.row \in Rows(e.post.visit)'
  BY <1>5, <1>7, <1>8 DEF ExactSoFar
<1>12. (\A x \in Members(posts') : x.kind # "heat") => cells' + grid' = seen'
  BY <1>1, <1>2 DEF ExactSoFar
<1> QED BY <1>1, <1>9, <1>10, <1>11, <1>12 DEF ExactSoFar, Members

LEMMA HeatExact ==
    ASSUME IngestInv, ExactSoFar, Answered, NEW m, m = Head(posts), m.kind = "heat"
    PROVE  ExactSoFar'
<1>1. /\ posts # <<>> /\ posts' = Tail(posts) /\ cells' = cells + m.count
      /\ UNCHANGED <<next_id, following, grid, late, id_of, seen, clean, rows, active, events>>
  BY AnsweredLeaves DEF Handle, HeatmapBatch
<1>2. m \in Members(posts) /\ Members(posts') = {} /\ \A x \in Members(posts) : x.kind = "heat"
  <2>1. \A x \in Members(posts') : x \in Post /\ Order["heat"] < Order[x.kind]
    BY <1>1, FirstPost
  <2>2. Members(posts') = {}
    BY <2>1, PostKinds DEF Order
  <2> QED BY <1>1, <2>2, FirstPost
<1>3. \A v : ~Starts(v) /\ ~Ends(v) /\ ~Starts(v)' /\ ~Ends(v)'
  BY <1>2 DEF Starts, Ends
<1>4. \A v : Rows(v)' = Rows(v)
  BY <1>1 DEF Rows
<1>5. \A v \in DOMAIN id_of : VisitExact(v)'
  <2>1. Followed' = Followed /\ \A r : IsComplete(r)' <=> IsComplete(r)
    BY <1>1 DEF Followed, IsComplete
  <2> QED BY <1>1, <1>3, <1>4, <2>1 DEF ExactSoFar, VisitExact
<1>6. cells' + grid' = seen'
  <2>1. PostExact(m)
    BY <1>2 DEF ExactSoFar
  <2>2. cells + grid + m.count = seen
    BY <2>1 DEF PostExact
  <2>3. cells \in Nat /\ grid \in Nat /\ m.count \in Nat
    <3>1. m \in Post
      BY <1>1, FirstPost
    <3> QED BY <3>1, PostKinds DEF HeatPost, IngestInv, IngestTypes
  <2> QED BY <1>1, <2>2, <2>3
<1> QED BY <1>1, <1>2, <1>4, <1>5, <1>6 DEF ExactSoFar, Members

\* What the posts of a frame say of a visit.
LEMMA FrameStartsEnds ==
    ASSUME IngestInv, NEW new \in BOOLEAN, NEW gone \in Visits \cup {None}, NEW cross \in Crossed \cup {None},
           Frame(new, gone, cross), NEW v
    PROVE  (Starts(v)' <=> new /\ v = New) /\ (Ends(v)' <=> gone # None /\ v = gone)
<1> DEFINE b == Batch(There(new, gone))
           s == Start(New, next_id + 1, frames)
           e == End(gone, id_of[gone], following[gone], frames)
           c == Crossing(cross.visit, IdIn(cross.visit), cross.zone, frames)
           h == Heat(b, frames)
<1>1. \A x : x \in Members(posts') <=> InFrame(x, new, gone, cross, b)
  BY FramePosted
<1>2. s.kind = "start" /\ e.kind = "end" /\ c.kind = "cross" /\ h.kind = "heat" /\ s.visit = New /\ e.visit = gone
  BY DEF Start, End, Crossing, Heat
<1>3. \A x : x \in Members(posts') <=>
               (new /\ x = s) \/ (gone # None /\ x = e) \/ (cross # None /\ x = c) \/ (b > 0 /\ x = h)
  BY <1>1 DEF InFrame
<1> HIDE DEF s, e, c, h, b
<1>4. (\E x \in Members(posts') : x.kind = "start" /\ x.visit = v) <=> new /\ v = New
  BY <1>2, <1>3
<1>5. (\E x \in Members(posts') : x.kind = "end" /\ x.visit = v) <=> gone # None /\ v = gone
  BY <1>2, <1>3
<1>6. (\E x \in Members(posts)' : x.kind = "start" /\ x.visit = v) <=> new /\ v = New
  BY <1>4 DEF Members
<1>7. (\E x \in Members(posts)' : x.kind = "end" /\ x.visit = v) <=> gone # None /\ v = gone
  BY <1>5 DEF Members
<1> QED BY <1>6, <1>7 DEF Starts, Ends

\* The detections of a frame go to the accumulator or, with all before them, into its batch.
LEMMA FrameCounts ==
    ASSUME IngestInv, NEW new \in BOOLEAN, NEW gone \in Visits \cup {None}, NEW cross \in Crossed \cup {None},
           Frame(new, gone, cross), cells + grid = seen
    PROVE  /\ cells' + grid' + Batch(There(new, gone)) = seen'
           /\ (\A x \in Members(posts') : x.kind # "heat") => Batch(There(new, gone)) = 0
<1> DEFINE T == There(new, gone)
<1>1. /\ grid' = (IF (frames + 1) % FlushEvery = 0 THEN 0 ELSE grid + Cardinality(T))
      /\ seen' = seen + Cardinality(T) /\ cells' = cells
  BY DEF Frame, There, backVars
<1>2. Cardinality(T) \in Nat /\ grid \in Nat /\ cells \in Nat /\ Batch(T) \in Nat
  BY FrameFollows, FramePosted DEF IngestInv, IngestTypes
<1>3. \A x : InFrame(x, new, gone, cross, Batch(T)) => x \in Members(posts')
  BY FramePosted
<1>4. Batch(T) > 0 => Heat(Batch(T), frames) \in Members(posts')
  BY <1>3 DEF InFrame
<1>5. Heat(Batch(T), frames).kind = "heat"
  BY KindOf
<1> HIDE DEF T
<1>6. cells' + grid' + Batch(T) = seen'
  BY <1>1, <1>2 DEF Batch
<1> QED BY <1>2, <1>4, <1>5, <1>6 DEF T

\* What is posted of a frame fits who is followed after it.
LEMMA FramePostExact ==
    ASSUME IngestInv, ExactSoFar, NEW new \in BOOLEAN, NEW gone \in Visits \cup {None},
           NEW cross \in Crossed \cup {None}, Frame(new, gone, cross), NEW x \in Members(posts')
    PROVE  PostExact(x)'
<1> DEFINE T == There(new, gone)
           b == Batch(T)
<1>1. InFrame(x, new, gone, cross, b) /\ Followed' = T
  BY FramePosted, FrameFollows
<1>2. posts = <<>> /\ Members(posts) = {} /\ events' = events
  BY DEF Frame, Members, backVars
<1>3. cells + grid = seen
  BY <1>2 DEF ExactSoFar
<1>4. cells' + grid' + b = seen'
  BY <1>3, FrameCounts
<1>5. CASE new /\ x = Start(New, next_id + 1, frames)
  <2>1. x.kind = "start" /\ x.visit = New
    BY <1>5 DEF Start
  <2>2. New \in T
    <3>1. New \notin DOMAIN id_of /\ New \in Visits /\ gone # None => gone \in DOMAIN id_of
      BY <1>5, FrameNumbers DEF Frame, IngestInv, PostsOwned, Current
    <3>2. New # None
      BY FrameFacts, IngestAssumption DEF IngestInv, New
    <3> QED BY <1>5, <3>1, <3>2, FrameNumbers DEF There
  <2> QED BY <1>1, <2>1, <2>2 DEF PostExact
<1>6. CASE gone # None /\ x = End(gone, id_of[gone], following[gone], frames)
  <2>1. x.kind = "end" /\ x.visit = gone
    BY <1>6 DEF End
  <2> QED BY <1>1, <2>1 DEF PostExact, There
<1>7. CASE cross # None /\ x = Crossing(cross.visit, IdIn(cross.visit), cross.zone, frames)
  <2>1. x.kind = "cross" /\ x.visit = cross.visit /\ x.at = frames
    BY <1>7 DEF Crossing
  <2>2. x.visit \in T
    BY <1>7, <2>1 DEF Frame, There
  <2>3. \A e \in events' : e.post # x
    <3>1. \A e \in events : e.post.at < frames
      BY DEF IngestInv, RowsOfVisits
    <3>2. frames \in Nat
      BY FrameFacts DEF IngestInv
    <3> QED BY <1>2, <2>1, <3>1, <3>2
  <2> QED BY <1>1, <2>1, <2>2, <2>3 DEF PostExact
<1>8. CASE b > 0 /\ x = Heat(b, frames)
  <2>1. x.kind = "heat" /\ x.count = b
    BY <1>8 DEF Heat
  <2> QED BY <1>4, <2>1 DEF PostExact
<1> QED BY <1>1, <1>5, <1>6, <1>7, <1>8 DEF InFrame

LEMMA FrameExact ==
    ASSUME IngestInv, ExactSoFar, NEW new \in BOOLEAN, NEW gone \in Visits \cup {None},
           NEW cross \in Crossed \cup {None}, Frame(new, gone, cross)
    PROVE  ExactSoFar'
<1> DEFINE T == There(new, gone)
<1>1. /\ posts = <<>> /\ UNCHANGED <<late, active, rows, events, cells>>
      /\ gone # None => gone \in Followed
  BY DEF Frame, backVars
<1>2. Members(posts) = {}
  BY <1>1 DEF Members
<1>3. /\ DOMAIN id_of' = DOMAIN id_of \cup (IF new THEN {New} ELSE {}) /\ New \notin DOMAIN id_of
      /\ \A v \in DOMAIN id_of : id_of'[v] = id_of[v]
      /\ next_id' = Len(id_of')
  <2>1. Len(id_of) \in Nat /\ DOMAIN id_of = 1 .. Len(id_of) /\ next_id = Len(id_of)
    BY FrameFacts DEF IngestInv, ExactSoFar
  <2>2. /\ DOMAIN id_of' = 1 .. Len(id_of') /\ Len(id_of') = Len(id_of) + (IF new THEN 1 ELSE 0)
        /\ next_id' = next_id + (IF new THEN 1 ELSE 0)
        /\ New \notin DOMAIN id_of /\ \A v \in DOMAIN id_of : id_of'[v] = id_of[v]
    BY FrameNumbers
  <2>3. DOMAIN id_of' = DOMAIN id_of \cup (IF new THEN {New} ELSE {})
    BY <2>1, <2>2 DEF New
  <2> QED BY <2>1, <2>2, <2>3
<1>4. \A v : (Starts(v)' <=> new /\ v = New) /\ (Ends(v)' <=> gone # None /\ v = gone)
  BY FrameStartsEnds
<1>5. \A v : Rows(v)' = Rows(v) /\ ~Starts(v) /\ ~Ends(v)
  BY <1>1, <1>2 DEF Rows, Starts, Ends
<1>6. Followed' = T
  BY FrameFollows
<1>7. ASSUME NEW v \in DOMAIN id_of' PROVE VisitExact(v)'
  <2>1. CASE new /\ v = New
    <3>1. Rows(New) = {}
      BY <1>3 DEF IngestInv, RowsOfVisits, Rows
    <3> QED BY <1>4, <1>5, <2>1, <3>1 DEF VisitExact
  <2>2. CASE v \in DOMAIN id_of
    <3>1. PICK r \in DOMAIN rows : /\ Rows(v) = {r} /\ (IsComplete(r) <=> v \notin Followed)
                                   /\ IsComplete(r) \/ active[id_of[v]] = r
      BY <1>5, <2>2 DEF ExactSoFar, VisitExact
    <3>2. v # None
      BY <2>2, FrameFacts, IngestAssumption DEF IngestInv
    <3>3. v \notin Followed <=> v \notin T /\ ~(gone # None /\ v = gone)
      BY <1>1, <1>3, <2>2, <3>2 DEF There
    <3>4. ~Starts(v)' /\ (Ends(v)' <=> gone # None /\ v = gone)
      BY <1>3, <1>4, <2>2
    <3>5. IsComplete(r)' <=> v \notin Followed' /\ ~Ends(v)'
      BY <1>1, <1>6, <3>1, <3>3, <3>4 DEF IsComplete
    <3>6. active'[id_of'[v]] = active[id_of[v]] /\ (IsComplete(r)' <=> IsComplete(r)) /\ r \in DOMAIN rows'
      BY <1>1, <1>3, <2>2 DEF IsComplete
    <3> QED BY <1>5, <3>1, <3>4, <3>5, <3>6 DEF VisitExact
  <2> QED BY <1>3, <2>1, <2>2
<1>8. \A x \in Members(posts') : PostExact(x)'
  BY FramePostExact
<1>9. (\A x \in Members(posts') : x.kind # "heat") => cells' + grid' = seen'
  <2>1. cells + grid = seen
    BY <1>2 DEF ExactSoFar
  <2>2. /\ cells' + grid' + Batch(T) = seen'
        /\ (\A x \in Members(posts') : x.kind # "heat") => Batch(T) = 0
    BY <2>1, FrameCounts
  <2>3. cells' \in Nat /\ grid' \in Nat
    BY <1>1, FramePosted DEF IngestInv, IngestTypes
  <2> QED BY <2>2, <2>3
<1>10. late' = {} /\ \A e \in events' : e.copy = 0 /\ e.row \in Rows(e.post.visit)'
  BY <1>1, <1>5 DEF ExactSoFar
<1> QED BY <1>3, <1>7, <1>8, <1>9, <1>10 DEF ExactSoFar, Members

LEMMA CleanKeeps == IngestInv /\ CleanInv /\ [Next]_vars => CleanInv'
<1> SUFFICES ASSUME IngestInv, CleanInv, [Next]_vars, clean' PROVE ExactSoFar'
  BY DEF CleanInv
<1>1. CASE \E new \in BOOLEAN, gone \in Visits \cup {None}, cross \in [visit : Visits, zone : Zones] \cup {None} :
               Frame(new, gone, cross)
  <2>1. PICK new \in BOOLEAN, gone \in Visits \cup {None}, cross \in Crossed \cup {None} : Frame(new, gone, cross)
    BY <1>1 DEF Crossed
  <2>2. ExactSoFar
    BY <2>1 DEF Frame, CleanInv
  <2> QED BY <2>1, <2>2, FrameExact
<1>2. CASE Answered
  <2>1. ExactSoFar
    BY <1>2 DEF Answered, CleanInv
  <2>2. Head(posts).kind \in {"start", "end", "cross", "heat"}
    BY <1>2, HeadIsOwned, PostKinds DEF Answered, Owned
  <2> QED BY <1>2, <2>1, <2>2, StartExact, EndExact, CrossExact, HeatExact
<1>3. CASE Lost \/ Unanswered \/ TimedOut \/ Refused \/ BackendRestart \/ PipelineRestart
  BY <1>3 DEF Lost, Unanswered, TimedOut, Refused, Fault, BackendRestart, PipelineRestart
<1>4. CASE \E request \in late : Late(request)
  BY <1>4 DEF Late, CleanInv, ExactSoFar
<1>5. CASE UNCHANGED vars
  <2>1. UNCHANGED <<next_id, following, grid, posts, late, active, rows, events, cells, id_of, seen, clean>>
    BY <1>5 DEF vars, pipeVars, backVars
  <2>2. ExactSoFar
    BY <2>1 DEF CleanInv
  <2> QED BY <2>1, <2>2 DEF ExactSoFar, Members, PostExact, VisitExact, Starts, Ends, Rows, IsComplete, Followed
<1> QED BY <1>1, <1>2, <1>3, <1>4, <1>5 DEF Next, Attempt

LEMMA InitClean == Init => CleanInv
<1> SUFFICES ASSUME Init PROVE ExactSoFar
  BY DEF CleanInv
<1>1. DOMAIN id_of = {} /\ Members(posts) = {} /\ Len(id_of) = 0
  BY DEF Init, Members
<1> QED BY <1>1 DEF Init, ExactSoFar

\* FaultFreeExact: while nothing fails and nothing restarts, once a frame is posted there is one row per
\* visit, complete iff it left, every crossing is under its visit's row and every detection is in the
\* heatmap or still in the accumulator (run, _post and the handlers of routers/events.py).
THEOREM FaultFreeAlwaysExact == Spec => []FaultFreeExact
<1>1. Init => CleanInv
  BY InitClean
<1>2. IngestInv /\ CleanInv /\ [Next]_vars => CleanInv'
  BY CleanKeeps
<1>3. IngestInv /\ CleanInv => FaultFreeExact
  <2> SUFFICES ASSUME ExactSoFar, posts = <<>>
               PROVE  /\ \A v \in DOMAIN id_of : \E r \in DOMAIN rows :
                             Rows(v) = {r} /\ (IsComplete(r) <=> v \notin Followed)
                      /\ \A e \in events : e.copy = 0 /\ e.row \in Rows(e.post.visit)
                      /\ cells + grid = seen
    BY DEF CleanInv, FaultFreeExact
  <2>1. Members(posts) = {}
    BY DEF Members
  <2>2. \A v : ~Starts(v) /\ ~Ends(v)
    BY <2>1 DEF Starts, Ends
  <2> QED BY <2>1, <2>2 DEF ExactSoFar, VisitExact
<1>4. Spec => []CleanInv
  BY <1>1, <1>2, IngestAlways, PTL DEF Spec
<1> QED BY <1>3, <1>4, IngestAlways, PTL

-----------------------------------------------------------------------------
(* The first page of the history.                                          *)

\* Of a part of A, the n newest hold every element that is among the n newest of A.
LEMMA NewestKeeps ==
    ASSUME NEW A, IsFiniteSet(A), NEW S, S \subseteq A, NEW n \in Nat, NEW P \in Newest(S, n),
           \A a \in A : a.at \in Nat, NEW e \in S, Cardinality({f \in A : f.at >= e.at}) <= n
    PROVE  e \in P
<1> SUFFICES ASSUME e \notin P PROVE FALSE
  OBVIOUS
<1>1. /\ P \in SUBSET S /\ Cardinality(P) = (IF n < Cardinality(S) THEN n ELSE Cardinality(S))
      /\ \A p \in P, q \in S \ P : p.at >= q.at
  BY DEF Newest
<1>2. IsFiniteSet(S) /\ IsFiniteSet(P)
  BY <1>1, FS_Subset
<1>3. Cardinality(S) \in Nat /\ Cardinality(P) \in Nat
  BY <1>2, FS_CardinalityType
<1>4. Cardinality(P) = n
  <2>1. Cardinality(S) = Cardinality(P) => S = P
    BY <1>1, <1>2, FS_Subset
  <2> QED BY <1>1, <1>3, <2>1
<1> DEFINE newer == {f \in A : f.at >= e.at}
<1>5. P \cup {e} \subseteq newer
  <2>1. \A p \in P : p.at >= e.at
    BY <1>1
  <2> QED BY <1>1, <2>1
<1>6. Cardinality(P \cup {e}) = n + 1
  BY <1>2, <1>4, FS_AddElement
<1>7. IsFiniteSet(newer)
  BY FS_Subset
<1>8. Cardinality(P \cup {e}) <= Cardinality(newer) /\ Cardinality(newer) \in Nat
  BY <1>5, <1>7, FS_Subset, FS_CardinalityType
<1> QED BY <1>6, <1>8

\* What is on the pages is finite, and has a time.
LEMMA HistoryFinite ==
    ASSUME IngestInv
    PROVE  /\ IsFiniteSet(Entries) /\ IsFiniteSet(Exits(Entries)) /\ IsFiniteSet(ZoneEvents)
           /\ \A x \in Entries \cup Exits(Entries) \cup ZoneEvents : x.at \in Nat
<1>1. IsFiniteSet(DOMAIN rows)
  <2>1. DOMAIN rows = 1 .. Len(rows) /\ Len(rows) \in Nat
    BY FrameFacts DEF IngestInv
  <2> QED BY <2>1, FS_Interval
<1>2. IsFiniteSet(Entries)
  <2> DEFINE f == [r \in DOMAIN rows |-> [row |-> r, at |-> rows[r].entry]]
  <2>1. f \in Surjection(DOMAIN rows, Entries)
    BY DEF Surjection, Entries
  <2> HIDE DEF f
  <2> QED BY <1>1, <2>1, FS_Surjection
<1>3. IsFiniteSet(Exits(Entries))
  <2> DEFINE D == {x \in Entries : rows[x.row].exit # None}
             f == [x \in D |-> [left |-> x.row, at |-> rows[x.row].exit]]
  <2>1. IsFiniteSet(D)
    BY <1>2, FS_Subset
  <2>2. f \in Surjection(D, Exits(Entries))
    BY DEF Surjection, Exits
  <2> HIDE DEF f, D
  <2> QED BY <2>1, <2>2, FS_Surjection
<1>4. IsFiniteSet(ZoneEvents)
  <2> DEFINE f == [x \in events |-> [event |-> x, at |-> x.post.at]]
  <2>1. f \in Surjection(events, ZoneEvents)
    BY DEF Surjection, ZoneEvents
  <2>2. IsFiniteSet(events)
    BY DEF IngestInv, IngestTypes
  <2> HIDE DEF f
  <2> QED BY <2>1, <2>2, FS_Surjection
<1>5. \A r \in DOMAIN rows : rows[r].entry \in Nat /\ rows[r].exit \in Nat \cup {None}
  BY FrameFacts DEF IngestInv, Row
<1>6. \A x \in Entries : x.row \in DOMAIN rows /\ x.at \in Nat
  BY <1>5 DEF Entries
<1>7. \A x \in Exits(Entries) : x.at \in Nat
  BY <1>5, <1>6 DEF Exits
<1>8. \A x \in ZoneEvents : x.at \in Nat
  <2>1. \A e \in events : e.post.at \in Nat
    BY PostKinds DEF IngestInv, IngestTypes, Event
  <2> QED BY <2>1 DEF ZoneEvents
<1> QED BY <1>2, <1>3, <1>4, <1>6, <1>7, <1>8

\* FirstPageIsNewest: get_history cuts each table and then their union at the limit, and loses no entry
\* and no zone event that is among the newest of all.
THEOREM FirstPageAlwaysNewest == Spec => []FirstPageIsNewest
<1>1. ASSUME IngestInv PROVE FirstPageIsNewest
  <2> DEFINE all == Entries \cup Exits(Entries) \cup ZoneEvents
  <2> SUFFICES ASSUME NEW page \in FirstPages, NEW e \in Entries \cup ZoneEvents,
                      Cardinality({f \in all : f.at >= e.at}) <= Limit
               PROVE  e \in page
    BY DEF FirstPageIsNewest
  <2>1. PICK entries, crossed : /\ entries \in Newest(Entries, Limit) /\ crossed \in Newest(ZoneEvents, Limit)
                                /\ page \in Newest(entries \cup Exits(entries) \cup crossed, Limit)
    <3> DEFINE Page(entries, crossed) == Newest(entries \cup Exits(entries) \cup crossed, Limit)
               E == Newest(Entries, Limit)
               C == Newest(ZoneEvents, Limit)
    <3>1. page \in UNION {Page(entries, crossed) : entries \in E, crossed \in C}
      BY DEF FirstPages
    <3> HIDE DEF Page, E, C
    <3>2. \E entries \in E, crossed \in C : page \in Page(entries, crossed)
      BY <3>1
    <3> QED BY <3>2 DEF Page, E, C
  <2>2. entries \subseteq Entries /\ crossed \subseteq ZoneEvents
    BY <2>1 DEF Newest
  <2>3. Exits(entries) \subseteq Exits(Entries)
    BY <2>2 DEF Exits
  <2>4. IsFiniteSet(all) /\ \A x \in all : x.at \in Nat
    <3>1. IsFiniteSet(Entries \cup Exits(Entries))
      BY <1>1, HistoryFinite, FS_Union
    <3> QED BY <1>1, <3>1, HistoryFinite, FS_Union
  <2>5. Limit \in Nat
    BY IngestAssumption
  <2>6. Entries \subseteq all /\ ZoneEvents \subseteq all /\ entries \cup Exits(entries) \cup crossed \subseteq all
    BY <2>2, <2>3
  <2> HIDE DEF all
  <2>7. e \in entries \cup Exits(entries) \cup crossed
    <3>1. CASE e \in Entries
      BY <2>1, <2>4, <2>5, <2>6, <3>1, NewestKeeps
    <3>2. CASE e \in ZoneEvents
      BY <2>1, <2>4, <2>5, <2>6, <3>2, NewestKeeps
    <3> QED BY <3>1, <3>2
  <2> QED BY <2>1, <2>4, <2>5, <2>6, <2>7, NewestKeeps
<1> QED BY <1>1, IngestAlways, PTL
=============================================================================
