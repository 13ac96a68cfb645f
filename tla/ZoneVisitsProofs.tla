---------------------------- MODULE ZoneVisitsProofs ----------------------------
(* Theorems about ZoneVisits for all zones, visitors, thresholds and numbers *)
(* of edits and failures.                                                    *)
EXTENDS ZoneVisits, Sums, TLAPS

-----------------------------------------------------------------------------
(* One track over one frame.                                                 *)

\* Only a lost track has frames to its account, and they bound the frames without a box.
Sound(t, m) ==
    /\ t.state # "lost" => t.tsu = 0
    /\ m <= t.tsu /\ t.tsu <= 2 * m + 1

LEMMA HitIsTrack ==
    ASSUME NEW t \in Tracks
    PROVE  /\ Hit(t) \in Tracks /\ Hit(t).state = t.state /\ Hit(t).tsu = 0 /\ Hit(t).start = t.start
           /\ MarkTracked(t) \in Tracks /\ MarkTracked(t).state = "tracked"
           /\ MarkTracked(t).tsu = 0 /\ MarkTracked(t).start = t.start
<1> DEFINE h == IF t.hits < MinHits THEN t.hits + 1 ELSE MinHits
<1>1. h \in 1 .. MinHits
  BY TrackerAssumption DEF Tracks
<1>2. Hit(t) = [state |-> t.state, hits |-> h, tsu |-> 0, start |-> t.start]
  <2>1. Hit(t) = [t EXCEPT !.hits = h, !.tsu = 0]
    BY DEF Hit
  <2> HIDE DEF h
  <2>2. t = [state |-> t.state, hits |-> t.hits, tsu |-> t.tsu, start |-> t.start]
    BY DEF Tracks
  <2>3. DOMAIN t = {"state", "hits", "tsu", "start"}
    BY DEF Tracks
  <2> QED BY <2>1, <2>2, <2>3
<1>3. MarkTracked(t) = [state |-> "tracked", hits |-> h, tsu |-> 0, start |-> t.start]
  BY <1>2 DEF MarkTracked
<1> HIDE DEF h
<1> QED BY <1>1, <1>2, <1>3 DEF Tracks, States

LEMMA LostIsTrack ==
    ASSUME NEW t \in Tracks
    PROVE  /\ MarkLost(t) \in Tracks /\ MarkLost(t).state = "lost"
           /\ MarkLost(t).tsu = t.tsu + 1 /\ MarkLost(t).start = t.start
<1>1. t = [state |-> t.state, hits |-> t.hits, tsu |-> t.tsu, start |-> t.start] /\ t.tsu + 1 \in Nat
  BY DEF Tracks
<1>2. MarkLost(t) = [state |-> "lost", hits |-> t.hits, tsu |-> t.tsu + 1, start |-> t.start]
  <2>1. DOMAIN t = {"state", "hits", "tsu", "start"}
    BY DEF Tracks
  <2> DEFINE n == t.tsu + 1
  <2>2. MarkLost(t) = [t EXCEPT !.state = "lost", !.tsu = n]
    BY DEF MarkLost
  <2> HIDE DEF n
  <2>3. MarkLost(t) = [state |-> "lost", hits |-> t.hits, tsu |-> n, start |-> t.start]
    BY <1>1, <2>1, <2>2
  <2> QED BY <2>3 DEF n
<1> QED BY <1>1, <1>2 DEF Tracks, States

LEMMA NewIsTrack ==
    ASSUME NEW ts \in Nat
    PROVE  /\ NewTrack(ts) \in Tracks /\ Sound(NewTrack(ts), 0)
           /\ NewTrack(ts).start = ts /\ NewTrack(ts).state = "new"
BY TrackerAssumption DEF NewTrack, Tracks, States, Sound

LEMMA PromotedIsTrack ==
    ASSUME NEW t \in Tracks, NEW m \in Nat, Sound(t, m)
    PROVE  /\ Promoted(t) \in Tracks /\ Sound(Promoted(t), m)
           /\ Promoted(t).start = t.start /\ (Promoted(t).state = "lost" <=> t.state = "lost")
BY DEF Promoted, Promotes, Tracks, States, Sound

LEMMA MatchedIsTrack ==
    ASSUME NEW v \in Visitors, NEW high, NEW low, NEW m \in Nat,
           tracks[v] \in Tracks, Sound(tracks[v], m), v \in low => tracks[v].state = "lost"
    PROVE  /\ Matched(v, high, low) \in Tracks
           /\ Sound(Matched(v, high, low), IF v \in high \cup low THEN 0 ELSE m + 1)
           /\ Matched(v, high, low).start = tracks[v].start
<1> DEFINE t == tracks[v]
           one == Stage1(t, v, high)
           two == Stage2(one, v, low)
           once == IF v \in high THEN two ELSE MarkLost(two)
<1>1. /\ one \in Tracks /\ one.start = t.start
      /\ v \in high => one.tsu = 0 /\ (one.state = "lost" => FALSE)
      /\ v \notin high => one = t
  BY HitIsTrack DEF Stage1, MarkHit
<1>2. /\ two \in Tracks /\ two.start = t.start
      /\ v \in high \cup low => two.tsu = 0 /\ two.state # "lost"
      /\ v \notin high \cup low => two = t
  <2> HIDE DEF one
  <2> QED BY <1>1, HitIsTrack DEF Stage2
<1>3. /\ once \in Tracks /\ once.start = t.start
      /\ v \in high => once.tsu = 0 /\ once.state # "lost"
      /\ v \notin high => once.state = "lost"
      /\ v \in low \ high => once.tsu = 1
      /\ v \notin high \cup low => once.tsu = t.tsu + 1
  <2> HIDE DEF one, two
  <2> QED BY <1>2, LostIsTrack
<1>4. Matched(v, high, low) = IF t.state = "lost" /\ v \notin low THEN MarkLost(once) ELSE once
  BY DEF Matched, Marked
<1>5. t.tsu \in Nat /\ once.tsu \in Nat
  <2> HIDE DEF once
  <2> QED BY <1>3 DEF Tracks
<1> DEFINE a == Matched(v, high, low)
<1>6. /\ a \in Tracks /\ a.start = t.start
      /\ t.state = "lost" /\ v \notin low => a.state = "lost" /\ a.tsu = once.tsu + 1
      /\ ~(t.state = "lost" /\ v \notin low) => a = once
  <2> HIDE DEF once
  <2> QED BY <1>3, <1>4, LostIsTrack
<1> HIDE DEF a, one, two, once
<1>7. Sound(a, IF v \in high \cup low THEN 0 ELSE m + 1)
  <2>1. t.state # "lost" => t.tsu = 0 /\ v \notin low
    BY DEF Sound
  <2>2. m <= t.tsu /\ t.tsu <= 2 * m + 1
    BY DEF Sound
  <2> HIDE DEF t
  <2>3. CASE v \in high
    BY <1>3, <1>5, <1>6, <2>1, <2>3 DEF Sound
  <2>4. CASE v \in low \ high
    BY <1>3, <1>5, <1>6, <2>1, <2>4 DEF Sound
  <2>5. CASE v \notin high \cup low
    BY <1>3, <1>5, <1>6, <2>1, <2>2, <2>5 DEF Sound
  <2> QED BY <2>3, <2>4, <2>5
<1> QED BY <1>6, <1>7 DEF a

-----------------------------------------------------------------------------
(* The tracker over one frame.                                               *)

\* What is numbered, started and counted, at the time clk of the last frame.
TrackerInv(tr, iss, mis, clk) ==
    \A v \in Visitors :
        /\ v > iss => tr[v] = None /\ mis[v] = 0
        /\ tr[v] # None => /\ tr[v].start <= clk /\ Sound(tr[v], mis[v])
                           /\ tr[v].tsu <= MaxLost

Exits(v, ev) == \E e \in ev : e.type = "exit" /\ e.visitor = v

\* Whoever is shown is followed, and whoever is not followed any more has an EXIT event.
Handover(tr, sh, ev, before) ==
    /\ sh \subseteq {v \in Visitors : tr[v] # None}
    /\ \A v \in before : tr[v] # None \/ Exits(v, ev)

\* Whoever is followed was followed or has a new number, and whoever has an EXIT event is not.
Departures(tr, ev, before, iss, next) ==
    /\ iss <= next
    /\ \A v \in Visitors : tr[v] # None => v \in before \/ v > iss
    /\ \A v \in Visitors : Exits(v, ev) => tr[v] = None /\ v <= next

LEMMA UpdateKeeps ==
    ASSUME TrackerTypeOK, NEW clk \in Nat, TrackerInv(tracks, issued, missed, clk),
           NEW ts \in Nat, ts > clk, NEW high \in SUBSET Followed, NEW low \in SUBSET InState("lost"),
           NEW fresh \in Nat, Update(ts, high, low, fresh)
    PROVE  /\ TrackerTypeOK'
           /\ TrackerInv(tracks', issued', missed', ts)
           /\ Handover(tracks', shown', emitted', Followed)
           /\ Departures(tracks', emitted', Followed, issued, issued')
<1> DEFINE born == issued + 1 .. issued + fresh
           moved == [v \in Followed \cup born |->
                        IF v \in born THEN NewTrack(ts) ELSE Matched(v, high, low)]
           after == [v \in DOMAIN moved |-> Promoted(moved[v])]
           gone == {v \in DOMAIN after : Expires(after[v])}
           back == (high \cap InState("lost")) \cup low
           enter == {v \in DOMAIN moved : Promotes(moved[v])}
           count(v) == IF v \in Followed \ (high \cup low) THEN missed[v] + 1
                       ELSE IF v \in Followed THEN 0 ELSE missed[v]
<1>1. /\ issued + fresh <= MaxVisitors /\ issued' = issued + fresh
      /\ tracks' = [v \in Visitors |-> IF v \in DOMAIN after \ gone THEN after[v] ELSE None]
      /\ shown' = Visible(after)
      /\ emitted' = {Event("reacquired", v, 0) : v \in back} \cup {Event("enter", v, 0) : v \in enter}
                    \cup {Event("exit", v, ts - after[v].start) : v \in gone}
      /\ missed' = [v \in Visitors |-> count(v)]
      /\ enters' = [v \in Visitors |-> IF v \in enter THEN enters[v] + 1 ELSE enters[v]]
      /\ exits' = [v \in Visitors |-> IF v \in gone THEN exits[v] + 1 ELSE exits[v]]
  BY DEF Update
<1>2. /\ DOMAIN after = Followed \cup born /\ DOMAIN moved = Followed \cup born
      /\ Followed \subseteq Visitors /\ born \subseteq Visitors /\ issued \in Nat /\ issued' \in 0 .. MaxVisitors
  BY <1>1, TrackerAssumption DEF Followed, Visitors, TrackerTypeOK
<1>3. /\ missed \in [Visitors -> Nat] /\ enters \in [Visitors -> Nat] /\ exits \in [Visitors -> Nat]
      /\ \A v \in Visitors : missed[v] \in Nat /\ count(v) \in Nat
      /\ \A v \in Followed : tracks[v] \in Tracks
  BY DEF TrackerTypeOK, Followed
<1>4. ASSUME NEW v \in Followed \cup born
      PROVE  /\ moved[v] \in Tracks /\ Sound(moved[v], count(v)) /\ moved[v].start <= ts
             /\ moved[v].start \in Nat
  <2>1. CASE v \in born
    <3>1. v > issued /\ v \in Visitors /\ tracks[v] = None /\ missed[v] = 0
      BY <1>2, <2>1 DEF TrackerInv
    <3>2. moved[v] = NewTrack(ts) /\ count(v) = 0
      BY <2>1, <3>1 DEF Followed
    <3> QED BY <3>2, NewIsTrack
  <2>2. CASE v \notin born
    <3>1. v \in Followed /\ v \in Visitors /\ tracks[v] # None /\ moved[v] = Matched(v, high, low)
      BY <1>2, <2>2 DEF Followed
    <3>2. Sound(tracks[v], missed[v]) /\ tracks[v].start <= clk /\ tracks[v].start \in Nat
      BY <1>3, <3>1 DEF TrackerInv, Tracks
    <3>3. v \in low => tracks[v].state = "lost"
      BY DEF InState
    <3>4. /\ Matched(v, high, low) \in Tracks
          /\ Sound(Matched(v, high, low), IF v \in high \cup low THEN 0 ELSE missed[v] + 1)
          /\ Matched(v, high, low).start = tracks[v].start
      BY <1>3, <3>1, <3>2, <3>3, MatchedIsTrack
    <3>5. count(v) = IF v \in high \cup low THEN 0 ELSE missed[v] + 1
      BY <3>1
    <3> HIDE DEF moved, count
    <3> QED BY <3>1, <3>2, <3>4, <3>5
  <2> QED BY <2>1, <2>2
<1>5. ASSUME NEW v \in Followed \cup born
      PROVE  /\ after[v] \in Tracks /\ Sound(after[v], count(v)) /\ after[v].start <= ts
             /\ after[v].start \in Nat /\ v \in Visitors
  <2>1. after[v] = Promoted(moved[v]) /\ v \in Visitors /\ count(v) \in Nat
    BY <1>2, <1>3
  <2> HIDE DEF moved, count, after, born
  <2> QED BY <1>4, <2>1, PromotedIsTrack
<1> HIDE DEF moved, count, after
<1>6. ASSUME NEW v \in Visitors
      PROVE  tracks'[v] = IF v \in (Followed \cup born) \ gone THEN after[v] ELSE None
  BY <1>1, <1>2
<1>7. tracks' \in [Visitors -> Tracks \cup {None}]
  BY <1>1, <1>2, <1>5
<1>8. shown' \in SUBSET Visitors /\ shown' \subseteq (Followed \cup born) \ gone
  BY <1>1, <1>2 DEF Visible, Expires
<1>9. emitted' \in SUBSET VisitorEvents
  <2>1. \A v \in back : v \in Visitors
    BY <1>2 DEF InState
  <2>2. \A v \in enter : v \in Visitors
    BY <1>2
  <2>3. \A v \in gone : v \in Visitors /\ ts - after[v].start \in Nat
    BY <1>2, <1>5
  <2> HIDE DEF back, enter, gone
  <2> QED BY <1>1, <2>1, <2>2, <2>3 DEF Event, VisitorEvents, EventTypes
<1>10. /\ missed' \in [Visitors -> Nat] /\ enters' \in [Visitors -> Nat] /\ exits' \in [Visitors -> Nat]
  <2> HIDE DEF enter, gone
  <2> QED BY <1>1, <1>3
<1>11. TrackerTypeOK'
  BY <1>2, <1>7, <1>8, <1>9, <1>10 DEF TrackerTypeOK
<1>12. TrackerInv(tracks', issued', missed', ts)
  <2> SUFFICES ASSUME NEW v \in Visitors
               PROVE  /\ v > issued' => tracks'[v] = None /\ missed'[v] = 0
                      /\ tracks'[v] # None => /\ tracks'[v].start <= ts /\ Sound(tracks'[v], missed'[v])
                                              /\ tracks'[v].tsu <= MaxLost
    BY DEF TrackerInv
  <2>1. missed'[v] = count(v) /\ v \in Nat
    BY <1>1 DEF Visitors
  <2>2. ASSUME v > issued' PROVE tracks'[v] = None /\ missed'[v] = 0
    <3>1. v > issued /\ v \notin born
      BY <1>1, <1>2, <2>1, <2>2
    <3>2. v \notin Followed /\ missed[v] = 0
      BY <3>1 DEF TrackerInv, Followed
    <3> QED BY <1>6, <2>1, <3>1, <3>2 DEF count
  <2>3. ASSUME tracks'[v] # None
        PROVE  /\ tracks'[v].start <= ts /\ Sound(tracks'[v], missed'[v]) /\ tracks'[v].tsu <= MaxLost
    <3>1. v \in (Followed \cup born) \ gone /\ tracks'[v] = after[v]
      BY <1>6, <2>3
    <3>2. ~Expires(after[v])
      BY <1>2, <3>1
    <3>3. after[v] \in Tracks /\ Sound(after[v], count(v)) /\ after[v].start <= ts
      BY <1>5, <3>1
    <3>4. after[v].tsu <= MaxLost
      BY <3>2, <3>3, TrackerAssumption DEF Expires, Sound, Tracks
    <3> QED BY <2>1, <3>1, <3>3, <3>4
  <2> QED BY <2>2, <2>3
<1>13. Handover(tracks', shown', emitted', Followed)
  <2>1. \A v \in (Followed \cup born) \ gone : v \in Visitors /\ tracks'[v] # None
    BY <1>5, <1>6, NoneAssumption
  <2>2. ASSUME NEW v \in Followed, v \in gone PROVE Exits(v, emitted')
    <3>1. Event("exit", v, ts - after[v].start) \in emitted'
      BY <1>1, <2>2
    <3> QED BY <3>1 DEF Exits, Event
  <2> QED BY <1>8, <2>1, <2>2 DEF Handover
<1>14. Departures(tracks', emitted', Followed, issued, issued')
  <2>1. issued <= issued' /\ \A v \in born : v > issued /\ v <= issued'
    BY <1>1, <1>2
  <2>2. \A v \in Visitors : tracks'[v] # None => v \in Followed \cup born
    BY <1>6
  <2>3. ASSUME NEW v \in Visitors, Exits(v, emitted') PROVE tracks'[v] = None /\ v <= issued'
    <3>1. v \in gone
      <4> HIDE DEF gone, back, enter
      <4> QED BY <1>1, <2>3 DEF Exits, Event
    <3>2. v \in Followed \cup born /\ tracks'[v] = None
      BY <1>2, <1>6, <3>1
    <3>3. v \in Followed => v <= issued
      BY <1>2 DEF TrackerInv, Followed, Visitors
    <3> QED BY <1>1, <1>2, <2>1, <3>2, <3>3 DEF Visitors
  <2> HIDE DEF born
  <2> QED BY <2>1, <2>2, <2>3 DEF Departures
<1> QED BY <1>11, <1>12, <1>13, <1>14

-----------------------------------------------------------------------------
(* The services over the callbacks of one frame.                             *)

Records == ZoneVisit \cup CheckoutVisit

\* No session was entered or seen after the last frame.
VisitInv(st, ch, clk) ==
    \A v \in Visitors :
        /\ \A z \in Zones : st[v][z] # None => st[v][z] <= clk
        /\ ch[v] # None => ch[v].seen <= clk

VisitTypes(st, ch, qt, sv, sp) ==
    /\ st \in [Visitors -> [Zones -> Nat \cup {None}]]
    /\ qt \in Nat \cup {None} /\ ch \in [Visitors -> Session \cup {None}]
    /\ sv \in SUBSET Records /\ sp \in [Visitors -> Nat]

Quotient(a, b) == a \div b

LEMMA QuotientIsNat ==
    ASSUME NEW a \in Nat, NEW b \in Nat, b > 0
    PROVE  Quotient(a, b) \in Nat
BY SMT DEF Quotient

LEMMA ProbabilityIsNat == ASSUME NEW d \in Nat PROVE Probability(d) \in Nat
<1>1. /\ ShortStay \in Nat /\ LongStay \in Nat /\ LongStay - ShortStay \in Nat /\ LongStay - ShortStay > 0
  BY VisitAssumption
<1>2. CASE d < ShortStay
  BY <1>2 DEF Probability
<1>3. CASE ~(d < ShortStay) /\ d <= LongStay
  <2> DEFINE a == 80 * (d - ShortStay)
             b == LongStay - ShortStay
  <2>1. a \in Nat /\ b \in Nat /\ b > 0
    BY <1>1, <1>3
  <2>2. Probability(d) = 10 + Quotient(a, b)
    BY <1>3 DEF Probability, Quotient
  <2> HIDE DEF a, b
  <2> QED BY <2>1, <2>2, QuotientIsNat
<1>4. CASE ~(d < ShortStay) /\ ~(d <= LongStay)
  BY <1>4 DEF Probability
<1> QED BY <1>2, <1>3, <1>4

LEMMA CheckoutIsSession ==
    ASSUME NEW c \in Session \cup {None}, NEW clk \in Nat, c # None => c.seen <= clk,
           NEW ts \in Nat, ts > clk, NEW atTill \in BOOLEAN
    PROVE  /\ Checkout(c, ts, atTill) \in Session \cup {None}
           /\ Checkout(c, ts, atTill) # None => Checkout(c, ts, atTill).seen <= ts
<1> DEFINE d == Checkout(c, ts, atTill)
<1>1. CASE c = None
  BY <1>1, SessionAssumption DEF Checkout, NewSession, Session
<1>2. CASE c \in Session /\ c # None
  <2>1. /\ c = [entry |-> c.entry, seen |-> c.seen, total |-> c.total, in |-> c.in]
        /\ DOMAIN c = {"entry", "seen", "total", "in"}
        /\ c.entry \in Nat /\ c.seen \in Nat /\ c.total \in Nat /\ c.in \in BOOLEAN /\ c.seen <= clk
    BY <1>2 DEF Session
  <2>2. CASE c.in
    <3> DEFINE n == c.total + (ts - c.seen)
    <3>1. n \in Nat
      BY <2>1
    <3>2. d = [c EXCEPT !.total = n, !.seen = ts, !.in = atTill]
      BY <1>2, <2>2 DEF Checkout
    <3> HIDE DEF n, d
    <3>3. d = [entry |-> c.entry, seen |-> ts, total |-> n, in |-> atTill]
      BY <2>1, <3>2
    <3>4. d \in Session /\ d.seen = ts
      BY <2>1, <3>1, <3>3 DEF Session
    <3> QED BY <3>4 DEF d
  <2>3. CASE ~c.in /\ atTill
    <3>1. d = [c EXCEPT !.seen = ts, !.in = TRUE]
      BY <1>2, <2>3 DEF Checkout
    <3> HIDE DEF d
    <3>2. d = [entry |-> c.entry, seen |-> ts, total |-> c.total, in |-> TRUE]
      BY <2>1, <3>1
    <3>3. d \in Session /\ d.seen = ts
      BY <2>1, <3>2 DEF Session
    <3> QED BY <3>3 DEF d
  <2>4. CASE ~c.in /\ ~atTill
    <3>1. d = c
      BY <1>2, <2>4 DEF Checkout
    <3> QED BY <1>2, <2>1, <3>1
  <2> QED BY <2>2, <2>3, <2>4
<1> QED BY <1>1, <1>2

LEMMA FinishedAreRecords ==
    ASSUME NEW v \in Visitors, NEW clk \in Nat, NEW ts \in Nat, ts > clk,
           checkouts[v] \in Session \cup {None}, checkouts[v] # None => checkouts[v].seen <= clk
    PROVE  Finished(v, ts) \subseteq Records
<1> DEFINE c == checkouts[v]
<1> SUFFICES ASSUME c # None
             PROVE  [visitor |-> v, entry |-> c.entry, exit |-> ts, duration |-> Total(c, ts),
                     probability |-> Probability(Total(c, ts))] \in CheckoutVisit
  BY DEF Finished, Records
<1>1. c.entry \in Nat /\ Total(c, ts) \in Nat
  BY DEF Session, Total
<1>2. Probability(Total(c, ts)) \in Nat
  BY <1>1, ProbabilityIsNat
<1> QED BY <1>1, <1>2 DEF CheckoutVisit

LEMMA EndedAreRecords ==
    ASSUME NEW v \in Visitors, NEW ts \in Nat, stays[v] \in [Zones -> Nat \cup {None}],
           NEW zones \in SUBSET OpenZones(v)
    PROVE  Ended(v, zones, ts) \subseteq Records
<1> SUFFICES ASSUME NEW z \in zones PROVE Visit(v, z, ts) \in ZoneVisit
  BY DEF Ended, Records
<1>1. z \in Zones /\ stays[v][z] \in Nat /\ IsTill(z) \in BOOLEAN
  BY DEF OpenZones, IsTill
<1> QED BY <1>1 DEF Visit, ZoneVisit

LEMMA TillTimeIsNat ==
    ASSUME NEW v \in Visitors, NEW clk \in Nat, NEW ts \in Nat, ts > clk,
           stays[v] \in [Zones -> Nat \cup {None}],
           \A z \in Zones : stays[v][z] # None => stays[v][z] <= clk,
           NEW zones \in SUBSET OpenZones(v)
    PROVE  TillTime(v, zones, ts) \in Nat
<1>1. CASE \E z \in zones : z \in Checkouts
  <2> DEFINE z == CHOOSE y \in zones : y \in Checkouts
  <2>1. z \in zones
    BY <1>1
  <2>2. TillTime(v, zones, ts) = ts - stays[v][z]
    BY <1>1 DEF TillTime
  <2> HIDE DEF z
  <2>3. stays[v][z] \in Nat /\ stays[v][z] <= clk
    BY <2>1 DEF OpenZones
  <2> QED BY <2>2, <2>3
<1>2. CASE ~ \E z \in zones : z \in Checkouts
  BY <1>2 DEF TillTime
<1> QED BY <1>1, <1>2

LEMMA StaysType ==
    ASSUME NEW v \in Visitors, NEW clk \in Nat, NEW ts \in Nat, ts > clk,
           stays[v] \in [Zones -> Nat \cup {None}],
           \A z \in Zones : stays[v][z] # None => stays[v][z] <= clk, NEW zones
    PROVE  /\ Stays(ts, v, zones) \in [Zones -> Nat \cup {None}]
           /\ \A z \in Zones : Stays(ts, v, zones)[z] # None => Stays(ts, v, zones)[z] <= ts
BY NoneAssumption DEF Stays

\* What a frame does to a visitor's sessions: shown, gone or neither.
LEMMA CallbacksKeep ==
    ASSUME NEW clk \in Nat, NEW ts \in Nat, ts > clk,
           VisitTypes(stays, checkouts, queue_time, saving, spent), VisitInv(stays, checkouts, clk),
           shown' \in SUBSET Visitors, NEW place \in [shown' -> SUBSET Zones], Callbacks(ts, place)
    PROVE  /\ VisitTypes(stays', checkouts', queue_time', saving', spent')
           /\ VisitInv(stays', checkouts', ts)
           /\ \A v \in Visitors \ shown' :
                 IF v \in Gone THEN (\A z \in Zones : stays'[v][z] = None) /\ checkouts'[v] = None
                 ELSE stays'[v] = stays[v] /\ checkouts'[v] = checkouts[v]
<1> DEFINE stay(v) == IF v \in shown' THEN Stays(ts, v, ZonesAt(place, v))
                      ELSE IF v \in Gone THEN [z \in Zones |-> None] ELSE stays[v]
           till(v) == IF v \in shown' THEN Checkout(checkouts[v], ts, ZonesAt(place, v) \cap Checkouts # {})
                      ELSE IF v \in Gone THEN None ELSE checkouts[v]
<1>1. /\ stays' = [v \in Visitors |-> stay(v)] /\ checkouts' = [v \in Visitors |-> till(v)]
      /\ queue_time' = IF QueueSeen(ts, place) THEN ts ELSE queue_time
      /\ saving' = saving \cup (UNION {Ended(v, Closing(v, place), ts) : v \in Visitors})
                          \cup (UNION {Finished(v, ts) : v \in Gone})
      /\ spent' = [v \in Visitors |-> spent[v] + TillTime(v, Closing(v, place), ts)]
  BY DEF Callbacks
<1>2. ASSUME NEW v \in Visitors
      PROVE  /\ stays[v] \in [Zones -> Nat \cup {None}] /\ checkouts[v] \in Session \cup {None}
             /\ \A z \in Zones : stays[v][z] # None => stays[v][z] <= clk
             /\ checkouts[v] # None => checkouts[v].seen <= clk
             /\ spent[v] \in Nat /\ Closing(v, place) \in SUBSET OpenZones(v)
  BY DEF VisitTypes, VisitInv, Closing
<1>3. ASSUME NEW v \in Visitors
      PROVE  /\ stay(v) \in [Zones -> Nat \cup {None}]
             /\ \A z \in Zones : stay(v)[z] # None => stay(v)[z] <= ts
  <2>1. CASE v \in shown'
    BY <1>2, <2>1, StaysType
  <2>2. CASE v \notin shown' /\ v \in Gone
    BY <2>2
  <2>3. CASE v \notin shown' /\ v \notin Gone
    <3>1. stay(v) = stays[v]
      BY <2>3
    <3> QED BY <1>2, <3>1
  <2> QED BY <2>1, <2>2, <2>3
<1>4. ASSUME NEW v \in Visitors
      PROVE  till(v) \in Session \cup {None} /\ (till(v) # None => till(v).seen <= ts)
  <2>1. CASE v \in shown'
    <3>1. PICK b \in BOOLEAN : b = (ZonesAt(place, v) \cap Checkouts # {})
      OBVIOUS
    <3>2. till(v) = Checkout(checkouts[v], ts, b)
      BY <2>1, <3>1
    <3> QED BY <1>2, <3>2, CheckoutIsSession
  <2>2. CASE v \notin shown' /\ v \in Gone
    BY <2>2
  <2>3. CASE v \notin shown' /\ v \notin Gone
    <3>1. till(v) = checkouts[v]
      BY <2>3
    <3> QED BY <1>2, <3>1 DEF Session
  <2> QED BY <2>1, <2>2, <2>3
<1>5. \A v \in Visitors : stays'[v] = stay(v) /\ checkouts'[v] = till(v)
  BY <1>1
<1>6. \A v \in Visitors \ shown' :
         IF v \in Gone THEN (\A z \in Zones : stays'[v][z] = None) /\ checkouts'[v] = None
         ELSE stays'[v] = stays[v] /\ checkouts'[v] = checkouts[v]
  BY <1>5
<1> HIDE DEF stay, till
<1>7. queue_time' \in Nat \cup {None}
  BY <1>1 DEF VisitTypes
<1>8. saving' \in SUBSET Records
  <2>1. \A v \in Visitors : Ended(v, Closing(v, place), ts) \subseteq Records
    BY <1>2, EndedAreRecords
  <2>2. \A v \in Visitors : Finished(v, ts) \subseteq Records
    BY <1>2, FinishedAreRecords
  <2>3. Gone \subseteq Visitors /\ saving \subseteq Records
    BY DEF Gone, VisitTypes
  <2> DEFINE A == UNION {Ended(v, Closing(v, place), ts) : v \in Visitors}
             B == UNION {Finished(v, ts) : v \in Gone}
  <2>4. A \subseteq Records
    BY <2>1
  <2>5. B \subseteq Records
    BY <2>2, <2>3
  <2>6. saving' = saving \cup A \cup B
    BY <1>1
  <2> HIDE DEF A, B
  <2> QED BY <2>3, <2>4, <2>5, <2>6
<1>9. spent' \in [Visitors -> Nat]
  <2>1. \A v \in Visitors : TillTime(v, Closing(v, place), ts) \in Nat
    BY <1>2, TillTimeIsNat
  <2> QED BY <1>1, <1>2, <2>1
<1>10. stays' \in [Visitors -> [Zones -> Nat \cup {None}]] /\ checkouts' \in [Visitors -> Session \cup {None}]
  BY <1>1, <1>3, <1>4
<1>11. VisitInv(stays', checkouts', ts)
  BY <1>3, <1>4, <1>5 DEF VisitInv
<1> QED BY <1>6, <1>7, <1>8, <1>9, <1>10, <1>11 DEF VisitTypes

-----------------------------------------------------------------------------
(* The specification.                                                        *)

OtherTypes(dr, sd, cl, ed, fa) ==
    dr \in [Zones -> Drawn] /\ sd \in SUBSET Records /\ {cl, ed, fa} \subseteq Nat

\* No session outlives its track.
Outlived(tr, st, ch) ==
    \A v \in Visitors : (\E z \in Zones : st[v][z] # None) \/ ch[v] # None => tr[v] # None

FrameInv ==
    /\ TrackerTypeOK
    /\ TrackerInv(tracks, issued, missed, clock)
    /\ VisitTypes(stays, checkouts, queue_time, saving, spent)
    /\ VisitInv(stays, checkouts, clock)
    /\ OtherTypes(drawn, saved, clock, edits, failures)
    /\ Outlived(tracks, stays, checkouts)

LEMMA FrameInitially == Init => FrameInv
<1> SUFFICES ASSUME Init PROVE FrameInv
  OBVIOUS
<1>1. TrackerTypeOK /\ TrackerInv(tracks, issued, missed, clock)
  BY TrackerAssumption DEF Init, TrackerInit, TrackerTypeOK, TrackerInv, Visitors
<1>2. /\ VisitTypes(stays, checkouts, queue_time, saving, spent)
      /\ VisitInv(stays, checkouts, clock) /\ Outlived(tracks, stays, checkouts)
  BY DEF Init, VisitTypes, VisitInv, Outlived
<1>3. OtherTypes(drawn, saved, clock, edits, failures)
  BY DEF Init, OtherTypes
<1> QED BY <1>1, <1>2, <1>3 DEF FrameInv

LEMMA FrameParts ==
    ASSUME FrameInv, NEW ts \in clock + 1 .. clock + MaxGap, NEW fresh \in 0 .. 1,
           NEW high \in Matchings(Followed), NEW low \in Matchings(InState("lost")),
           Frame(ts, high, low, fresh)
    PROVE  /\ clock \in Nat /\ ts \in Nat /\ ts > clock
           /\ TrackerTypeOK' /\ TrackerInv(tracks', issued', missed', ts)
           /\ Handover(tracks', shown', emitted', Followed)
           /\ Departures(tracks', emitted', Followed, issued, issued')
           /\ \E place \in [shown' -> SUBSET Zones] : Callbacks(ts, place)
<1>1. /\ clock \in Nat /\ ts \in Nat /\ ts > clock /\ fresh \in Nat
      /\ high \in SUBSET Followed /\ low \in SUBSET InState("lost") /\ Update(ts, high, low, fresh)
  BY VisitAssumption DEF FrameInv, OtherTypes, Matchings, Frame
<1>2. /\ TrackerTypeOK' /\ TrackerInv(tracks', issued', missed', ts)
      /\ Handover(tracks', shown', emitted', Followed)
      /\ Departures(tracks', emitted', Followed, issued, issued')
  BY <1>1, UpdateKeeps DEF FrameInv
<1> QED BY <1>1, <1>2 DEF Frame

LEMMA FrameStep ==
    ASSUME FrameInv, NEW ts \in clock + 1 .. clock + MaxGap, NEW fresh \in 0 .. 1,
           NEW high \in Matchings(Followed), NEW low \in Matchings(InState("lost")),
           Frame(ts, high, low, fresh)
    PROVE  FrameInv'
<1>1. clock \in Nat /\ ts \in Nat /\ ts > clock
  BY FrameParts
<1>2. /\ TrackerTypeOK' /\ TrackerInv(tracks', issued', missed', ts)
      /\ Handover(tracks', shown', emitted', Followed)
  BY FrameParts
<1>3. PICK place \in [shown' -> SUBSET Zones] : Callbacks(ts, place)
  BY FrameParts
<1>4. clock' = ts /\ UNCHANGED <<drawn, saved, edits, failures>>
  BY DEF Frame
<1>5. shown' \in SUBSET Visitors
  BY <1>2 DEF Handover
<1>6. /\ VisitTypes(stays, checkouts, queue_time, saving, spent) /\ VisitInv(stays, checkouts, clock)
  BY DEF FrameInv
<1>7. /\ VisitTypes(stays', checkouts', queue_time', saving', spent')
      /\ VisitInv(stays', checkouts', ts)
      /\ \A v \in Visitors \ shown' :
            IF v \in Gone THEN (\A z \in Zones : stays'[v][z] = None) /\ checkouts'[v] = None
            ELSE stays'[v] = stays[v] /\ checkouts'[v] = checkouts[v]
  BY <1>1, <1>3, <1>5, <1>6, CallbacksKeep
<1>8. Outlived(tracks', stays', checkouts')
  <2> SUFFICES ASSUME NEW v \in Visitors, (\E z \in Zones : stays'[v][z] # None) \/ checkouts'[v] # None
               PROVE  tracks'[v] # None
    BY DEF Outlived
  <2>1. CASE v \in shown'
    BY <1>2, <2>1 DEF Handover
  <2>2. CASE v \notin shown'
    <3>1. v \notin Gone /\ stays'[v] = stays[v] /\ checkouts'[v] = checkouts[v]
      BY <1>7, <2>2
    <3>2. v \in Followed
      BY <3>1 DEF FrameInv, Outlived, Followed
    <3>3. ~Exits(v, emitted')
      BY <3>1 DEF Gone, Exits
    <3> QED BY <1>2, <3>2, <3>3 DEF Handover
  <2> QED BY <2>1, <2>2
<1>9. OtherTypes(drawn', saved', clock', edits', failures')
  BY <1>1, <1>4 DEF FrameInv, OtherTypes
<1> QED BY <1>2, <1>4, <1>7, <1>8, <1>9 DEF FrameInv

LEMMA FrameInvKept == FrameInv /\ [Next]_vars => FrameInv'
<1> SUFFICES ASSUME FrameInv, [Next]_vars PROVE FrameInv'
  OBVIOUS
<1>1. ASSUME NEW ts \in clock + 1 .. clock + MaxGap, NEW fresh \in 0 .. 1,
             NEW high \in Matchings(Followed), NEW low \in Matchings(InState("lost")),
             Frame(ts, high, low, fresh)
      PROVE  FrameInv'
  BY <1>1, FrameStep
<1>2. ASSUME NEW r \in saving, Save(r) PROVE FrameInv'
  BY <1>2 DEF Save, FrameInv, trackVars, TrackerTypeOK, VisitTypes, OtherTypes
<1>3. ASSUME NEW r \in saving, SaveFails(r) PROVE FrameInv'
  BY <1>3 DEF SaveFails, FrameInv, trackVars, TrackerTypeOK, VisitTypes, OtherTypes
<1>4. CASE EditZones
  BY <1>4 DEF EditZones, FrameInv, trackVars, TrackerTypeOK, OtherTypes
<1>5. CASE UNCHANGED vars
  BY <1>5 DEF vars, visitVars, FrameInv, trackVars, TrackerTypeOK
<1> QED BY <1>1, <1>2, <1>3, <1>4, <1>5 DEF Next

\* No frame, edit of the zones or write outlives the invariant (TrackingPipeline._on_detection_frame).
LEMMA FrameInvAlways == Spec => []FrameInv
<1> QED BY FrameInitially, FrameInvKept, PTL DEF Spec

\* The tracker, the services and the tables keep their types over any frames, edits and errors
\* (ByteTracker.update, ZoneAnalyticsService and CheckoutAnalyticsService).
THEOREM VisitTypesHold == Spec => []TypeOK
<1>1. FrameInv => TypeOK
  BY DEF FrameInv, TypeOK, VisitTypes, OtherTypes, Records
<1> QED BY <1>1, FrameInvAlways, PTL

\* A track is kept for at most max_lost frames without a box and never given up before half
\* of them have passed, whatever the boxes match (STrack.mark_lost in ByteTracker.update).
THEOREM AbsencesAreBounded == Spec => []AbsenceIsBounded
<1>1. FrameInv => AbsenceIsBounded
  <2> SUFFICES ASSUME FrameInv, NEW v \in Followed
               PROVE  /\ missed[v] <= tracks[v].tsu /\ tracks[v].tsu <= 2 * missed[v] + 1
                      /\ tracks[v].tsu <= MaxLost
    BY DEF AbsenceIsBounded
  <2> QED BY DEF FrameInv, TrackerInv, Followed, Sound
<1> QED BY <1>1, FrameInvAlways, PTL

\* No zone or checkout session outlives the track it belongs to, although lost visitors are
\* not in the frames the services see (process_visitor_event of both services).
THEOREM NoSessionOutlivesItsTrack == Spec => []SessionsAreFollowed
<1>1. FrameInv => SessionsAreFollowed
  BY DEF FrameInv, Outlived, SessionsAreFollowed, OpenZones, Followed
<1> QED BY <1>1, FrameInvAlways, PTL
-----------------------------------------------------------------------------
(* The time at the only till.  While the checkout session of a visitor is    *)
(* open, its total is what the ended zone sessions took (spent) and what the *)
(* open one has taken so far.  A visitor who has no checkout session, and    *)
(* has not left, has no time at the till yet.  A record is only written for  *)
(* a visitor who has left, whose number nobody gets again.                   *)

Tally(c, entry, sum) ==
    /\ c = None => entry = None /\ sum = 0
    /\ c # None => (c.in <=> entry # None) /\ c.total = sum + IF c.in THEN c.seen - entry ELSE 0
TillAccount(till, tr, iss, st, ch, sp) ==
    \A v \in Visitors :
        ch[v] # None \/ tr[v] # None \/ v > iss => Tally(ch[v], st[v][till], sp[v])
RecordsFit(tr, iss, sp, recs) ==
    \A r \in recs \cap CheckoutVisit :
        tr[r.visitor] = None /\ r.visitor <= iss /\ r.duration = sp[r.visitor]

\* With one till the time since the entry is the time since the entry there.
TillTimeIs(till, v, zones, ts) ==
    TillTime(v, zones, ts) = IF till \in zones THEN ts - stays[v][till] ELSE 0

LEMMA OneTillTime ==
    ASSUME NEW till, Checkouts = {till}, NEW v, NEW zones, NEW ts
    PROVE  TillTimeIs(till, v, zones, ts)
<1> USE DEF TillTimeIs
<1>1. CASE till \in zones
  <2>1. (CHOOSE z \in zones : z \in Checkouts) = till
    BY <1>1
  <2>2. \E z \in zones : z \in Checkouts
    BY <1>1
  <2> QED BY <1>1, <2>1, <2>2 DEF TillTime
<1>2. CASE till \notin zones
  BY <1>2 DEF TillTime
<1> QED BY <1>1, <1>2

\* A visitor in the frame: both services add the same time.
LEMMA ShownAgrees ==
    ASSUME NEW c \in Session \cup {None}, NEW entry \in Nat \cup {None}, NEW s \in Nat, NEW ts \in Nat,
           NEW atTill \in BOOLEAN,
           Tally(c, entry, s), c # None => c.seen <= ts
    PROVE  Tally(Checkout(c, ts, atTill),
                 IF ~atTill THEN None ELSE IF entry = None THEN ts ELSE entry,
                 s + IF entry # None /\ ~atTill THEN ts - entry ELSE 0)
<1> DEFINE d == Checkout(c, ts, atTill)
           stay == IF ~atTill THEN None ELSE IF entry = None THEN ts ELSE entry
           sum == s + IF entry # None /\ ~atTill THEN ts - entry ELSE 0
<1> SUFFICES Tally(d, stay, sum)
  OBVIOUS
<1>1. None \notin Nat /\ None \notin Session
  BY NoneAssumption, SessionAssumption
<1>2. CASE c = None
  <2>1. CASE atTill
    <3>1. d = [entry |-> ts, seen |-> ts, total |-> 0, in |-> TRUE]
      BY <1>2, <2>1 DEF Checkout, NewSession
    <3>2. d \in Session /\ d.in /\ d.total = 0 /\ d.seen = ts
      BY <3>1 DEF Session
    <3>3. stay = ts /\ sum = 0
      BY <1>2, <2>1 DEF Tally
    <3>4. d # None
      BY <1>1, <3>2
    <3> HIDE DEF d, stay, sum
    <3> QED BY <1>1, <3>2, <3>3, <3>4 DEF Tally
  <2>2. CASE ~atTill
    <3>1. d = None
      BY <1>2, <2>2 DEF Checkout
    <3> QED BY <1>2, <2>2, <3>1 DEF Tally
  <2> QED BY <2>1, <2>2
<1>3. CASE c # None
  <2>1. /\ c \in Session /\ c.seen \in Nat /\ c.total \in Nat /\ c.in \in BOOLEAN
        /\ DOMAIN c = {"entry", "seen", "total", "in"}
        /\ c = [entry |-> c.entry, seen |-> c.seen, total |-> c.total, in |-> c.in]
    BY <1>3 DEF Session
  <2>2. CASE c.in
    <3> DEFINE n == c.total + (ts - c.seen)
    <3>1. d = [c EXCEPT !.total = n, !.seen = ts, !.in = atTill]
      BY <1>3, <2>2 DEF Checkout
    <3>2. d.total = n /\ d.seen = ts /\ d.in = atTill
      <4> HIDE DEF n, d
      <4> QED BY <2>1, <3>1
    <3>3. entry \in Nat /\ n = s + (ts - entry)
      BY <1>3, <2>1, <2>2 DEF Tally
    <3>4. d # None
      <4>1. n \in Nat
        BY <1>3, <2>1
      <4>2. d = [entry |-> c.entry, seen |-> ts, total |-> n, in |-> atTill]
        <5> HIDE DEF n, d
        <5> QED BY <2>1, <3>1
      <4>3. d \in Session
        BY <2>1, <4>1, <4>2 DEF Session
      <4> QED BY <1>1, <4>3
    <3> HIDE DEF n, d
    <3>5. CASE atTill
      BY <1>1, <2>2, <3>2, <3>3, <3>4, <3>5 DEF Tally
    <3>6. CASE ~atTill
      BY <1>1, <2>2, <3>2, <3>3, <3>4, <3>6 DEF Tally
    <3> QED BY <3>5, <3>6
  <2>3. CASE ~c.in /\ atTill
    <3>1. d = [c EXCEPT !.seen = ts, !.in = TRUE]
      BY <1>3, <2>3 DEF Checkout
    <3>2. d.total = c.total /\ d.seen = ts /\ d.in
      <4> HIDE DEF Tally
      <4> QED BY <2>1, <3>1
    <3>3. entry = None /\ c.total = s
      BY <1>3, <2>3 DEF Tally
    <3>4. stay = ts /\ sum = s
      BY <2>3, <3>3
    <3>5. d # None
      <4>1. d = [entry |-> c.entry, seen |-> ts, total |-> c.total, in |-> TRUE]
        <5> HIDE DEF Tally
        <5> QED BY <2>1, <3>1
      <4>2. d \in Session
        BY <2>1, <4>1 DEF Session
      <4> QED BY <1>1, <4>2
    <3> HIDE DEF Tally
    <3> QED BY <1>1, <3>2, <3>3, <3>4, <3>5 DEF Tally
  <2>4. CASE ~c.in /\ ~atTill
    <3>1. d = c
      BY <1>3, <2>4 DEF Checkout
    <3>2. entry = None /\ c.total = s /\ stay = None /\ sum = s
      BY <1>3, <2>4 DEF Tally
    <3> HIDE DEF Tally
    <3> QED BY <1>3, <2>4, <3>1, <3>2 DEF Tally
  <2> QED BY <2>2, <2>3, <2>4
<1> QED BY <1>2, <1>3

\* What a frame does to the account and to the records.
LEMMA TillFrame ==
    ASSUME FrameInv, NEW till \in Zones, Checkouts = {till},
           TillAccount(till, tracks, issued, stays, checkouts, spent),
           RecordsFit(tracks, issued, spent, saving \cup saved),
           NEW ts \in Nat, ts > clock, NEW place \in [shown' -> SUBSET Zones], Callbacks(ts, place),
           Handover(tracks', shown', emitted', Followed),
           Departures(tracks', emitted', Followed, issued, issued'), issued' \in Nat
    PROVE  /\ TillAccount(till, tracks', issued', stays', checkouts', spent')
           /\ RecordsFit(tracks', issued', spent', saving' \cup saved)
<1> DEFINE entry(v) == stays[v][till]
           sum(v) == spent[v] + TillTime(v, Closing(v, place), ts)
<1>1. /\ stays' = [v \in Visitors |->
            IF v \in shown' THEN Stays(ts, v, ZonesAt(place, v))
            ELSE IF v \in Gone THEN [z \in Zones |-> None] ELSE stays[v]]
      /\ checkouts' = [v \in Visitors |->
            IF v \in shown' THEN Checkout(checkouts[v], ts, ZonesAt(place, v) \cap Checkouts # {})
            ELSE IF v \in Gone THEN None ELSE checkouts[v]]
      /\ saving' = saving \cup (UNION {Ended(v, Closing(v, place), ts) : v \in Visitors})
                          \cup (UNION {Finished(v, ts) : v \in Gone})
      /\ spent' = [v \in Visitors |-> sum(v)]
  BY DEF Callbacks
<1>2. ASSUME NEW v \in Visitors
      PROVE  /\ checkouts[v] \in Session \cup {None} /\ entry(v) \in Nat \cup {None} /\ spent[v] \in Nat
             /\ checkouts[v] # None => checkouts[v].seen <= ts
             /\ entry(v) # None => till \in OpenZones(v)
             /\ entry(v) # None \/ checkouts[v] # None => tracks[v] # None
             /\ tracks[v] = None => OpenZones(v) = {}
             /\ v \in Nat /\ issued \in Nat
  <2>1. checkouts[v] \in Session \cup {None} /\ entry(v) \in Nat \cup {None} /\ spent[v] \in Nat
    BY DEF FrameInv, VisitTypes
  <2>2. checkouts[v] # None => checkouts[v].seen <= ts
    <3>1. clock \in Nat
      BY DEF FrameInv, OtherTypes
    <3>2. checkouts[v] # None => checkouts[v].seen \in Nat /\ checkouts[v].seen <= clock
      BY <2>1 DEF FrameInv, VisitInv, Session
    <3> QED BY <3>1, <3>2
  <2>3. entry(v) # None => till \in OpenZones(v)
    BY DEF OpenZones
  <2>4. (\E z \in Zones : stays[v][z] # None) \/ checkouts[v] # None => tracks[v] # None
    BY DEF FrameInv, Outlived
  <2>5. v \in Nat /\ issued \in Nat
    BY TrackerAssumption DEF FrameInv, TrackerTypeOK, Visitors
  <2> QED BY <2>1, <2>2, <2>3, <2>4, <2>5 DEF OpenZones
<1>3. ASSUME NEW v \in Visitors
      PROVE  /\ Exits(v, emitted') <=> v \in Gone
             /\ v \in Gone => tracks'[v] = None /\ v <= issued' /\ v \notin shown'
             /\ tracks'[v] # None => tracks[v] # None \/ v > issued
             /\ v \in shown' => tracks'[v] # None
             /\ v > issued' => v > issued
             /\ v <= issued => v <= issued'
  BY <1>2 DEF Exits, Gone, Handover, Departures, Followed
<1>4. ASSUME NEW v \in Visitors
      PROVE  /\ v \in shown' => sum(v) = spent[v] + IF entry(v) # None /\ till \notin ZonesAt(place, v)
                                                   THEN ts - entry(v) ELSE 0
             /\ v \in Gone => sum(v) = spent[v] + IF entry(v) # None THEN ts - entry(v) ELSE 0
             /\ v \notin shown' \cup Gone => sum(v) = spent[v]
  <2>1. sum(v) = spent[v] + IF till \in Closing(v, place) THEN ts - entry(v) ELSE 0
    <3>1. TillTimeIs(till, v, Closing(v, place), ts)
      BY OneTillTime
    <3> QED BY <3>1 DEF TillTimeIs
  <2>2. /\ v \in shown' => Closing(v, place) = OpenZones(v) \ ZonesAt(place, v)
        /\ v \in Gone => Closing(v, place) = OpenZones(v)
        /\ v \notin shown' \cup Gone => Closing(v, place) = {}
    BY <1>3 DEF Closing
  <2>3. till \in OpenZones(v) <=> entry(v) # None
    BY DEF OpenZones
  <2> HIDE DEF sum, entry
  <2> QED BY <1>2, <2>1, <2>2, <2>3
<1>5. ASSUME NEW v \in Visitors, checkouts'[v] # None \/ tracks'[v] # None \/ v > issued'
      PROVE  Tally(checkouts'[v], stays'[v][till], spent'[v])
  <2>1. spent'[v] = sum(v)
    BY <1>1
  <2>2. CASE v \in shown'
    <3>1. PICK b \in BOOLEAN : b <=> till \in ZonesAt(place, v)
      OBVIOUS
    <3>2. checkouts'[v] = Checkout(checkouts[v], ts, b)
      <4>1. b = (ZonesAt(place, v) \cap Checkouts # {})
        BY <3>1
      <4> QED BY <1>1, <2>2, <4>1
    <3>3. stays'[v][till] = IF ~b THEN None ELSE IF entry(v) = None THEN ts ELSE entry(v)
      <4>1. stays'[v] = Stays(ts, v, ZonesAt(place, v))
        BY <1>1, <2>2
      <4> QED BY <3>1, <4>1 DEF Stays
    <3>4. spent'[v] = spent[v] + IF entry(v) # None /\ ~b THEN ts - entry(v) ELSE 0
      BY <1>4, <2>1, <2>2, <3>1
    <3>5. Tally(checkouts[v], entry(v), spent[v])
      BY <1>3, <2>2 DEF TillAccount
    <3> HIDE DEF entry, sum
    <3>6. Tally(Checkout(checkouts[v], ts, b),
                IF ~b THEN None ELSE IF entry(v) = None THEN ts ELSE entry(v),
                spent[v] + IF entry(v) # None /\ ~b THEN ts - entry(v) ELSE 0)
      BY <1>2, <3>5, ShownAgrees
    <3> QED BY <3>2, <3>3, <3>4, <3>6
  <2>3. CASE v \notin shown' \cup Gone
    <3>1. checkouts'[v] = checkouts[v] /\ stays'[v] = stays[v] /\ spent'[v] = spent[v]
      BY <1>1, <1>4, <2>1, <2>3
    <3>2. checkouts[v] # None \/ tracks[v] # None \/ v > issued
      BY <1>3, <1>5, <3>1
    <3> QED BY <3>1, <3>2 DEF TillAccount
  <2>4. CASE v \in Gone
    BY <1>1, <1>2, <1>3, <1>5, <2>4
  <2> QED BY <2>2, <2>3, <2>4
<1>6. ASSUME NEW r \in saving \cup saved, r \in CheckoutVisit
      PROVE  tracks'[r.visitor] = None /\ r.visitor <= issued' /\ r.duration = spent'[r.visitor]
  <2> DEFINE v == r.visitor
  <2>1. v \in Visitors /\ tracks[v] = None /\ v <= issued /\ r.duration = spent[v]
    BY <1>6 DEF RecordsFit, CheckoutVisit
  <2> HIDE DEF v
  <2>2. tracks'[v] = None /\ v <= issued' /\ v \notin shown' /\ entry(v) = None
    BY <1>2, <1>3, <2>1
  <2>3. sum(v) = spent[v]
    <3> HIDE DEF sum, entry
    <3> QED BY <1>2, <1>4, <2>1, <2>2
  <2>4. spent'[v] = spent[v]
    BY <1>1, <2>1, <2>3
  <2> QED BY <2>1, <2>2, <2>4 DEF v
<1>7. ASSUME NEW v \in Gone, NEW r \in Finished(v, ts)
      PROVE  tracks'[r.visitor] = None /\ r.visitor <= issued' /\ r.duration = spent'[r.visitor]
  <2>1. v \in Visitors
    BY DEF Gone
  <2>2. r.visitor = v /\ checkouts[v] # None /\ r.duration = Total(checkouts[v], ts)
    BY DEF Finished
  <2>3. Tally(checkouts[v], entry(v), spent[v])
    BY <2>1, <2>2 DEF TillAccount
  <2>4. spent'[v] = spent[v] + IF entry(v) # None THEN ts - entry(v) ELSE 0
    BY <1>1, <1>4, <2>1
  <2>5. /\ checkouts[v].seen \in Nat /\ checkouts[v].total \in Nat
    BY <1>2, <2>1, <2>2 DEF Session
  <2> HIDE DEF entry, sum
  <2>6. r.duration = spent'[v]
    BY <1>2, <2>1, <2>2, <2>3, <2>4, <2>5 DEF Tally, Total
  <2> QED BY <1>3, <2>1, <2>2, <2>6
<1>8. ASSUME NEW v \in Visitors, NEW r \in Ended(v, Closing(v, place), ts) PROVE r \notin CheckoutVisit
  <2>1. PICK z : r = Visit(v, z, ts)
    BY DEF Ended
  <2>2. "duration" \notin DOMAIN r
    BY <2>1 DEF Visit
  <2> QED BY <2>2 DEF CheckoutVisit
<1>9. TillAccount(till, tracks', issued', stays', checkouts', spent')
  BY <1>5 DEF TillAccount
<1>10. RecordsFit(tracks', issued', spent', saving' \cup saved)
  <2> SUFFICES ASSUME NEW r \in saving' \cup saved, r \in CheckoutVisit
               PROVE  tracks'[r.visitor] = None /\ r.visitor <= issued' /\ r.duration = spent'[r.visitor]
    BY DEF RecordsFit
  <2> DEFINE A == UNION {Ended(v, Closing(v, place), ts) : v \in Visitors}
             B == UNION {Finished(v, ts) : v \in Gone}
  <2>1. r \notin A
    BY <1>8
  <2>2. r \in B => \E v \in Gone : r \in Finished(v, ts)
    OBVIOUS
  <2>3. saving' = saving \cup A \cup B
    BY <1>1
  <2> HIDE DEF A, B
  <2>4. r \in saving \cup saved \/ r \in B
    BY <2>1, <2>3
  <2> QED BY <1>6, <1>7, <2>2, <2>4
<1> QED BY <1>9, <1>10

TillInv ==
    \A till \in Checkouts : Checkouts = {till} =>
        /\ TillAccount(till, tracks, issued, stays, checkouts, spent)
        /\ RecordsFit(tracks, issued, spent, saving \cup saved)

LEMMA TillInitially == Init => TillInv
  BY VisitAssumption DEF Init, TrackerInit, TillInv, TillAccount, Tally, RecordsFit

LEMMA TillInvKept == FrameInv /\ TillInv /\ [Next]_vars => TillInv'
<1> SUFFICES ASSUME FrameInv, TillInv, [Next]_vars, NEW till \in Checkouts, Checkouts = {till}
             PROVE  /\ TillAccount(till, tracks', issued', stays', checkouts', spent')
                    /\ RecordsFit(tracks', issued', spent', saving' \cup saved')
  BY DEF TillInv
<1>1. /\ till \in Zones
      /\ TillAccount(till, tracks, issued, stays, checkouts, spent)
      /\ RecordsFit(tracks, issued, spent, saving \cup saved)
  BY VisitAssumption DEF TillInv
<1>2. ASSUME NEW ts \in clock + 1 .. clock + MaxGap, NEW fresh \in 0 .. 1,
             NEW high \in Matchings(Followed), NEW low \in Matchings(InState("lost")),
             Frame(ts, high, low, fresh)
      PROVE  /\ TillAccount(till, tracks', issued', stays', checkouts', spent')
             /\ RecordsFit(tracks', issued', spent', saving' \cup saved')
  <2>1. /\ ts \in Nat /\ ts > clock /\ TrackerTypeOK'
        /\ Handover(tracks', shown', emitted', Followed)
        /\ Departures(tracks', emitted', Followed, issued, issued')
    BY <1>2, FrameParts
  <2>2. PICK place \in [shown' -> SUBSET Zones] : Callbacks(ts, place)
    BY <1>2, FrameParts
  <2>3. issued' \in Nat /\ saved' = saved
    BY <1>2, <2>1, TrackerAssumption DEF TrackerTypeOK, Frame
  <2> QED BY <1>1, <2>1, <2>2, <2>3, TillFrame
<1>3. ASSUME NEW r \in saving, Save(r) \/ SaveFails(r)
      PROVE  /\ TillAccount(till, tracks', issued', stays', checkouts', spent')
             /\ RecordsFit(tracks', issued', spent', saving' \cup saved')
  <2>1. /\ tracks' = tracks /\ issued' = issued /\ stays' = stays /\ checkouts' = checkouts /\ spent' = spent
        /\ saving' \cup saved' \subseteq saving \cup saved
    BY <1>3 DEF Save, SaveFails, trackVars
  <2> QED BY <1>1, <2>1 DEF RecordsFit
<1>4. CASE EditZones \/ UNCHANGED vars
  <2>1. /\ tracks' = tracks /\ issued' = issued /\ stays' = stays /\ checkouts' = checkouts /\ spent' = spent
        /\ saving' = saving /\ saved' = saved
    BY <1>4 DEF EditZones, vars, visitVars, trackVars
  <2> QED BY <1>1, <2>1
<1> QED BY <1>2, <1>3, <1>4 DEF Next

\* The zone service and the checkout service agree on the time at the only till, while the
\* visitor is there and in what is stored, over any frames, edits of the zones and database
\* errors (process_frame of both services, CheckoutSession in checkout_analytics_service.py).
THEOREM TillTimesAlwaysAgree == Spec => []TillTimesAgree
<1>1. TillInv => TillTimesAgree
  BY DEF TillInv, TillAccount, Tally, RecordsFit, TillTimesAgree
<1>2. FrameInv /\ TillInv /\ [Next]_vars => TillInv'
  BY TillInvKept
<1> QED BY <1>1, <1>2, TillInitially, FrameInvAlways, PTL DEF Spec
-----------------------------------------------------------------------------
(* The reports.                                                              *)

\* A visitor leaves once and so has at most one record of the checkout.
OneEach(recs) == \A r, s \in recs \cap CheckoutVisit : r.visitor = s.visitor => r = s

ReportInv ==
    /\ IsFiniteSet(saving \cup saved)
    /\ Cardinality(Checkouts) = 1 => OneEach(saving \cup saved)

LEMMA VisitorsFinite == IsFiniteSet(Visitors)
  BY TrackerAssumption, FS_Interval DEF Visitors

LEMMA OneTill == ASSUME Cardinality(Checkouts) = 1 PROVE \E till \in Checkouts : Checkouts = {till}
<1>1. IsFiniteSet(Checkouts)
  BY VisitAssumption, FS_Subset
<1> QED BY <1>1, FS_Singleton

NewVisits(ts, place) == UNION {Ended(v, Closing(v, place), ts) : v \in Visitors}
NewCheckouts(ts) == UNION {Finished(v, ts) : v \in Gone}

\* The records of a frame are as many as there are zones and visitors at most.
LEMMA FrameRecordsFinite ==
    ASSUME NEW ts, NEW place
    PROVE  IsFiniteSet(NewVisits(ts, place)) /\ IsFiniteSet(NewCheckouts(ts))
<1>1. ASSUME NEW v \in Visitors PROVE IsFiniteSet(Ended(v, Closing(v, place), ts))
  <2> DEFINE long == {y \in Closing(v, place) : ts - stays[v][y] > MinStay}
             f == [z \in long |-> Visit(v, z, ts)]
  <2>1. Closing(v, place) \subseteq Zones
    BY DEF Closing, OpenZones
  <2>2. IsFiniteSet(long)
    BY <2>1, VisitAssumption, FS_Subset
  <2>3. Ended(v, Closing(v, place), ts) = {f[z] : z \in long}
    BY DEF Ended
  <2> HIDE DEF long
  <2>4. DOMAIN f = long
    OBVIOUS
  <2> HIDE DEF f
  <2>5. IsFiniteSet({f[z] : z \in long})
    BY <2>2, <2>4, FiniteImage
  <2> QED BY <2>3, <2>5
<1>2. ASSUME NEW v \in Gone PROVE IsFiniteSet(Finished(v, ts))
  BY FS_EmptySet, FS_Singleton DEF Finished
<1>3. IsFiniteSet(Gone)
  BY VisitorsFinite, FS_Subset DEF Gone
<1> DEFINE E == [v \in Visitors |-> Ended(v, Closing(v, place), ts)]
           F == [v \in Gone |-> Finished(v, ts)]
<1>4. \A v \in Visitors : E[v] = Ended(v, Closing(v, place), ts)
  OBVIOUS
<1>5. \A v \in Gone : F[v] = Finished(v, ts)
  OBVIOUS
<1> HIDE DEF E, F
<1>6. IsFiniteSet(UNION {E[v] : v \in Visitors}) /\ IsFiniteSet(UNION {F[v] : v \in Gone})
  BY <1>1, <1>2, <1>3, <1>4, <1>5, VisitorsFinite, FiniteUnion
<1>7. {E[v] : v \in Visitors} = {Ended(v, Closing(v, place), ts) : v \in Visitors}
  BY <1>4
<1>8. {F[v] : v \in Gone} = {Finished(v, ts) : v \in Gone}
  BY <1>5
<1> QED BY <1>6, <1>7, <1>8 DEF NewVisits, NewCheckouts

LEMMA ReportInitially == Init => ReportInv
  BY FS_EmptySet DEF Init, ReportInv, OneEach

LEMMA ReportInvKept == FrameInv /\ TillInv /\ ReportInv /\ [Next]_vars => ReportInv'
<1> SUFFICES ASSUME FrameInv, TillInv, ReportInv, [Next]_vars PROVE ReportInv'
  OBVIOUS
<1>1. ASSUME NEW ts \in clock + 1 .. clock + MaxGap, NEW fresh \in 0 .. 1,
             NEW high \in Matchings(Followed), NEW low \in Matchings(InState("lost")),
             Frame(ts, high, low, fresh)
      PROVE  ReportInv'
  <2>1. PICK place \in [shown' -> SUBSET Zones] : Callbacks(ts, place)
    BY <1>1, FrameParts
  <2> DEFINE A == NewVisits(ts, place)
             B == NewCheckouts(ts)
  <2>2. saving' = saving \cup A \cup B /\ saved' = saved
    BY <1>1, <2>1 DEF Callbacks, Frame, NewVisits, NewCheckouts
  <2>3. IsFiniteSet(A) /\ IsFiniteSet(B)
    BY FrameRecordsFinite
  <2>4. \A r \in A : r \notin CheckoutVisit
    <3> SUFFICES ASSUME NEW v \in Visitors, NEW r \in Ended(v, Closing(v, place), ts) PROVE r \notin CheckoutVisit
      BY DEF NewVisits
    <3>1. PICK z : r = Visit(v, z, ts)
      BY DEF Ended
    <3>2. "duration" \notin DOMAIN r
      BY <3>1 DEF Visit
    <3> QED BY <3>2 DEF CheckoutVisit
  <2>5. ASSUME NEW r \in B, NEW s \in B, r.visitor = s.visitor PROVE r = s
    <3>1. PICK v \in Gone, w \in Gone : r \in Finished(v, ts) /\ s \in Finished(w, ts)
      BY DEF NewCheckouts
    <3>2. r.visitor = v /\ s.visitor = w
      BY <3>1 DEF Finished
    <3> QED BY <2>5, <3>1, <3>2 DEF Finished
  <2>6. ASSUME NEW r \in B PROVE r.visitor \in Visitors /\ tracks[r.visitor] # None
    <3>1. PICK v \in Gone : r \in Finished(v, ts)
      BY DEF NewCheckouts
    <3>2. v \in Visitors /\ r.visitor = v /\ checkouts[v] # None
      BY <3>1 DEF Finished, Gone
    <3> QED BY <3>2 DEF FrameInv, Outlived
  <2> HIDE DEF A, B
  <2>7. IsFiniteSet(saving' \cup saved')
    <3>1. saving' \cup saved' = ((saving \cup saved) \cup A) \cup B
      BY <2>2
    <3>2. IsFiniteSet((saving \cup saved) \cup A)
      BY <2>3, FS_Union DEF ReportInv
    <3> QED BY <2>3, <3>1, <3>2, FS_Union
  <2>8. ASSUME Cardinality(Checkouts) = 1, NEW r \in saving' \cup saved', NEW s \in saving' \cup saved',
               r \in CheckoutVisit, s \in CheckoutVisit, r.visitor = s.visitor
        PROVE  r = s
    <3>1. \A q \in (saving \cup saved) \cap CheckoutVisit : tracks[q.visitor] = None
      BY <2>8, OneTill DEF TillInv, RecordsFit
    <3>2. (r \in saving \cup saved \/ r \in B) /\ (s \in saving \cup saved \/ s \in B)
      BY <2>2, <2>4, <2>8
    <3>3. CASE r \in saving \cup saved /\ s \in saving \cup saved
      BY <2>8, <3>3 DEF ReportInv, OneEach
    <3>4. CASE r \in B /\ s \in B
      BY <2>5, <2>8, <3>4
    <3> QED BY <2>6, <2>8, <3>1, <3>2, <3>3, <3>4
  <2> QED BY <2>7, <2>8 DEF ReportInv, OneEach
<1>2. ASSUME saving' \cup saved' \subseteq saving \cup saved PROVE ReportInv'
  <2>1. IsFiniteSet(saving' \cup saved')
    BY <1>2, FS_Subset DEF ReportInv
  <2>2. ASSUME Cardinality(Checkouts) = 1 PROVE OneEach(saving' \cup saved')
    BY <1>2, <2>2 DEF ReportInv, OneEach
  <2> QED BY <2>1, <2>2 DEF ReportInv, OneEach
<1>3. ASSUME NEW r \in saving, Save(r) \/ SaveFails(r) PROVE ReportInv'
  BY <1>2, <1>3 DEF Save, SaveFails
<1>4. CASE EditZones \/ UNCHANGED vars
  BY <1>2, <1>4 DEF EditZones, vars, visitVars
<1> QED BY <1>1, <1>3, <1>4 DEF Next

\* The first part: every stored visit is counted with its zone.
LEMMA VisitsAreReported ==
    ASSUME FrameInv, ReportInv
    PROVE  /\ SumFunction([z \in ReportedZones |-> Statistics[z].visits]) = Cardinality(SavedVisits)
           /\ \A r \in SavedVisits : r.zone \in Popular
<1>1. IsFiniteSet(SavedVisits)
  BY FS_Subset DEF ReportInv, SavedVisits
<1>2. IsFiniteSet(ReportedZones)
  <2>1. ReportedZones \subseteq Zones
    BY DEF ReportedZones, SavedVisits, ZoneVisit
  <2> QED BY <2>1, VisitAssumption, FS_Subset
<1> DEFINE key == [r \in SavedVisits |-> r.zone]
           Mine(z) == {r \in SavedVisits : r.zone = z}
<1>3. key \in [SavedVisits -> ReportedZones]
  BY DEF ReportedZones
<1>4. \A z \in ReportedZones : Statistics[z].visits = Cardinality(Mine(z)) /\ Mine(z) = {r \in SavedVisits : key[r] = z}
  BY DEF Statistics
<1>5. [z \in ReportedZones |-> Statistics[z].visits] = [z \in ReportedZones |-> Cardinality({r \in SavedVisits : key[r] = z})]
  BY <1>4
<1>6. \A r \in SavedVisits : r \in Mine(r.zone) /\ r.zone \in ReportedZones
  BY DEF ReportedZones
<1>7. ASSUME NEW r \in SavedVisits PROVE r.zone \in Popular
  <2> DEFINE M == Mine(r.zone)
  <2>1. IsFiniteSet(M) /\ M # {}
    BY <1>1, <1>6, FS_Subset
  <2>2. Statistics[r.zone].visits = Cardinality(M)
    BY <1>4, <1>6
  <2> HIDE DEF M
  <2>3. Cardinality(M) \in Nat /\ Cardinality(M) # 0
    BY <2>1, FS_EmptySet, FS_CardinalityType
  <2> QED BY <1>6, <2>2, <2>3 DEF Popular
<1> HIDE DEF key
<1>8. SumFunction([z \in ReportedZones |-> Cardinality({r \in SavedVisits : key[r] = z})]) = Cardinality(SavedVisits)
  BY <1>1, <1>2, <1>3, SumCounts
<1> QED BY <1>5, <1>7, <1>8

\* The last part: each visitor's record is no longer than the time it spent at the till.
LEMMA MetricsAreCovered ==
    ASSUME FrameInv, TillInv, ReportInv, Cardinality(Checkouts) = 1
    PROVE  Metrics.total <= SumFunction(spent)
<1> DEFINE A == saved \cap CheckoutVisit
           f == [r \in A |-> r.duration]
           key == [r \in A |-> r.visitor]
<1>1. IsFiniteSet(A)
  BY FS_Subset DEF ReportInv
<1>2. f \in [A -> Int] /\ key \in [A -> Visitors]
  BY DEF CheckoutVisit
<1>3. \A r, s \in A : key[r] = key[s] => r = s
  BY DEF ReportInv, OneEach
<1>4. spent \in [Visitors -> Nat]
  BY DEF FrameInv, VisitTypes
<1>5. \A r \in A : f[r] <= spent[key[r]]
  <2>1. \A r \in A : r.duration = spent[r.visitor] /\ r.visitor \in Visitors
    BY OneTill DEF TillInv, RecordsFit, CheckoutVisit
  <2> QED BY <1>4, <2>1
<1>6. Metrics.total = SumFunction(f)
  BY DEF Metrics
<1> HIDE DEF A, f, key
<1>7. SumFunction(f) <= SumFunction(spent)
  BY <1>1, <1>2, <1>3, <1>4, <1>5, VisitorsFinite, SumCharged
<1> QED BY <1>6, <1>7

\* The report counts every stored visit once, also of zones that are gone, calls no visited zone
\* ignored, and the checkout metrics charge no visitor more than the time spent at the only till
\* (calculate_zone_statistics, get_metrics of the checkout repository).
THEOREM ReportsAlwaysAddUp == Spec => []ReportsAddUp
<1>1. FrameInv /\ TillInv /\ ReportInv => ReportsAddUp
  <2> SUFFICES ASSUME FrameInv, TillInv, ReportInv PROVE ReportsAddUp
    OBVIOUS
  <2>1. \A r \in SavedVisits : r.zone \in Popular
    BY VisitsAreReported
  <2>2. \A z \in Ignored : drawn[z] = "active"
    <3> SUFFICES ASSUME NEW z \in Ignored, drawn[z] # "active" PROVE FALSE
      OBVIOUS
    <3>1. PICK r \in SavedVisits : r.zone = z
      BY DEF Ignored, ReportedZones
    <3>2. Statistics[z].visits = 0 /\ Statistics[z].visits > 0
      BY <2>1, <3>1 DEF Ignored, Popular
    <3> QED BY <3>2
  <2> QED BY <2>1, <2>2, VisitsAreReported, MetricsAreCovered DEF ReportsAddUp
<1>2. FrameInv /\ TillInv /\ ReportInv /\ [Next]_vars => ReportInv'
  BY ReportInvKept
<1>3. FrameInv /\ TillInv /\ [Next]_vars => TillInv'
  BY TillInvKept
<1> QED BY <1>1, <1>2, <1>3, ReportInitially, TillInitially, FrameInvAlways, PTL DEF Spec
=============================================================================
