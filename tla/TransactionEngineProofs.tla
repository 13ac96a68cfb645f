------------------------ MODULE TransactionEngineProofs ------------------------
(* Theorems about TransactionEngine and its pages for all cameras, tracks,    *)
(* zones and times.                                                        *)
EXTENDS TransactionPages, FiniteSetTheorems, TLAPS

\* transition_to stays within the visitor states.
LEMMA TransitionType ==
    ASSUME NEW state \in VisitorState, NEW target \in VisitorState
    PROVE  TransitionTo(state, target) \in VisitorState
BY DEF TransitionTo

\* Points are natural numbers, so a capped total is a legal score.
LEMMA TotalPointsNat ==
    ASSUME NEW S
    PROVE  TotalPoints(S) \in Nat
<1>1. \A signal \in Signals : SIGNAL_SCORES[signal] \in Nat
  BY DEF SIGNAL_SCORES, Signals
<1>2. \A signal \in Signals : Points(S, signal) \in Nat
  BY <1>1 DEF Points
<1>3. QED
  BY <1>2 DEF TotalPoints, Signals, SIGNAL_SCORES

LEMMA CapType ==
    ASSUME NEW points \in Nat
    PROVE  Cap(points) \in 0..MAX_SCORE
BY DEF Cap, MAX_SCORE

LEMMA LevelType ==
    ASSUME NEW score
    PROVE  Level(score) \in Levels
BY DEF Level, Levels

\* The names used by the handlers are states and signals of the tables.
LEMMA Names ==
    /\ VisitorState = {"ENTERED_STORE", "SHOPPING", "MOVING_TO_CHECKOUT",
                       "WAITING_IN_QUEUE", "AT_CHECKOUT", "PAYMENT_INTERACTION",
                       "PURCHASE_COMPLETED", "EXITED_STORE"}
    /\ Signals = {"checkout_zone_entered", "queue_completed",
                  "cash_exchange_detected", "card_machine_interaction",
                  "upi_payment_interaction", "browsing_detected",
                  "extended_dwell_detected"}
BY DEF VisitorState, TRANSITIONS, Signals, SIGNAL_SCORES

LEMMA AddSignalsType ==
    ASSUME NEW s \in TransactionSessionState, NEW S \in SUBSET Signals
    PROVE  AddSignals(s, S) \in TransactionSessionState
<1>1. TotalPoints(S \ s.signals) \in Nat
  BY TotalPointsNat
<1>2. s.score \in Nat
  BY DEF TransactionSessionState, MAX_SCORE
<1>3. Cap(s.score + TotalPoints(S \ s.signals)) \in 0..MAX_SCORE
  BY <1>1, <1>2, CapType
<1>4. QED
  BY <1>3 DEF AddSignals, TransactionSessionState

LEMMA FireType ==
    ASSUME NEW s \in TransactionSessionState, NEW S \in SUBSET Signals
    PROVE  Fire(s, S) \in TransactionSessionState
<1>1. AddSignals(s, S) \in TransactionSessionState
  BY AddSignalsType
<1>2. Level(AddSignals(s, S).score) \in Levels
  BY LevelType
<1>3. QED
  BY <1>1, <1>2 DEF Fire, TransactionSessionState

LEMMA NewSessionType ==
    ASSUME NEW t \in Times
    PROVE  NewSession(t) \in TransactionSessionState
BY Names DEF NewSession, TransactionSessionState, MAX_SCORE, Levels, Times

\* The record updates the handlers make, one field at a time.
LEMMA StateType ==
    ASSUME NEW s \in TransactionSessionState, NEW state \in VisitorState
    PROVE  [s EXCEPT !.state = state] \in TransactionSessionState
BY DEF TransactionSessionState

LEMMA ZoneTimeType ==
    ASSUME NEW s \in TransactionSessionState, NEW z \in Zones, NEW ts \in Times
    PROVE  [s EXCEPT !.zone_entry_times[z] = ts] \in TransactionSessionState
BY DEF TransactionSessionState

LEMMA EnterZoneType ==
    ASSUME NEW s \in TransactionSessionState, NEW z \in Zones, NEW ts \in Times
    PROVE  EnterZone(s, z, ts) \in TransactionSessionState
<1>1. PICK S \in SUBSET Signals, state \in VisitorState :
        EnterZone(s, z, ts)
          = [[Fire(s, S) EXCEPT !.state = state] EXCEPT !.zone_entry_times[z] = ts]
  <2> DEFINE kinds == ZoneKinds[z]
             fired == {sig \in Signals :
                    \/ sig = "checkout_zone_entered" /\ "checkout" \in kinds
                    \/ sig = "card_machine_interaction" /\ "payment" \in kinds
                    \/ sig = "upi_payment_interaction" /\ "upi" \in kinds
                    \/ sig = "cash_exchange_detected" /\ "cash" \in kinds}
             paying == {"payment", "upi", "cash"} \cap kinds # {}
             atTill == IF "checkout" \in kinds THEN TransitionTo(s.state, "AT_CHECKOUT")
                                               ELSE s.state
             atPayment == IF paying THEN TransitionTo(atTill, "PAYMENT_INTERACTION")
                                    ELSE atTill
             inQueue == IF "queue" \in kinds
                        THEN TransitionTo(atPayment, "WAITING_IN_QUEUE") ELSE atPayment
  <2>1. atTill \in VisitorState
    BY TransitionType, Names DEF TransactionSessionState
  <2>2. atPayment \in VisitorState
    BY <2>1, TransitionType, Names
  <2>3. inQueue \in VisitorState
    BY <2>2, TransitionType, Names
  <2>4. EnterZone(s, z, ts)
          = [[Fire(s, fired) EXCEPT !.state = inQueue] EXCEPT !.zone_entry_times[z] = ts]
    BY DEF EnterZone
  <2>5. fired \in SUBSET Signals
    OBVIOUS
  <2> HIDE DEF fired, inQueue
  <2>6. QED
    BY <2>3, <2>4, <2>5
<1> DEFINE moved == [Fire(s, S) EXCEPT !.state = state]
<1>2. moved \in TransactionSessionState
  BY FireType, StateType
<1>3. EnterZone(s, z, ts) = [moved EXCEPT !.zone_entry_times[z] = ts]
  BY <1>1
<1> HIDE DEF moved
<1>4. QED
  BY <1>2, <1>3, ZoneTimeType

LEMMA ExitZoneType ==
    ASSUME NEW s \in TransactionSessionState, NEW z \in Zones, NEW ts \in Times
    PROVE  ExitZone(s, z, ts) \in TransactionSessionState
<1>1. PICK S \in SUBSET Signals, bought \in BOOLEAN :
        ExitZone(s, z, ts)
          = [[Fire(s, S) EXCEPT !.state = IF bought
                                          THEN TransitionTo(@, "PURCHASE_COMPLETED")
                                          ELSE @]
               EXCEPT !.zone_entry_times[z] = 0]
  <2> DEFINE kinds == ZoneKinds[z]
             entry_time == s.zone_entry_times[z]
             dwell == IF entry_time # 0 THEN ts - entry_time ELSE 0
             atTill == "checkout" \in kinds
             atCard == "payment" \in kinds /\ dwell > 10
             atUpi == "upi" \in kinds /\ dwell > 5
             fired == {sig \in Signals :
                    \/ sig = "queue_completed" /\ "queue" \in kinds /\ dwell > 20
                    \/ sig = "cash_exchange_detected" /\ atTill /\ dwell > 90
                    \/ sig = "card_machine_interaction"
                         /\ (atCard \/ (atTill /\ dwell \in 30..90))
                    \/ sig = "upi_payment_interaction"
                         /\ (atUpi \/ (atTill /\ dwell \in 10..29))}
             bought == atCard \/ atUpi \/ (atTill /\ dwell >= 10)
  <2>1. fired \in SUBSET Signals /\ bought \in BOOLEAN
    OBVIOUS
  <2>2. ExitZone(s, z, ts)
          = [[Fire(s, fired) EXCEPT !.state = IF bought
                                              THEN TransitionTo(@, "PURCHASE_COMPLETED")
                                              ELSE @]
               EXCEPT !.zone_entry_times[z] = 0]
    BY DEF ExitZone
  <2> HIDE DEF fired, bought
  <2>3. QED
    BY <2>1, <2>2
<1> DEFINE paid == Fire(s, S)
           state == IF bought THEN TransitionTo(paid.state, "PURCHASE_COMPLETED")
                              ELSE paid.state
<1>2. paid \in TransactionSessionState
  BY FireType
<1>3. state \in VisitorState
  <2> HIDE DEF paid
  <2>1. paid.state \in VisitorState
    BY <1>2 DEF TransactionSessionState
  <2>2. QED
    BY <2>1, TransitionType, Names
<1> DEFINE moved == [paid EXCEPT !.state = state]
<1>4. ExitZone(s, z, ts) = [moved EXCEPT !.zone_entry_times[z] = 0]
  BY <1>1
<1> HIDE DEF paid, state
<1>5. moved \in TransactionSessionState
  BY <1>2, <1>3, StateType
<1>6. 0 \in Times
  BY DEF Times
<1> HIDE DEF moved
<1>7. QED
  BY <1>4, <1>5, <1>6, ZoneTimeType

LEMMA BrowsingCheckType ==
    ASSUME NEW s \in TransactionSessionState, NEW t \in Times
    PROVE  BrowsingCheck(s, t) \in TransactionSessionState
<1>1. TransitionTo(s.state, "SHOPPING") \in VisitorState
  BY TransitionType, Names DEF TransactionSessionState
<1>2. PICK walking \in {s, [s EXCEPT !.state = TransitionTo(@, "SHOPPING")]} :
        BrowsingCheck(s, t) \in {walking, Fire(walking, {"browsing_detected"})}
  BY DEF BrowsingCheck
<1>3. walking \in TransactionSessionState
  BY <1>1, <1>2, StateType
<1>4. QED
  BY <1>2, <1>3, FireType, Names

LEMMA ExtendedDwellCheckType ==
    ASSUME NEW s \in TransactionSessionState, NEW t \in Times
    PROVE  ExtendedDwellCheck(s, t) \in TransactionSessionState
<1> DEFINE fired == Fire(s, {"extended_dwell_detected"})
           moved == IF fired.state = "SHOPPING"
                    THEN TransitionTo(fired.state, "MOVING_TO_CHECKOUT") ELSE fired.state
<1>1. fired \in TransactionSessionState
  BY FireType, Names
<1>2. moved \in VisitorState
  <2> HIDE DEF fired
  <2>1. fired.state \in VisitorState
    BY <1>1 DEF TransactionSessionState
  <2>2. QED
    BY <2>1, TransitionType, Names
<1>3. ExtendedDwellCheck(s, t) \in {s, [fired EXCEPT !.state = moved]}
  BY DEF ExtendedDwellCheck
<1> HIDE DEF fired, moved
<1>4. QED
  BY <1>1, <1>2, <1>3, StateType

-----------------------------------------------------------------------------
(* Type correctness.  A crossing handled for a track without a session would *)
(* write outside the session table, so the types need SessionsOwned too.     *)

IInv == TypeOK /\ SessionsOwned

LEMMA IdleFrameType == IdleFrame \in Frame
BY CameraAssumption DEF IdleFrame, Frame

LEMMA SignalsFinite == IsFiniteSet(Signals)
<1>1. IsFiniteSet({})
  BY FS_EmptySet
<1>2. /\ IsFiniteSet({} \cup {"checkout_zone_entered"})
      /\ IsFiniteSet(({} \cup {"checkout_zone_entered"}) \cup {"queue_completed"})
  BY <1>1, FS_AddElement
<1>3. IsFiniteSet({"checkout_zone_entered", "queue_completed"} \cup {"cash_exchange_detected"})
  <2>1. ({} \cup {"checkout_zone_entered"}) \cup {"queue_completed"}
          = {"checkout_zone_entered", "queue_completed"}
    OBVIOUS
  <2>2. QED
    BY <1>2, <2>1, FS_AddElement
<1>4. IsFiniteSet(({"checkout_zone_entered", "queue_completed"}
                    \cup {"cash_exchange_detected"}) \cup {"card_machine_interaction"})
  BY <1>3, FS_AddElement
<1>5. IsFiniteSet({"upi_payment_interaction"} \cup {"browsing_detected"})
  BY <1>1, FS_Singleton, FS_AddElement
<1>6. IsFiniteSet(({"upi_payment_interaction"} \cup {"browsing_detected"})
                   \cup {"extended_dwell_detected"})
  BY <1>5, FS_AddElement
<1>7. Signals = (({"checkout_zone_entered", "queue_completed"}
                    \cup {"cash_exchange_detected"}) \cup {"card_machine_interaction"})
                \cup (({"upi_payment_interaction"} \cup {"browsing_detected"})
                   \cup {"extended_dwell_detected"})
  BY Names
<1>8. QED
  BY <1>4, <1>6, <1>7, FS_Union

\* Each update between two values of a session writes at most one prediction.
LEMMA SnapshotsType ==
    ASSUME NEW i \in SessionIds, NEW before,
           NEW after \in TransactionSessionState
    PROVE  /\ Snapshots(i, before, after) \subseteq Prediction
           /\ IsFiniteSet(Snapshots(i, before, after))
<1> DEFINE p == [session |-> i, level |-> after.last_persisted_level,
                 signals |-> after.signals]
<1>1. p \in Prediction
  BY DEF Prediction, TransactionSessionState
<1>2. Snapshots(i, before, after) \subseteq {p}
  BY DEF Snapshots
<1>3. IsFiniteSet({p})
  BY FS_Singleton
<1>4. QED
  BY <1>1, <1>2, <1>3, FS_Subset

\* What a crossing writes are predictions of its own session.
LEMMA SnapshotsOwn ==
    ASSUME NEW i, NEW before, NEW after
    PROVE  \A p \in Snapshots(i, before, after) : p.session = i
BY DEF Snapshots

LEMMA CloudCopiesType ==
    ASSUME NEW P \in SUBSET Prediction
    PROVE  CloudCopies(P) \subseteq SyncEntry
BY DEF CloudCopies, Prediction, SyncEntry

LEMMA FaultsType ==
    ASSUME faults \in 0..MaxFaults, NEW n \in Nat, Faults(n)
    PROVE  faults' \in 0..MaxFaults
BY TimeAssumption DEF Faults

\* The values a crossing takes a session through, all of them well typed.
LEMMA CrossingType ==
    ASSUME NEW s \in TransactionSessionState, NEW z \in Zones, NEW t \in Times,
           NEW zoned, zoned = EnterZone(s, z, t) \/ zoned = ExitZone(s, z, t)
    PROVE  /\ zoned \in TransactionSessionState
           /\ BrowsingCheck(zoned, t) \in TransactionSessionState
           /\ ExtendedDwellCheck(zoned, t) \in TransactionSessionState
           /\ ExtendedDwellCheck(BrowsingCheck(zoned, t), t) \in TransactionSessionState
BY EnterZoneType, ExitZoneType, BrowsingCheckType, ExtendedDwellCheckType

LEMMA InitIInv == Init => IInv
<1> SUFFICES ASSUME Init PROVE IInv
  OBVIOUS
<1>1. NewSession(0) \in TransactionSessionState
  BY NewSessionType DEF Times
<1>2. AbsentRow \in Row
  BY Names DEF AbsentRow, Row, MAX_SCORE
<1>3. TypeOK
  BY <1>1, <1>2, IdleFrameType, TimeAssumption DEF Init, TypeOK, Times
<1>4. SessionsOwned
  BY DEF Init, SessionsOwned, IdleFrame
<1>5. QED
  BY <1>3, <1>4 DEF IInv

LEMMA BeginFrameIInv ==
    ASSUME IInv, NEW c \in Cameras, NEW t \in Instants, NEW ids \in SUBSET TrackIds,
           NEW crossings \in SUBSET (ids \X Zones), BeginFrame(c, t, ids, crossings)
    PROVE  IInv'
<1> DEFINE newKeys == {k \in {c} \X ids : live[k] = NoSession}
           seen == {live[k] : k \in {c} \X ids} \ {NoSession}
<1>1. PICK fresh \in [newKeys -> SessionIds \ used] :
        /\ \A j, k \in newKeys : fresh[j] = fresh[k] => j = k
        /\ live' = [k \in Keys |-> IF k \in newKeys THEN fresh[k] ELSE live[k]]
        /\ session' = [i \in SessionIds |->
              IF i \in {fresh[k] : k \in newKeys} THEN NewSession(t)
              ELSE IF i \in seen THEN [session[i] EXCEPT !.last_seen = t]
              ELSE session[i]]
        /\ used' = used \cup {fresh[k] : k \in newKeys}
  BY DEF BeginFrame
<1>2. /\ now' = t
      /\ frame' = [camera |-> c, ids |-> ids, crossings |-> crossings]
      /\ phase' = "busy"
      /\ UNCHANGED <<_last_db_flush, rows, signalRows, predictions, syncQueue, faults>>
  BY DEF BeginFrame, database
<1>3. newKeys \subseteq Keys
  BY DEF Keys
<1>4. t \in Times
  BY DEF Times
<1> HIDE DEF newKeys, seen
<1>5. TypeOK'
  <2>1. session' \in [SessionIds -> TransactionSessionState]
    <3>1. NewSession(t) \in TransactionSessionState
      BY <1>4, NewSessionType
    <3>2. \A i \in SessionIds :
            [session[i] EXCEPT !.last_seen = t] \in TransactionSessionState
      BY <1>4 DEF IInv, TypeOK, TransactionSessionState
    <3>3. \A i \in SessionIds : session[i] \in TransactionSessionState
      BY DEF IInv, TypeOK
    <3>4. QED
      BY <1>1, <3>1, <3>2, <3>3
  <2>2. live' \in [Keys -> SessionIds \cup {NoSession}] /\ used' \subseteq SessionIds
    BY <1>1, <1>3 DEF IInv, TypeOK
  <2>3. frame' \in Frame
    BY <1>2 DEF Frame
  <2>4. QED
    BY <1>2, <1>4, <2>1, <2>2, <2>3 DEF IInv, TypeOK
<1>6. SessionsOwned'
  <2>1. ASSUME NEW k \in Keys, live'[k] # NoSession
        PROVE  /\ live'[k] \in used'
               /\ rows'[live'[k]].status # "complete"
               /\ \A j \in Keys : live'[j] = live'[k] => j = k
    <3>1. CASE k \in newKeys
      <4>1. live'[k] = fresh[k] /\ fresh[k] \in SessionIds \ used
        BY <1>1, <1>3, <3>1
      <4>2. rows'[live'[k]] = AbsentRow
        BY <1>2, <4>1 DEF IInv, SessionsOwned
      <4>3. \A j \in Keys : j \notin newKeys => live'[j] = live[j]
        BY <1>1
      <4>4. \A j \in Keys : j \notin newKeys => live'[j] # live'[k]
        BY <4>1, <4>3, SessionAssumption DEF IInv, SessionsOwned
      <4>5. \A j \in newKeys : live'[j] = live'[k] => j = k
        BY <1>1, <1>3, <3>1
      <4>6. QED
        BY <1>1, <3>1, <4>1, <4>2, <4>4, <4>5 DEF AbsentRow
    <3>2. CASE k \notin newKeys
      <4>1. live'[k] = live[k]
        BY <1>1, <3>2
      <4>2. live[k] \in used /\ rows[live[k]].status # "complete"
        BY <2>1, <4>1 DEF IInv, SessionsOwned
      <4>3. \A j \in Keys : j \notin newKeys => live'[j] = live[j]
        BY <1>1
      <4>4. \A j \in newKeys : live'[j] \notin used
        BY <1>1, <1>3
      <4>5. QED
        BY <1>1, <1>2, <2>1, <4>1, <4>2, <4>3, <4>4 DEF IInv, SessionsOwned
    <3>3. QED
      BY <3>1, <3>2
  <2>2. ASSUME NEW x \in frame'.crossings
        PROVE  live'[<<frame'.camera, x[1]>>] # NoSession
    <3>1. x[1] \in ids /\ frame'.camera = c
      BY <1>2
    <3>2. <<c, x[1]>> \in Keys
      BY <3>1 DEF Keys
    <3>3. <<c, x[1]>> \in newKeys \/ live[<<c, x[1]>>] # NoSession
      BY <3>1 DEF newKeys
    <3>4. QED
      BY <1>1, <3>1, <3>2, <3>3, SessionAssumption
  <2>3. \A i \in SessionIds \ used' :
           /\ rows'[i] = AbsentRow
           /\ signalRows'[i] = {}
           /\ \A p \in predictions' : p.session # i
    BY <1>1, <1>2 DEF IInv, SessionsOwned
  <2>4. QED
    BY <2>1, <2>2, <2>3 DEF SessionsOwned
<1>7. QED
  BY <1>5, <1>6 DEF IInv

LEMMA HandleZoneCrossingIInv ==
    ASSUME IInv, NEW x \in TrackIds \X Zones, HandleZoneCrossing(x)
    PROVE  IInv'
<1> DEFINE k == <<frame.camera, x[1]>>
           i == live[k]
           s == session[i]
           z == x[2]
           zoned == IF s.zone_entry_times[z] = 0 THEN EnterZone(s, z, now)
                                                 ELSE ExitZone(s, z, now)
           signal_fired == zoned.signals # s.signals
           browsed == IF signal_fired THEN zoned ELSE BrowsingCheck(zoned, now)
           final == IF signal_fired THEN zoned ELSE ExtendedDwellCheck(browsed, now)
           written == Snapshots(i, s, zoned) \cup Snapshots(i, zoned, browsed)
                        \cup Snapshots(i, browsed, final)
<1>1. /\ x \in frame.crossings
      /\ frame' = [frame EXCEPT !.crossings = @ \ {x}]
      /\ session' = [session EXCEPT ![i] = final]
      /\ UNCHANGED <<now, phase, live, used, _last_db_flush, rows>>
  BY DEF HandleZoneCrossing
<1>2. PICK lost \in SUBSET (final.signals \ s.signals), kept \in SUBSET Storable(written) :
        /\ Faults(Cardinality(lost) + Cardinality(Storable(written) \ kept))
        /\ signalRows' = [signalRows EXCEPT ![i] = @ \cup ((final.signals \ s.signals) \ lost)]
        /\ predictions' = predictions \cup kept
        /\ syncQueue' = syncQueue \cup CloudCopies(kept)
  BY DEF HandleZoneCrossing
<1>3. k \in Keys /\ z \in Zones
  BY DEF IInv, TypeOK, Frame, Keys
<1>4. i \in SessionIds /\ i \in used
  BY <1>1, <1>3 DEF IInv, TypeOK, SessionsOwned
<1>5. s \in TransactionSessionState
  BY <1>4 DEF IInv, TypeOK
<1>6. now \in Times
  BY DEF IInv, TypeOK
<1>7. zoned = EnterZone(s, z, now) \/ zoned = ExitZone(s, z, now)
  OBVIOUS
<1> HIDE DEF i, s, z, k, zoned
<1>8. /\ zoned \in TransactionSessionState
      /\ browsed \in TransactionSessionState
      /\ final \in TransactionSessionState
  BY <1>3, <1>5, <1>6, <1>7, CrossingType
<1> HIDE DEF browsed, final
<1>9. written \subseteq Prediction /\ IsFiniteSet(written)
  BY <1>4, <1>8, SnapshotsType, FS_Union
<1>15. Storable(written) \subseteq written
  BY DEF Storable
<1>10. final.signals \subseteq Signals
  BY <1>8 DEF TransactionSessionState
<1> HIDE DEF written
<1>11. faults' \in 0..MaxFaults
  <2>1. IsFiniteSet(lost) /\ IsFiniteSet(Storable(written) \ kept)
    BY <1>2, <1>9, <1>15, <1>10, SignalsFinite, FS_Subset
  <2>2. Cardinality(lost) + Cardinality(Storable(written) \ kept) \in Nat
    BY <2>1, FS_CardinalityType
  <2>3. QED
    BY <1>2, <2>2, FaultsType DEF IInv, TypeOK
<1>12. TypeOK'
  <2>1. session' \in [SessionIds -> TransactionSessionState]
    BY <1>1, <1>4, <1>8 DEF IInv, TypeOK
  <2>2. signalRows' \in [SessionIds -> SUBSET Signals]
    BY <1>2, <1>4, <1>10 DEF IInv, TypeOK
  <2>3. predictions' \subseteq Prediction /\ syncQueue' \subseteq SyncEntry
    BY <1>2, <1>9, <1>15, CloudCopiesType DEF IInv, TypeOK
  <2>4. frame' \in Frame
    BY <1>1 DEF IInv, TypeOK, Frame
  <2>5. QED
    BY <1>1, <1>11, <2>1, <2>2, <2>3, <2>4 DEF IInv, TypeOK
<1>13. SessionsOwned'
  <2>1. \A p \in kept : p.session = i
    <3>1. \A p \in written : p.session = i
      BY SnapshotsOwn DEF written
    <3>2. QED
      BY <1>2, <1>15, <3>1
  <2>2. \A y \in frame'.crossings : live'[<<frame'.camera, y[1]>>] # NoSession
    BY <1>1 DEF IInv, TypeOK, Frame, SessionsOwned
  <2>3. \A j \in SessionIds \ used' :
           /\ rows'[j] = AbsentRow
           /\ signalRows'[j] = {}
           /\ \A p \in predictions' : p.session # j
    BY <1>1, <1>2, <1>4, <2>1 DEF IInv, TypeOK, SessionsOwned
  <2>4. QED
    BY <1>1, <2>2, <2>3 DEF IInv, SessionsOwned
<1>14. QED
  BY <1>12, <1>13 DEF IInv

LEMMA CompleteLostSessionIInv ==
    ASSUME IInv, NEW k \in Keys, CompleteLostSession(k)
    PROVE  IInv'
<1> DEFINE i == live[k]
           exited == [session[i] EXCEPT !.state = "EXITED_STORE"]
           entry == [table |-> "transaction_sessions", session |-> i,
                     level |-> Level(exited.score)]
<1>1. /\ live[k] # NoSession
      /\ frame.crossings = {}
      /\ live' = [live EXCEPT ![k] = NoSession]
      /\ session' = [session EXCEPT ![i] = NewSession(0)]
      /\ \/ /\ rows' = [rows EXCEPT ![i] = RowOf("complete", exited)]
            /\ syncQueue' = syncQueue \cup {entry}
            /\ Faults(0)
         \/ Faults(1) /\ UNCHANGED <<rows, syncQueue>>
         \/ UNCHANGED <<rows, syncQueue, faults>>
      /\ UNCHANGED <<now, phase, frame, used, _last_db_flush, signalRows, predictions>>
  BY DEF CompleteLostSession, LostKeys
<1>2. i \in SessionIds /\ i \in used
  BY <1>1 DEF IInv, TypeOK, SessionsOwned
<1>3. exited \in TransactionSessionState
  <2>1. session[i] \in TransactionSessionState
    BY <1>2 DEF IInv, TypeOK
  <2>2. QED
    BY <2>1, StateType, Names
<1>4. entry \in SyncEntry
  BY <1>2, LevelType DEF SyncEntry
<1>5. RowOf("complete", exited) \in Row
  <2> HIDE DEF exited
  <2>1. QED
    BY <1>3 DEF RowOf, Row, TransactionSessionState
<1>6. NewSession(0) \in TransactionSessionState
  BY NewSessionType DEF Times
<1>7. faults' \in 0..MaxFaults
  BY <1>1, FaultsType DEF IInv, TypeOK
<1> HIDE DEF i, exited, entry
<1>8. TypeOK'
  <2>1. rows' \in [SessionIds -> Row] /\ syncQueue' \subseteq SyncEntry
    BY <1>1, <1>2, <1>4, <1>5 DEF IInv, TypeOK
  <2>2. live' \in [Keys -> SessionIds \cup {NoSession}]
    BY <1>1 DEF IInv, TypeOK
  <2>3. session' \in [SessionIds -> TransactionSessionState]
    BY <1>1, <1>2, <1>6 DEF IInv, TypeOK
  <2>4. QED
    BY <1>1, <1>7, <2>1, <2>2, <2>3 DEF IInv, TypeOK
<1>9. SessionsOwned'
  <2>1. ASSUME NEW j \in Keys, live'[j] # NoSession
        PROVE  /\ live'[j] \in used'
               /\ rows'[live'[j]].status # "complete"
               /\ \A l \in Keys : live'[l] = live'[j] => l = j
    <3>1. j # k /\ live'[j] = live[j]
      BY <1>1, <2>1 DEF IInv, TypeOK
    <3>2. live[j] # i
      BY <1>1, <2>1, <3>1 DEF IInv, SessionsOwned, i
    <3>3. rows'[live'[j]] = rows[live[j]]
      <4>1. live[j] \in SessionIds
        BY <2>1, <3>1 DEF IInv, TypeOK
      <4>2. rows \in [SessionIds -> Row]
        BY DEF IInv, TypeOK
      <4>3. QED
        BY <1>1, <3>1, <3>2, <4>1, <4>2
    <3>4. \A l \in Keys : live'[l] = live'[j] => live[l] = live[j]
      BY <1>1, <2>1, <3>1 DEF IInv, TypeOK
    <3>5. QED
      BY <1>1, <2>1, <3>1, <3>3, <3>4 DEF IInv, SessionsOwned
  <2>2. \A y \in frame'.crossings : live'[<<frame'.camera, y[1]>>] # NoSession
    BY <1>1
  <2>3. \A j \in SessionIds \ used' :
           /\ rows'[j] = AbsentRow
           /\ signalRows'[j] = {}
           /\ \A p \in predictions' : p.session # j
    BY <1>1, <1>2 DEF IInv, TypeOK, SessionsOwned
  <2>4. QED
    BY <2>1, <2>2, <2>3 DEF SessionsOwned
<1>10. QED
  BY <1>8, <1>9 DEF IInv

\* An upsert keeps the type of a row, never completes one and leaves the rows
\* of ids that were not handed out alone.
LEMMA UpsertedRows ==
    ASSUME IInv
    PROVE  /\ Upserted \in [SessionIds -> Row]
           /\ \A i \in SessionIds :
                 Upserted[i].status = "complete" <=> rows[i].status = "complete"
           /\ \A i \in SessionIds \ used : Upserted[i] = rows[i]
<1>1. \A i \in SessionIds : rows[i] \in Row /\ session[i] \in TransactionSessionState
  BY DEF IInv, TypeOK
<1>2. \A i \in SessionIds, status \in {"absent", "open", "complete"} :
        RowOf(status, session[i]) \in Row /\ RowOf(status, session[i]).status = status
  BY <1>1 DEF RowOf, Row, TransactionSessionState
<1>3. \A i \in SessionIds : Upserted[i] =
        IF i \notin LiveIds THEN rows[i]
        ELSE RowOf(IF rows[i].status = "absent" THEN "open" ELSE rows[i].status, session[i])
  BY DEF Upserted
<1>4. \A i \in SessionIds : rows[i].status \in {"absent", "open", "complete"}
  BY <1>1 DEF Row
<1>5. \A i \in SessionIds : Upserted[i] \in Row
  BY <1>1, <1>2, <1>3, <1>4
<1>6. Upserted \in [SessionIds -> Row]
  BY <1>5 DEF Upserted
<1>7. \A i \in SessionIds :
        Upserted[i].status = "complete" <=> rows[i].status = "complete"
  BY <1>2, <1>3, <1>4
<1>8. \A i \in LiveIds : i \in used
  BY DEF IInv, SessionsOwned, LiveIds
<1>9. QED
  BY <1>3, <1>6, <1>7, <1>8

LEMMA EndFrameIInv ==
    ASSUME IInv, EndFrame
    PROVE  IInv'
<1>1. /\ phase' = "idle"
      /\ frame' = IdleFrame
      /\ rows' \in {rows, Upserted}
      /\ _last_db_flush' \in {_last_db_flush, now}
      /\ UNCHANGED <<now, live, session, used, signalRows, predictions, syncQueue>>
  BY DEF EndFrame
<1>2. faults' \in 0..MaxFaults
  BY FaultsType DEF EndFrame, IInv, TypeOK
<1>3. TypeOK'
  BY <1>1, <1>2, IdleFrameType, UpsertedRows DEF IInv, TypeOK
<1>4. frame'.crossings = {}
  BY <1>1 DEF IdleFrame
<1>5. \A i \in SessionIds :
        /\ rows'[i].status = "complete" => rows[i].status = "complete"
        /\ i \notin used => rows'[i] = rows[i]
  BY <1>1, UpsertedRows
<1>6. SessionsOwned'
  BY <1>1, <1>4, <1>5 DEF IInv, TypeOK, SessionsOwned
<1>7. QED
  BY <1>3, <1>6 DEF IInv

LEMMA CrashIInv ==
    ASSUME IInv, Crash
    PROVE  IInv'
<1>1. NewSession(0) \in TransactionSessionState
  BY NewSessionType DEF Times
<1>2. faults' \in 0..MaxFaults
  BY FaultsType DEF Crash, IInv, TypeOK
<1>3. TypeOK'
  BY <1>1, <1>2, IdleFrameType DEF Crash, database, IInv, TypeOK
<1>4. SessionsOwned'
  BY DEF Crash, database, IInv, SessionsOwned, IdleFrame
<1>5. QED
  BY <1>3, <1>4 DEF IInv

LEMMA StepIInv == IInv /\ [Next]_vars => IInv'
<1> SUFFICES ASSUME IInv, [Next]_vars PROVE IInv'
  OBVIOUS
<1>1. ASSUME NEW c \in Cameras, NEW t \in Instants, NEW ids \in SUBSET TrackIds,
             NEW crossings \in SUBSET (ids \X Zones), BeginFrame(c, t, ids, crossings)
      PROVE  IInv'
  BY <1>1, BeginFrameIInv
<1>2. ASSUME NEW x \in TrackIds \X Zones, HandleZoneCrossing(x) PROVE IInv'
  BY <1>2, HandleZoneCrossingIInv
<1>3. ASSUME NEW k \in Keys, CompleteLostSession(k) PROVE IInv'
  BY <1>3, CompleteLostSessionIInv
<1>4. CASE EndFrame
  BY <1>4, EndFrameIInv
<1>5. CASE Crash
  BY <1>5, CrashIInv
<1>6. CASE UNCHANGED vars
  BY <1>6 DEF vars, memory, database, IInv, TypeOK, SessionsOwned
<1>7. QED
  BY <1>1, <1>2, <1>3, <1>4, <1>5, <1>6 DEF Next

\* Every variable keeps its type, however frames, failures and crashes fall.
THEOREM TypeCorrect == Spec => []TypeOK
<1>1. IInv => TypeOK
  BY DEF IInv
<1>2. QED
  BY InitIInv, StepIInv, <1>1, PTL DEF Spec

\* A session id has one owner, is dropped from memory before its row closes, and
\* nothing is stored under an id that was never handed out.
THEOREM Ownership == Spec => []SessionsOwned
<1>1. IInv => SessionsOwned
  BY DEF IInv
<1>2. QED
  BY InitIInv, StepIInv, <1>1, PTL DEF Spec

\* Every step leaves the records of the sessions that are out of memory alone.
LEMMA StepDeparted ==
    ASSUME IInv, [Next]_vars, NEW d \in Departed
    PROVE  /\ rows'[d] = rows[d]
           /\ signalRows'[d] = signalRows[d]
           /\ {p \in predictions' : p.session = d} = {p \in predictions : p.session = d}
<1>1. /\ d \in SessionIds /\ d \notin LiveIds
      /\ \A k \in Keys : live[k] # d
  BY DEF IInv, TypeOK, Departed, LiveIds
<1>2. CASE UNCHANGED database
  BY <1>2 DEF database
<1>3. ASSUME NEW x \in TrackIds \X Zones, HandleZoneCrossing(x)
      PROVE  /\ rows'[d] = rows[d]
             /\ signalRows'[d] = signalRows[d]
             /\ {p \in predictions' : p.session = d} = {p \in predictions : p.session = d}
  <2> DEFINE i == live[<<frame.camera, x[1]>>]
             s == session[i]
             z == x[2]
             zoned == IF s.zone_entry_times[z] = 0 THEN EnterZone(s, z, now)
                                                   ELSE ExitZone(s, z, now)
             signal_fired == zoned.signals # s.signals
             browsed == IF signal_fired THEN zoned ELSE BrowsingCheck(zoned, now)
             final == IF signal_fired THEN zoned ELSE ExtendedDwellCheck(browsed, now)
             written == Snapshots(i, s, zoned) \cup Snapshots(i, zoned, browsed)
                          \cup Snapshots(i, browsed, final)
  <2>1. UNCHANGED rows
    BY <1>3 DEF HandleZoneCrossing
  <2>2. PICK lost \in SUBSET (final.signals \ s.signals), kept \in SUBSET Storable(written) :
          /\ signalRows' = [signalRows EXCEPT ![i] = @ \cup ((final.signals \ s.signals) \ lost)]
          /\ predictions' = predictions \cup kept
    BY <1>3 DEF HandleZoneCrossing
  <2>3. <<frame.camera, x[1]>> \in Keys
    BY DEF IInv, TypeOK, Frame, Keys
  <2>4. i # d
    BY <1>1, <2>3
  <2> HIDE DEF i, s, z, zoned, browsed, final
  <2>5. \A p \in written : p.session = i
    BY SnapshotsOwn
  <2> HIDE DEF written
  <2>6. \A p \in kept : p.session # d
    BY <2>2, <2>4, <2>5 DEF Storable
  <2>7. {p \in predictions' : p.session = d} = {p \in predictions : p.session = d}
    BY <2>2, <2>6
  <2>8. signalRows'[d] = signalRows[d]
    BY <1>1, <2>2, <2>4 DEF IInv, TypeOK
  <2>9. QED
    BY <2>1, <2>7, <2>8
<1>4. ASSUME NEW k \in Keys, CompleteLostSession(k)
      PROVE  /\ rows'[d] = rows[d]
             /\ UNCHANGED <<signalRows, predictions>>
  <2>1. live[k] # d
    BY <1>1
  <2>2. UNCHANGED <<signalRows, predictions>>
    BY <1>4 DEF CompleteLostSession
  <2>3. PICK r : rows' = [rows EXCEPT ![live[k]] = r] \/ rows' = rows
    BY <1>4 DEF CompleteLostSession
  <2>4. QED
    BY <1>1, <2>1, <2>2, <2>3 DEF IInv, TypeOK
<1>5. CASE EndFrame
  <2>1. UNCHANGED <<signalRows, predictions>>
    BY <1>5 DEF EndFrame
  <2>2. rows' = Upserted \/ rows' = rows
    BY <1>5 DEF EndFrame
  <2>3. Upserted[d] = rows[d]
    BY <1>1 DEF Upserted
  <2>4. QED
    BY <2>1, <2>2, <2>3
<1>6. CASE \E c \in Cameras, t \in Instants, ids \in SUBSET TrackIds :
             \E crossings \in SUBSET (ids \X Zones) : BeginFrame(c, t, ids, crossings)
  BY <1>2, <1>6 DEF BeginFrame
<1>7. CASE Crash
  BY <1>2, <1>7 DEF Crash
<1>8. CASE UNCHANGED vars
  BY <1>2, <1>8 DEF vars
<1>9. QED
  BY <1>3, <1>4, <1>5, <1>6, <1>7, <1>8 DEF Next

\* Whatever frames, failed commits and crashes come, the records of a session
\* that left memory stay as they are: DepartedIsFinal for all constants.
THEOREM DepartedStay == Spec => DepartedIsFinal
<1>1. Init => IInv
  BY InitIInv
<1>2. IInv /\ [Next]_vars => IInv'
  BY StepIInv
<1>3. IInv /\ [Next]_vars
        => [\A i \in Departed :
              /\ rows'[i] = rows[i]
              /\ signalRows'[i] = signalRows[i]
              /\ {p \in predictions' : p.session = i} = {p \in predictions : p.session = i}]_vars
  BY StepDeparted
<1>4. QED
  BY <1>1, <1>2, <1>3, PTL DEF Spec, DepartedIsFinal

-----------------------------------------------------------------------------
(* Evidence.  Every handler takes a session to one with no less of it.     *)

\* What a state of a visit says of the signals of its session.
Evidenced(s) ==
    /\ s.state \in {"PAYMENT_INTERACTION", "PURCHASE_COMPLETED"} => s.signals \cap PaymentSignals # {}
    /\ s.state \in {"AT_CHECKOUT", "PAYMENT_INTERACTION", "PURCHASE_COMPLETED"}
         => "checkout_zone_entered" \in s.signals
    /\ s.state \notin {"ENTERED_STORE", "SHOPPING"} => "extended_dwell_detected" \in s.signals

\* The dwell signals of a session are earned at the time t, on a host whose
\* local time is not ahead of UTC.
Earned(s, t) ==
    UtcOffset <= 0 =>
        /\ "browsing_detected" \in s.signals => t - s.entered_at > 180
        /\ "extended_dwell_detected" \in s.signals => t - s.entered_at > 480

Sound(s, t) == Evidenced(s) /\ Earned(s, t) /\ s.last_persisted_level = Level(s.score)

\* One value of a session is followed by another.
Rises(s, r) ==
    /\ s.signals \subseteq r.signals /\ r.entered_at = s.entered_at
    /\ Rank[s.last_persisted_level] <= Rank[r.last_persisted_level]
    /\ s.score <= r.score /\ Stage[s.state] <= Stage[r.state]

LEMMA Stages == \A state \in VisitorState : Stage[state] \in 0..7
BY Names DEF Stage

\* Every arrow of the table leads to a later stage.
LEMMA Onward ==
    ASSUME NEW state \in VisitorState, NEW target \in VisitorState
    PROVE  Stage[state] <= Stage[TransitionTo(state, target)]
BY Names DEF TransitionTo, TRANSITIONS, Stage

\* The arrows the handlers ask for.
LEMMA Arrows ==
    ASSUME NEW state \in VisitorState
    PROVE  /\ TransitionTo(state, "SHOPPING") = IF state = "ENTERED_STORE" THEN "SHOPPING" ELSE state
           /\ TransitionTo(state, "MOVING_TO_CHECKOUT")
                = IF state \in {"ENTERED_STORE", "SHOPPING"} THEN "MOVING_TO_CHECKOUT" ELSE state
           /\ TransitionTo(state, "WAITING_IN_QUEUE")
                = IF state = "MOVING_TO_CHECKOUT" THEN "WAITING_IN_QUEUE" ELSE state
           /\ TransitionTo(state, "AT_CHECKOUT")
                = IF state \in {"MOVING_TO_CHECKOUT", "WAITING_IN_QUEUE"} THEN "AT_CHECKOUT" ELSE state
           /\ TransitionTo(state, "PAYMENT_INTERACTION")
                = IF state = "AT_CHECKOUT" THEN "PAYMENT_INTERACTION" ELSE state
           /\ TransitionTo(state, "PURCHASE_COMPLETED")
                = IF state = "PAYMENT_INTERACTION" THEN "PURCHASE_COMPLETED" ELSE state
BY Names DEF TransitionTo, TRANSITIONS

LEMMA LevelRises ==
    ASSUME NEW a \in Nat, NEW b \in Nat, a <= b
    PROVE  Rank[Level(a)] <= Rank[Level(b)]
BY DEF Level, Rank, MAX_SCORE

LEMMA FireRises ==
    ASSUME NEW s \in TransactionSessionState, NEW S \in SUBSET Signals, s.last_persisted_level = Level(s.score)
    PROVE  /\ Rises(s, Fire(s, S))
           /\ Fire(s, S).signals = s.signals \cup S /\ Fire(s, S).state = s.state
           /\ Fire(s, S).last_persisted_level = Level(Fire(s, S).score)
<1>1. s.score \in Nat /\ s.score <= MAX_SCORE
  BY DEF TransactionSessionState, MAX_SCORE
<1> DEFINE score == Cap(s.score + TotalPoints(S \ s.signals))
<1>2. score \in Nat /\ s.score <= score
  BY <1>1, TotalPointsNat DEF Cap, MAX_SCORE
<1>3. Rank[s.last_persisted_level] <= Rank[Level(score)]
  BY <1>1, <1>2, LevelRises
<1>4. /\ s.last_persisted_level \in Levels /\ Rank[s.last_persisted_level] <= Rank[s.last_persisted_level]
      /\ Stage[s.state] <= Stage[s.state]
  BY Stages DEF TransactionSessionState, Levels, Rank
<1>5. CASE S \subseteq s.signals
  <2>1. Fire(s, S) = s
    BY <1>5 DEF Fire
  <2> QED BY <1>1, <1>4, <1>5, <2>1 DEF Rises
<1>6. CASE ~(S \subseteq s.signals)
  <2>1. /\ Fire(s, S).signals = s.signals \cup S /\ Fire(s, S).state = s.state
        /\ Fire(s, S).last_persisted_level = Level(score) /\ Fire(s, S).score = score
        /\ Fire(s, S).entered_at = s.entered_at
    BY <1>6 DEF Fire, AddSignals, TransactionSessionState
  <2> QED BY <1>2, <1>3, <1>4, <2>1 DEF Rises
<1> QED BY <1>5, <1>6

LEMMA RisesAgain ==
    ASSUME NEW a \in TransactionSessionState, NEW b \in TransactionSessionState, NEW c \in TransactionSessionState,
           Rises(a, b), Rises(b, c)
    PROVE  Rises(a, c)
<1>1. \A s \in {a, b, c} : Rank[s.last_persisted_level] \in Nat /\ s.score \in Nat /\ Stage[s.state] \in Nat
  BY Stages DEF TransactionSessionState, Levels, Rank, MAX_SCORE
<1> QED BY <1>1 DEF Rises

LEMMA RisesItself ==
    ASSUME NEW s \in TransactionSessionState
    PROVE  Rises(s, s)
BY Stages DEF Rises, TransactionSessionState, Levels, Rank, MAX_SCORE

\* A crossing into a zone: a state is reached together with its signal.
LEMMA EnterZoneSound ==
    ASSUME NEW s \in TransactionSessionState, NEW z \in Zones, NEW t \in Times, Sound(s, t)
    PROVE  Sound(EnterZone(s, z, t), t) /\ Rises(s, EnterZone(s, z, t))
<1> DEFINE kinds == ZoneKinds[z]
           fired == {sig \in Signals :
                    \/ sig = "checkout_zone_entered" /\ "checkout" \in kinds
                    \/ sig = "card_machine_interaction" /\ "payment" \in kinds
                    \/ sig = "upi_payment_interaction" /\ "upi" \in kinds
                    \/ sig = "cash_exchange_detected" /\ "cash" \in kinds}
           paying == {"payment", "upi", "cash"} \cap kinds # {}
           atTill == IF "checkout" \in kinds THEN TransitionTo(s.state, "AT_CHECKOUT") ELSE s.state
           atPayment == IF paying THEN TransitionTo(atTill, "PAYMENT_INTERACTION") ELSE atTill
           inQueue == IF "queue" \in kinds THEN TransitionTo(atPayment, "WAITING_IN_QUEUE") ELSE atPayment
           r == EnterZone(s, z, t)
<1>1. s.state \in VisitorState
  BY DEF TransactionSessionState
<1>2. /\ atTill = IF "checkout" \in kinds /\ s.state \in {"MOVING_TO_CHECKOUT", "WAITING_IN_QUEUE"}
                 THEN "AT_CHECKOUT" ELSE s.state
      /\ atTill \in VisitorState
  BY <1>1, Arrows, Names
<1> HIDE DEF atTill
<1>3. /\ atPayment = IF paying /\ atTill = "AT_CHECKOUT" THEN "PAYMENT_INTERACTION" ELSE atTill
      /\ atPayment \in VisitorState
  BY <1>2, Arrows, Names
<1> HIDE DEF atPayment
<1>4. inQueue = IF "queue" \in kinds /\ atPayment = "MOVING_TO_CHECKOUT" THEN "WAITING_IN_QUEUE" ELSE atPayment
  BY <1>3, Arrows
<1>5. /\ fired \in SUBSET Signals
      /\ "checkout" \in kinds => "checkout_zone_entered" \in fired
      /\ paying => fired \cap PaymentSignals # {}
      /\ "browsing_detected" \notin fired /\ "extended_dwell_detected" \notin fired
  BY Names DEF PaymentSignals
<1>6. Fire(s, fired) \in TransactionSessionState
  BY <1>5, FireType
<1>7. r = [Fire(s, fired) EXCEPT !.state = inQueue, !.zone_entry_times[z] = t]
  BY DEF EnterZone, atTill, atPayment
<1> HIDE DEF inQueue, fired, r
<1>8. /\ r.state = inQueue /\ r.signals = Fire(s, fired).signals /\ r.entered_at = Fire(s, fired).entered_at
      /\ r.last_persisted_level = Fire(s, fired).last_persisted_level /\ r.score = Fire(s, fired).score
  BY <1>6, <1>7 DEF TransactionSessionState
<1>9. /\ Rises(s, Fire(s, fired)) /\ Fire(s, fired).signals = s.signals \cup fired
      /\ Fire(s, fired).last_persisted_level = Level(Fire(s, fired).score)
  BY <1>5, FireRises DEF Sound
<1>10. Rises(s, r) /\ r.last_persisted_level = Level(r.score)
  <2>1. Stage[s.state] <= Stage[inQueue]
    BY <1>1, <1>2, <1>3, <1>4, Names DEF Stage, inQueue
  <2> QED BY <1>8, <1>9, <2>1 DEF Rises
<1>11. r.signals = s.signals \cup fired
  BY <1>8, <1>9
<1> HIDE DEF paying, kinds
<1>12. Evidenced(r)
  <2>1. Evidenced(s)
    BY DEF Sound
  <2>2. r.state \in {"PAYMENT_INTERACTION", "PURCHASE_COMPLETED"} => r.signals \cap PaymentSignals # {}
    BY <2>1, <1>2, <1>3, <1>4, <1>5, <1>8, <1>11 DEF Evidenced
  <2>3. r.state \in {"AT_CHECKOUT", "PAYMENT_INTERACTION", "PURCHASE_COMPLETED"} => "checkout_zone_entered" \in r.signals
    BY <2>1, <1>2, <1>3, <1>4, <1>5, <1>8, <1>11 DEF Evidenced
  <2>4. r.state \notin {"ENTERED_STORE", "SHOPPING"} => "extended_dwell_detected" \in r.signals
    BY <2>1, <1>2, <1>3, <1>4, <1>8, <1>11 DEF Evidenced
  <2> QED BY <2>2, <2>3, <2>4 DEF Evidenced
<1>13. Earned(r, t)
  BY <1>5, <1>10, <1>11 DEF Earned, Sound, Rises
<1> QED BY <1>10, <1>12, <1>13 DEF Sound, r

\* A crossing out of a zone: the way to a purchase is from the payment stage.
LEMMA ExitZoneSound ==
    ASSUME NEW s \in TransactionSessionState, NEW z \in Zones, NEW t \in Times, Sound(s, t)
    PROVE  Sound(ExitZone(s, z, t), t) /\ Rises(s, ExitZone(s, z, t))
<1> DEFINE r == ExitZone(s, z, t)
<1>1. PICK fired \in SUBSET (Signals \ {"browsing_detected", "extended_dwell_detected"}), bought \in BOOLEAN :
        r = [Fire(s, fired) EXCEPT
                !.state = IF bought THEN TransitionTo(@, "PURCHASE_COMPLETED") ELSE @, !.zone_entry_times[z] = 0]
  <2> DEFINE kinds == ZoneKinds[z]
             entry_time == s.zone_entry_times[z]
             dwell == IF entry_time # 0 THEN t - entry_time ELSE 0
             till == "checkout" \in kinds
             card == "payment" \in kinds /\ dwell > 10
             upi == "upi" \in kinds /\ dwell > 5
             fired == {sig \in Signals :
                    \/ sig = "queue_completed" /\ "queue" \in kinds /\ dwell > 20
                    \/ sig = "cash_exchange_detected" /\ till /\ dwell > 90
                    \/ sig = "card_machine_interaction" /\ (card \/ (till /\ dwell \in 30..90))
                    \/ sig = "upi_payment_interaction" /\ (upi \/ (till /\ dwell \in 10..29))}
             bought == card \/ upi \/ (till /\ dwell >= 10)
  <2>1. fired \in SUBSET (Signals \ {"browsing_detected", "extended_dwell_detected"}) /\ bought \in BOOLEAN
    OBVIOUS
  <2>2. r = [Fire(s, fired) EXCEPT
                !.state = IF bought THEN TransitionTo(@, "PURCHASE_COMPLETED") ELSE @, !.zone_entry_times[z] = 0]
    BY DEF ExitZone
  <2> HIDE DEF fired, bought, r
  <2> QED BY <2>1, <2>2
<1> HIDE DEF r
<1>2. Fire(s, fired) \in TransactionSessionState
  BY FireType
<1>3. /\ Rises(s, Fire(s, fired)) /\ Fire(s, fired).signals = s.signals \cup fired /\ Fire(s, fired).state = s.state
      /\ Fire(s, fired).last_persisted_level = Level(Fire(s, fired).score)
  BY FireRises DEF Sound
<1>4. /\ r.state = IF bought THEN TransitionTo(s.state, "PURCHASE_COMPLETED") ELSE s.state
      /\ r.signals = s.signals \cup fired
      /\ r.entered_at = Fire(s, fired).entered_at
      /\ r.last_persisted_level = Fire(s, fired).last_persisted_level /\ r.score = Fire(s, fired).score
  BY <1>1, <1>2, <1>3 DEF TransactionSessionState
<1>6. s.state \in VisitorState
  BY DEF TransactionSessionState
<1>5. Rises(s, r) /\ r.last_persisted_level = Level(r.score)
  <2>1. Stage[s.state] <= Stage[r.state]
    BY <1>4, <1>6, Onward, Stages, Names
  <2> QED BY <1>3, <1>4, <2>1 DEF Rises
<1>7. r.state = s.state \/ (r.state = "PURCHASE_COMPLETED" /\ s.state = "PAYMENT_INTERACTION")
  BY <1>4, <1>6, Arrows
<1>8. Evidenced(r)
  BY <1>4, <1>7 DEF Sound, Evidenced
<1>9. Earned(r, t)
  BY <1>4, <1>5 DEF Sound, Earned, Rises
<1> QED BY <1>5, <1>8, <1>9 DEF Sound, r

LEMMA SessionFields ==
    ASSUME NEW s \in TransactionSessionState, NEW t \in Times
    PROVE  s.state \in VisitorState /\ s.entered_at \in Int /\ t \in Int
<1>1. \A u \in Times : u \in Int
  BY TimeAssumption DEF Times
<1>2. s.state \in VisitorState /\ s.entered_at \in Times
  BY DEF TransactionSessionState
<1> QED BY <1>1, <1>2

\* The dwell tests: who walks on was in the store that long.
LEMMA BrowsingCheckSound ==
    ASSUME NEW s \in TransactionSessionState, NEW t \in Times, Sound(s, t)
    PROVE  Sound(BrowsingCheck(s, t), t) /\ Rises(s, BrowsingCheck(s, t))
<1> DEFINE dwell == StoreDwell(s, t)
           walking == IF s.state = "ENTERED_STORE" /\ dwell > 10
                      THEN [s EXCEPT !.state = TransitionTo(@, "SHOPPING")] ELSE s
<1>1. s.state \in VisitorState /\ s.entered_at \in Int /\ t \in Int
  BY SessionFields
<1>2. TransitionTo(s.state, "SHOPPING") \in VisitorState
  BY <1>1, TransitionType, Names
<1>3. walking \in TransactionSessionState
  BY <1>2, StateType
<1>4. /\ walking.signals = s.signals /\ walking.entered_at = s.entered_at /\ walking.score = s.score
      /\ walking.last_persisted_level = s.last_persisted_level
      /\ walking.state = s.state \/ walking.state = "SHOPPING"
      /\ Stage[s.state] <= Stage[walking.state]
  BY <1>1, Arrows, Onward, Stages, Names DEF TransactionSessionState
<1>5. BrowsingCheck(s, t) = IF dwell > 180 THEN Fire(walking, {"browsing_detected"}) ELSE walking
  BY DEF BrowsingCheck
<1>6. UtcOffset <= 0 => dwell <= t - s.entered_at
  BY <1>1, TimeAssumption DEF StoreDwell
<1>7. dwell \in Int /\ {"browsing_detected"} \in SUBSET Signals
  BY <1>1, TimeAssumption, Names DEF StoreDwell
<1> HIDE DEF walking, dwell
<1>8. Rises(s, walking) /\ Evidenced(walking) /\ walking.last_persisted_level = Level(walking.score)
  BY <1>4, RisesItself DEF Rises, Sound, Evidenced
<1>9. CASE dwell > 180
  <2> DEFINE r == Fire(walking, {"browsing_detected"})
  <2>1. /\ Rises(walking, r) /\ r.signals = walking.signals \cup {"browsing_detected"} /\ r.state = walking.state
        /\ r.last_persisted_level = Level(r.score)
    BY <1>3, <1>7, <1>8, FireRises
  <2>2. r \in TransactionSessionState
    BY <1>3, <1>7, FireType
  <2> HIDE DEF r
  <2>3. Rises(s, r)
    BY <1>3, <1>8, <2>1, <2>2, RisesAgain
  <2>4. Evidenced(r)
    BY <1>8, <2>1 DEF Evidenced
  <2>5. Earned(r, t)
    BY <1>1, <1>4, <1>6, <1>7, <1>9, <2>1, <2>3, TimeAssumption DEF Earned, Sound, Rises
  <2> QED BY <1>5, <1>9, <2>1, <2>3, <2>4, <2>5 DEF Sound, r
<1>10. CASE ~(dwell > 180)
  <2>1. Earned(walking, t)
    BY <1>4 DEF Earned, Sound
  <2> QED BY <1>5, <1>8, <1>10, <2>1 DEF Sound
<1> QED BY <1>9, <1>10

LEMMA ExtendedDwellCheckSound ==
    ASSUME NEW s \in TransactionSessionState, NEW t \in Times, Sound(s, t)
    PROVE  Sound(ExtendedDwellCheck(s, t), t) /\ Rises(s, ExtendedDwellCheck(s, t))
<1> DEFINE fired == Fire(s, {"extended_dwell_detected"})
           state == IF fired.state = "SHOPPING" THEN TransitionTo(fired.state, "MOVING_TO_CHECKOUT") ELSE fired.state
           r == [fired EXCEPT !.state = state]
<1>1. s.state \in VisitorState /\ s.entered_at \in Int /\ t \in Int /\ {"extended_dwell_detected"} \in SUBSET Signals
  BY SessionFields, Names
<1>2. fired \in TransactionSessionState
  BY <1>1, FireType
<1>3. /\ Rises(s, fired) /\ fired.signals = s.signals \cup {"extended_dwell_detected"} /\ fired.state = s.state
      /\ fired.last_persisted_level = Level(fired.score)
  BY <1>1, FireRises DEF Sound
<1> HIDE DEF fired
<1>4. ExtendedDwellCheck(s, t) =
        IF StoreDwell(s, t) > 480 /\ "extended_dwell_detected" \notin s.signals THEN r ELSE s
  BY DEF ExtendedDwellCheck, fired
<1>5. state = s.state \/ (s.state = "SHOPPING" /\ state = "MOVING_TO_CHECKOUT")
  BY <1>1, <1>3, Arrows
<1> HIDE DEF state
<1>6. /\ r.signals = fired.signals /\ r.entered_at = fired.entered_at /\ r.score = fired.score /\ r.state = state
      /\ r.last_persisted_level = fired.last_persisted_level
  BY <1>2 DEF TransactionSessionState
<1> HIDE DEF r
<1>7. CASE StoreDwell(s, t) > 480 /\ "extended_dwell_detected" \notin s.signals
  <2>1. Rises(s, r) /\ r.last_persisted_level = Level(r.score)
    <3>1. Stage[s.state] <= Stage[state]
      BY <1>1, <1>5, Stages DEF Stage
    <3> QED BY <1>3, <1>6, <3>1 DEF Rises
  <2>2. Evidenced(r)
    BY <1>3, <1>5, <1>6 DEF Evidenced, Sound
  <2>3. UtcOffset <= 0 => t - s.entered_at > 480
    BY <1>1, <1>7, TimeAssumption DEF StoreDwell
  <2>4. Earned(r, t)
    BY <1>3, <1>6, <2>1, <2>3 DEF Earned, Sound, Rises
  <2> QED BY <1>4, <1>7, <2>1, <2>2, <2>4 DEF Sound
<1>8. CASE ~(StoreDwell(s, t) > 480 /\ "extended_dwell_detected" \notin s.signals)
  BY <1>4, <1>8, RisesItself
<1> QED BY <1>7, <1>8

\* The predictions written along three steps rise above the first value and up
\* to the last.
Above(p, s) == s.signals \subseteq p.signals /\ Rank[s.last_persisted_level] < Rank[p.level]
Below(p, s) == p.signals \subseteq s.signals /\ Rank[p.level] <= Rank[s.last_persisted_level]
Ordered(p, q) ==
    \/ p.signals \subseteq q.signals /\ Rank[p.level] < Rank[q.level]
    \/ q.signals \subseteq p.signals /\ Rank[q.level] < Rank[p.level]

LEMMA SnapshotBetween ==
    ASSUME NEW i, NEW a \in TransactionSessionState, NEW b \in TransactionSessionState, Rises(a, b),
           NEW p \in Snapshots(i, a, b)
    PROVE  Above(p, a) /\ Below(p, b)
           /\ p = [session |-> i, level |-> b.last_persisted_level, signals |-> b.signals]
BY DEF Snapshots, Rises, Above, Below, TransactionSessionState, Levels, Rank

LEMMA ChainRises ==
    ASSUME NEW i, NEW a \in TransactionSessionState, NEW b \in TransactionSessionState,
           NEW c \in TransactionSessionState, NEW d \in TransactionSessionState,
           Rises(a, b), Rises(b, c), Rises(c, d),
           NEW W, W = Snapshots(i, a, b) \cup Snapshots(i, b, c) \cup Snapshots(i, c, d)
    PROVE  /\ \A p \in W : p.session = i /\ Above(p, a) /\ Below(p, d)
           /\ \A p, q \in W : p # q => Ordered(p, q)
           /\ Rises(a, d)
<1>1. \A s \in {a, b, c, d} : s.last_persisted_level \in Levels /\ Rank[s.last_persisted_level] \in Nat
  BY DEF TransactionSessionState, Levels, Rank
<1>2. Rises(a, c) /\ Rises(b, d) /\ Rises(a, d)
  BY RisesAgain
<1>3. /\ \A p \in Snapshots(i, a, b) : Above(p, a) /\ Below(p, b)
              /\ p = [session |-> i, level |-> b.last_persisted_level, signals |-> b.signals]
      /\ \A p \in Snapshots(i, b, c) : Above(p, b) /\ Below(p, c)
              /\ p = [session |-> i, level |-> c.last_persisted_level, signals |-> c.signals]
      /\ \A p \in Snapshots(i, c, d) : Above(p, c) /\ Below(p, d)
              /\ p = [session |-> i, level |-> d.last_persisted_level, signals |-> d.signals]
  BY SnapshotBetween
<1>4. ASSUME NEW p \in W PROVE p.session = i /\ Above(p, a) /\ Below(p, d)
  BY <1>1, <1>2, <1>3 DEF Above, Below, Rises
<1>5. ASSUME NEW p \in W, NEW q \in W, p # q PROVE Ordered(p, q)
  BY <1>1, <1>2, <1>3, <1>5 DEF Above, Below, Rises, Ordered
<1> QED BY <1>2, <1>4, <1>5

\* What the tables R, G and P hold of session i does not exceed s.
Covers(s, i, R, G, P) ==
    /\ R[i].signals \subseteq s.signals /\ G[i] \subseteq s.signals
    /\ R[i].score <= s.score /\ Stage[R[i].state] <= Stage[s.state]
    /\ \A p \in P : p.session = i => Below(p, s)

Sounds == \A i \in SessionIds : Sound(session[i], now)
AllCovered(L, S, R, G, P) == \A k \in Keys : L[k] # NoSession => Covers(S[L[k]], L[k], R, G, P)
Covered == AllCovered(live, session, rows, signalRows, predictions)
EvidenceInv == IInv /\ Sounds /\ Covered /\ PredictionsRise

LEMMA NewSessionSound ==
    ASSUME NEW t, NEW u
    PROVE  /\ Sound(NewSession(t), u) /\ NewSession(t).signals = {}
           /\ NewSession(t).score = 0 /\ NewSession(t).state = "ENTERED_STORE"
BY DEF NewSession, Sound, Evidenced, Earned, Level, MAX_SCORE

\* Time passes, and last_seen with it.
LEMMA SoundLater ==
    ASSUME NEW s \in TransactionSessionState, NEW t \in Times, NEW u \in Times, t <= u, Sound(s, t), NEW seen
    PROVE  /\ Sound(s, u) /\ Sound([s EXCEPT !.last_seen = seen], u)
           /\ [s EXCEPT !.last_seen = seen].signals = s.signals
           /\ [s EXCEPT !.last_seen = seen].last_persisted_level = s.last_persisted_level
           /\ [s EXCEPT !.last_seen = seen].score = s.score
           /\ [s EXCEPT !.last_seen = seen].state = s.state
<1>1. s.entered_at \in Int /\ t \in Int /\ u \in Int
  BY SessionFields
<1> DEFINE r == [s EXCEPT !.last_seen = seen]
<1>2. /\ r.signals = s.signals /\ r.last_persisted_level = s.last_persisted_level /\ r.score = s.score
      /\ r.state = s.state /\ r.entered_at = s.entered_at
  BY DEF TransactionSessionState
<1> HIDE DEF r
<1>3. Earned(s, u)
  BY <1>1 DEF Sound, Earned
<1>4. Sound(s, u)
  BY <1>3 DEF Sound
<1>5. Sound(r, u)
  BY <1>2, <1>4 DEF Sound, Earned, Evidenced
<1> QED BY <1>2, <1>4, <1>5 DEF r

\* The values a crossing takes a session through.
LEMMA CrossingSound ==
    ASSUME NEW s \in TransactionSessionState, NEW z \in Zones, NEW t \in Times, Sound(s, t),
           NEW zoned, zoned = EnterZone(s, z, t) \/ zoned = ExitZone(s, z, t),
           NEW browsed, NEW final,
           \/ browsed = zoned /\ final = zoned
           \/ browsed = BrowsingCheck(zoned, t) /\ final = ExtendedDwellCheck(browsed, t)
    PROVE  /\ zoned \in TransactionSessionState /\ browsed \in TransactionSessionState
           /\ final \in TransactionSessionState
           /\ Rises(s, zoned) /\ Rises(zoned, browsed) /\ Rises(browsed, final) /\ Sound(final, t)
<1>1. zoned \in TransactionSessionState /\ Sound(zoned, t) /\ Rises(s, zoned)
  BY CrossingType, EnterZoneSound, ExitZoneSound
<1>2. CASE browsed = zoned /\ final = zoned
  BY <1>1, <1>2, RisesItself
<1>3. CASE browsed = BrowsingCheck(zoned, t) /\ final = ExtendedDwellCheck(browsed, t)
  <2>1. browsed \in TransactionSessionState /\ Sound(browsed, t) /\ Rises(zoned, browsed)
    BY <1>1, <1>3, BrowsingCheckType, BrowsingCheckSound
  <2>2. final \in TransactionSessionState /\ Sound(final, t) /\ Rises(browsed, final)
    BY <1>3, <2>1, ExtendedDwellCheckType, ExtendedDwellCheckSound
  <2> QED BY <1>1, <2>1, <2>2
<1> QED BY <1>2, <1>3

LEMMA InitEvidence == Init => EvidenceInv
<1> SUFFICES ASSUME Init PROVE EvidenceInv
  OBVIOUS
<1>1. Sounds
  BY NewSessionSound DEF Init, Sounds
<1>2. Covered /\ PredictionsRise
  BY DEF Init, Covered, AllCovered, PredictionsRise
<1> QED BY <1>1, <1>2, InitIInv DEF EvidenceInv

LEMMA BeginFrameEvidence ==
    ASSUME EvidenceInv, NEW c \in Cameras, NEW t \in Instants, NEW ids \in SUBSET TrackIds,
           NEW crossings \in SUBSET (ids \X Zones), BeginFrame(c, t, ids, crossings)
    PROVE  EvidenceInv'
<1> DEFINE newKeys == {k \in {c} \X ids : live[k] = NoSession}
           seen == {live[k] : k \in {c} \X ids} \ {NoSession}
<1>1. PICK fresh \in [newKeys -> SessionIds \ used] :
        /\ live' = [k \in Keys |-> IF k \in newKeys THEN fresh[k] ELSE live[k]]
        /\ session' = [i \in SessionIds |->
              IF i \in {fresh[k] : k \in newKeys} THEN NewSession(t)
              ELSE IF i \in seen THEN [session[i] EXCEPT !.last_seen = t]
              ELSE session[i]]
  BY DEF BeginFrame
<1>2. now' = t /\ t > now /\ UNCHANGED <<rows, signalRows, predictions>>
  BY DEF BeginFrame, database
<1>3. /\ IInv /\ newKeys \subseteq Keys /\ t \in Times /\ now \in Times /\ now <= t
      /\ \A i \in SessionIds : session[i] \in TransactionSessionState
  <2>1. now \in Int /\ t \in Int
    BY TimeAssumption DEF EvidenceInv, IInv, TypeOK, Times
  <2> QED BY <1>2, <2>1 DEF EvidenceInv, IInv, TypeOK, Keys, Times
<1> DEFINE handed == {fresh[k] : k \in newKeys}
<1> HIDE DEF newKeys, seen
<1>4. handed \subseteq SessionIds \ used
  BY <1>1
<1>5. \A k \in newKeys : live'[k] = fresh[k] /\ fresh[k] \in handed
  BY <1>1, <1>3
<1>6. \A k \in Keys \ newKeys : live'[k] = live[k]
  BY <1>1
<1> HIDE DEF handed
<1>7. /\ \A i \in handed : session'[i] = NewSession(t)
      /\ \A i \in SessionIds \ handed :
            session'[i] = [session[i] EXCEPT !.last_seen = t] \/ session'[i] = session[i]
  BY <1>1, <1>4 DEF handed
<1>8. Sounds'
  <2>1. ASSUME NEW i \in SessionIds PROVE Sound(session'[i], t)
    <3>1. session[i] \in TransactionSessionState /\ Sound(session[i], now)
      BY <1>3 DEF EvidenceInv, Sounds
    <3>2. Sound(session[i], t) /\ Sound([session[i] EXCEPT !.last_seen = t], t)
      BY <1>3, <3>1, SoundLater
    <3> QED BY <1>7, <3>2, NewSessionSound
  <2> QED BY <1>2, <2>1 DEF Sounds
<1>9. Covered'
  <2>0. SUFFICES \A k \in Keys : live'[k] # NoSession => Covers(session'[live'[k]], live'[k], rows, signalRows, predictions)
    <3>1. SUFFICES AllCovered(live', session', rows', signalRows', predictions')
      BY DEF Covered
    <3> QED BY <1>2 DEF AllCovered
  <2> TAKE k \in Keys
  <2> HAVE live'[k] # NoSession
  <2>1. CASE k \in newKeys
    <3>1. live'[k] \in SessionIds \ used /\ live'[k] \in handed
      BY <1>4, <1>5, <2>1
    <3>2. /\ rows[live'[k]] = AbsentRow /\ signalRows[live'[k]] = {}
          /\ \A p \in predictions : p.session # live'[k]
      BY <1>3, <3>1 DEF IInv, SessionsOwned
    <3> QED BY <1>7, <3>1, <3>2, NewSessionSound, Stages, Names DEF Covers, AbsentRow
  <2>2. CASE k \notin newKeys
    <3>1. live'[k] = live[k] /\ live[k] \in SessionIds /\ live[k] \in used
      BY <1>3, <1>6, <2>2 DEF IInv, TypeOK, SessionsOwned
    <3>2. live[k] \notin handed
      BY <1>4, <3>1
    <3>3. /\ session'[live[k]].signals = session[live[k]].signals
          /\ session'[live[k]].last_persisted_level = session[live[k]].last_persisted_level
          /\ session'[live[k]].score = session[live[k]].score
          /\ session'[live[k]].state = session[live[k]].state
      <4>1. CASE session'[live[k]] = session[live[k]]
        BY <4>1
      <4>2. CASE session'[live[k]] = [session[live[k]] EXCEPT !.last_seen = t]
        BY <1>3, <3>1, <4>2 DEF TransactionSessionState
      <4> QED BY <1>7, <3>1, <3>2, <4>1, <4>2
    <3>4. Covers(session[live[k]], live[k], rows, signalRows, predictions)
      BY <3>1 DEF EvidenceInv, Covered, AllCovered
    <3> QED BY <3>1, <3>3, <3>4 DEF Covers, Below
  <2> QED BY <2>1, <2>2
<1>10. PredictionsRise'
  BY <1>2 DEF EvidenceInv, PredictionsRise
<1> QED BY <1>3, <1>8, <1>9, <1>10, BeginFrameIInv DEF EvidenceInv

LEMMA HandleZoneCrossingEvidence ==
    ASSUME EvidenceInv, NEW x \in TrackIds \X Zones, HandleZoneCrossing(x)
    PROVE  EvidenceInv'
<1> DEFINE i == live[<<frame.camera, x[1]>>]
           s == session[i]
           z == x[2]
           zoned == IF s.zone_entry_times[z] = 0 THEN EnterZone(s, z, now) ELSE ExitZone(s, z, now)
           signal_fired == zoned.signals # s.signals
           browsed == IF signal_fired THEN zoned ELSE BrowsingCheck(zoned, now)
           final == IF signal_fired THEN zoned ELSE ExtendedDwellCheck(browsed, now)
           written == Snapshots(i, s, zoned) \cup Snapshots(i, zoned, browsed) \cup Snapshots(i, browsed, final)
<1>1. /\ x \in frame.crossings /\ session' = [session EXCEPT ![i] = final]
      /\ UNCHANGED <<now, live, rows>>
  BY DEF HandleZoneCrossing
<1>2. PICK lost \in SUBSET (final.signals \ s.signals), kept \in SUBSET Storable(written) :
        /\ predictions' = predictions \cup kept
        /\ signalRows' = [signalRows EXCEPT ![i] = @ \cup ((final.signals \ s.signals) \ lost)]
  BY DEF HandleZoneCrossing
<1>3. /\ IInv /\ <<frame.camera, x[1]>> \in Keys /\ z \in Zones /\ now \in Times
      /\ i \in SessionIds /\ i # NoSession
  BY <1>1 DEF EvidenceInv, IInv, TypeOK, SessionsOwned, Frame, Keys
<1>4. s \in TransactionSessionState /\ Sound(s, now)
  BY <1>3 DEF EvidenceInv, IInv, TypeOK, Sounds
<1>5. Covers(s, i, rows, signalRows, predictions)
  BY <1>3 DEF EvidenceInv, Covered, AllCovered
<1>6. /\ zoned = EnterZone(s, z, now) \/ zoned = ExitZone(s, z, now)
      /\ \/ browsed = zoned /\ final = zoned
         \/ browsed = BrowsingCheck(zoned, now) /\ final = ExtendedDwellCheck(browsed, now)
  OBVIOUS
<1>6b. written = Snapshots(i, s, zoned) \cup Snapshots(i, zoned, browsed) \cup Snapshots(i, browsed, final)
  OBVIOUS
<1>7. kept \subseteq written
  BY <1>2 DEF Storable
<1> HIDE DEF s, z, zoned, browsed, final, i, written
<1>8. /\ zoned \in TransactionSessionState /\ browsed \in TransactionSessionState /\ final \in TransactionSessionState
      /\ Rises(s, zoned) /\ Rises(zoned, browsed) /\ Rises(browsed, final) /\ Sound(final, now)
  BY <1>3, <1>4, <1>6, CrossingSound
<1>9. /\ \A p \in written : p.session = i /\ Above(p, s) /\ Below(p, final)
      /\ \A p, q \in written : p # q => Ordered(p, q)
      /\ Rises(s, final)
  BY <1>4, <1>6b, <1>8, ChainRises
<1>10. Sounds'
  <2>1. \A j \in SessionIds : Sound(session'[j], now)
    BY <1>1, <1>3, <1>8 DEF EvidenceInv, Sounds, IInv, TypeOK
  <2> QED BY <1>1, <2>1 DEF Sounds
<1>11. /\ Rank[s.last_persisted_level] \in Nat /\ Rank[final.last_persisted_level] \in Nat
       /\ \A p \in predictions \cup kept : Rank[p.level] \in Nat
  <2>1. \A level \in Levels : Rank[level] \in Nat
    BY DEF Levels, Rank
  <2>2. predictions \subseteq Prediction /\ predictions' \subseteq Prediction
    BY <1>3, HandleZoneCrossingIInv DEF IInv, TypeOK
  <2> QED BY <1>2, <1>4, <1>8, <2>1, <2>2 DEF TransactionSessionState, Prediction
<1>11a. /\ rows[i].score \in Nat /\ s.score \in Nat /\ final.score \in Nat
       /\ Stage[rows[i].state] \in Nat /\ Stage[s.state] \in Nat /\ Stage[final.state] \in Nat
  <2>1. rows[i] \in Row
    BY <1>3 DEF IInv, TypeOK
  <2> QED BY <1>4, <1>8, <2>1, Stages DEF Row, TransactionSessionState, MAX_SCORE
<1>11b. /\ signalRows'[i] \subseteq signalRows[i] \cup final.signals
       /\ \A j \in SessionIds : j # i => signalRows'[j] = signalRows[j]
  BY <1>2, <1>3 DEF IInv, TypeOK
<1>12. Covered'
  <2> SUFFICES ASSUME NEW k \in Keys, live[k] # NoSession
               PROVE  Covers(session'[live[k]], live[k], rows, signalRows', predictions \cup kept)
    BY <1>1, <1>2 DEF Covered, AllCovered
  <2>1. live[k] \in SessionIds /\ Covers(session[live[k]], live[k], rows, signalRows, predictions)
    BY <1>3 DEF EvidenceInv, Covered, AllCovered, IInv, TypeOK
  <2>2. CASE live[k] = i
    <3>1. session'[i] = final
      BY <1>1, <1>3 DEF IInv, TypeOK
    <3>2. Covers(final, i, rows, signalRows, predictions)
      BY <1>5, <1>9, <1>11, <1>11a DEF Covers, Below, Rises
    <3> QED BY <1>7, <1>9, <1>11b, <2>2, <3>1, <3>2 DEF Covers
  <2>3. CASE live[k] # i
    <3>1. session'[live[k]] = session[live[k]]
      BY <1>1, <1>3, <2>1, <2>3 DEF IInv, TypeOK
    <3> QED BY <1>7, <1>9, <1>11b, <2>1, <2>3, <3>1 DEF Covers
  <2> QED BY <2>2, <2>3
<1>13. PredictionsRise'
  <2> SUFFICES ASSUME NEW p \in predictions \cup kept, NEW q \in predictions \cup kept, p.session = q.session, p # q
               PROVE  Ordered(p, q)
    BY <1>2 DEF PredictionsRise, Ordered
  <2>1. CASE p \in predictions /\ q \in predictions
    BY <2>1 DEF EvidenceInv, PredictionsRise, Ordered
  <2>2. CASE p \in kept /\ q \in kept
    BY <1>7, <1>9, <2>2
  <2>3. CASE p \in predictions /\ q \in kept
    <3>1. Below(p, s) /\ Above(q, s)
      BY <1>5, <1>7, <1>9, <2>3 DEF Covers
    <3> QED BY <1>11, <3>1 DEF Below, Above, Ordered
  <2>4. CASE p \in kept /\ q \in predictions
    <3>1. Below(q, s) /\ Above(p, s)
      BY <1>5, <1>7, <1>9, <2>4 DEF Covers
    <3> QED BY <1>11, <3>1 DEF Below, Above, Ordered
  <2> QED BY <2>1, <2>2, <2>3, <2>4
<1> QED BY <1>3, <1>10, <1>12, <1>13, HandleZoneCrossingIInv DEF EvidenceInv

LEMMA CompleteLostSessionEvidence ==
    ASSUME EvidenceInv, NEW k \in Keys, CompleteLostSession(k)
    PROVE  EvidenceInv'
<1> DEFINE i == live[k]
<1>1. /\ k \in LostKeys /\ live' = [live EXCEPT ![k] = NoSession]
      /\ session' = [session EXCEPT ![i] = NewSession(0)]
      /\ UNCHANGED <<now, signalRows, predictions>>
  BY DEF CompleteLostSession
<1>2. PICK closed : rows' = rows \/ rows' = [rows EXCEPT ![i] = closed]
  BY DEF CompleteLostSession
<1>3. IInv /\ i \in SessionIds /\ i # NoSession
  BY <1>1, SessionAssumption DEF EvidenceInv, IInv, TypeOK, LostKeys
<1>4. Sounds'
  <2>1. \A j \in SessionIds : Sound(session'[j], now)
    BY <1>1, <1>3, NewSessionSound DEF EvidenceInv, IInv, TypeOK, Sounds
  <2> QED BY <1>1, <2>1 DEF Sounds
<1>5. \A j \in Keys : live'[j] # NoSession => live'[j] = live[j] /\ live[j] # i /\ live[j] \in SessionIds
  BY <1>1, <1>3 DEF IInv, TypeOK, SessionsOwned
<1> HIDE DEF i
<1>6. \A j \in SessionIds : j # i => session'[j] = session[j] /\ rows'[j] = rows[j]
  BY <1>1, <1>2, <1>3 DEF IInv, TypeOK
<1>7. Covered'
  <2>1. SUFFICES AllCovered(live', session', rows', signalRows', predictions')
    BY DEF Covered
  <2>2. SUFFICES ASSUME NEW j \in Keys, live'[j] # NoSession
                 PROVE  Covers(session[live[j]], live[j], rows', signalRows, predictions)
    BY <1>1, <1>5, <1>6 DEF AllCovered
  <2>3. Covers(session[live[j]], live[j], rows, signalRows, predictions)
    BY <1>5, <2>2 DEF EvidenceInv, Covered, AllCovered
  <2> QED BY <1>5, <1>6, <2>2, <2>3 DEF Covers
<1>8. PredictionsRise'
  BY <1>1 DEF EvidenceInv, PredictionsRise
<1> QED BY <1>3, <1>4, <1>7, <1>8, CompleteLostSessionIInv DEF EvidenceInv

LEMMA EndFrameEvidence ==
    ASSUME EvidenceInv, EndFrame
    PROVE  EvidenceInv'
<1>1. UNCHANGED <<now, live, session, signalRows, predictions>> /\ (rows' = rows \/ rows' = Upserted)
  BY DEF EndFrame
<1>2. Sounds'
  BY <1>1 DEF EvidenceInv, Sounds
<1>3. Covered'
  <2>1. SUFFICES AllCovered(live', session', rows', signalRows', predictions')
    BY DEF Covered
  <2>2. SUFFICES ASSUME NEW k \in Keys, live[k] # NoSession
                 PROVE  Covers(session[live[k]], live[k], rows', signalRows, predictions)
    BY <1>1 DEF AllCovered
  <2>3. Covers(session[live[k]], live[k], rows, signalRows, predictions)
    BY <2>2 DEF EvidenceInv, Covered, AllCovered
  <2>4. CASE rows' = rows
    BY <2>3, <2>4
  <2>5. CASE rows' = Upserted
    <3>1. live[k] \in LiveIds /\ live[k] \in SessionIds
      BY <2>2 DEF EvidenceInv, IInv, TypeOK, LiveIds
    <3>2. /\ rows'[live[k]].signals = session[live[k]].signals
          /\ rows'[live[k]].score = session[live[k]].score /\ rows'[live[k]].state = session[live[k]].state
      BY <2>5, <3>1 DEF Upserted, RowOf
    <3>3. session[live[k]].score \in Nat /\ Stage[session[live[k]].state] \in Nat
      BY <3>1, Stages DEF EvidenceInv, IInv, TypeOK, TransactionSessionState, MAX_SCORE
    <3> QED BY <2>3, <3>2, <3>3 DEF Covers
  <2> QED BY <1>1, <2>4, <2>5
<1>4. PredictionsRise'
  BY <1>1 DEF EvidenceInv, PredictionsRise
<1> QED BY <1>2, <1>3, <1>4, EndFrameIInv DEF EvidenceInv

LEMMA CrashEvidence ==
    ASSUME EvidenceInv, Crash
    PROVE  EvidenceInv'
<1>1. /\ live' = [k \in Keys |-> NoSession] /\ session' = [i \in SessionIds |-> NewSession(0)]
      /\ UNCHANGED <<now, predictions>>
  BY DEF Crash, database
<1>2. Sounds'
  <2>1. \A i \in SessionIds : Sound(session'[i], now)
    BY <1>1, NewSessionSound
  <2> QED BY <1>1, <2>1 DEF Sounds
<1>3. Covered'
  <2>1. SUFFICES AllCovered(live', session', rows', signalRows', predictions')
    BY DEF Covered
  <2> QED BY <1>1 DEF AllCovered
<1>4. PredictionsRise'
  BY <1>1 DEF EvidenceInv, PredictionsRise
<1> QED BY <1>2, <1>3, <1>4, CrashIInv DEF EvidenceInv

LEMMA StepEvidence == EvidenceInv /\ [Next]_vars => EvidenceInv'
<1> SUFFICES ASSUME EvidenceInv, [Next]_vars PROVE EvidenceInv'
  OBVIOUS
<1>1. ASSUME NEW c \in Cameras, NEW t \in Instants, NEW ids \in SUBSET TrackIds,
             NEW crossings \in SUBSET (ids \X Zones), BeginFrame(c, t, ids, crossings)
      PROVE  EvidenceInv'
  BY <1>1, BeginFrameEvidence
<1>2. ASSUME NEW x \in TrackIds \X Zones, HandleZoneCrossing(x) PROVE EvidenceInv'
  BY <1>2, HandleZoneCrossingEvidence
<1>3. ASSUME NEW k \in Keys, CompleteLostSession(k) PROVE EvidenceInv'
  BY <1>3, CompleteLostSessionEvidence
<1>4. CASE EndFrame
  BY <1>4, EndFrameEvidence
<1>5. CASE Crash
  BY <1>5, CrashEvidence
<1>6. CASE UNCHANGED vars
  <2>1. UNCHANGED <<now, live, session, rows, signalRows, predictions>>
    BY <1>6 DEF vars, memory, database
  <2>2. IInv'
    BY <1>6, StepIInv DEF EvidenceInv
  <2>3. Sounds' /\ PredictionsRise'
    BY <2>1 DEF EvidenceInv, Sounds, PredictionsRise
  <2>4. Covered'
    <3>1. SUFFICES AllCovered(live', session', rows', signalRows', predictions')
      BY DEF Covered
    <3> QED BY <2>1 DEF EvidenceInv, Covered
  <2> QED BY <2>2, <2>3, <2>4 DEF EvidenceInv
<1> QED BY <1>1, <1>2, <1>3, <1>4, <1>5, <1>6 DEF Next

LEMMA EvidenceAlways == Spec => []EvidenceInv
BY InitEvidence, StepEvidence, PTL DEF Spec

\* Whatever the zones, thresholds and faults: a session that got to the till
\* entered a checkout zone, one that paid showed a payment signal, and one that
\* left the shop floor had passed the eight-minute test.
THEOREM PurchasesAreEvidenced == Spec => []PurchaseIsEvidenced
<1>1. EvidenceInv => PurchaseIsEvidenced
  <2> SUFFICES ASSUME EvidenceInv, NEW i \in LiveIds PROVE Evidenced(session[i])
    BY DEF PurchaseIsEvidenced, Evidenced, PaymentSignals
  <2>1. i \in SessionIds
    BY DEF EvidenceInv, IInv, TypeOK, LiveIds
  <2> QED BY <2>1 DEF EvidenceInv, Sounds, Sound
<1> QED BY <1>1, EvidenceAlways, PTL

\* A host in UTC or west of it never credits a dwell signal too early.  East of
\* UTC the code does: utcnow().timestamp() adds the offset to the dwell.
THEOREM DwellIsEarned ==
    ASSUME UtcOffset <= 0
    PROVE  Spec => []DwellSignalsAreEarned
<1>1. EvidenceInv => DwellSignalsAreEarned
  <2> SUFFICES ASSUME EvidenceInv, NEW i \in LiveIds
               PROVE  /\ "browsing_detected" \in session[i].signals => now - session[i].entered_at > 180
                      /\ "extended_dwell_detected" \in session[i].signals => now - session[i].entered_at > 480
    BY DEF DwellSignalsAreEarned
  <2>1. i \in SessionIds
    BY DEF EvidenceInv, IInv, TypeOK, LiveIds
  <2>2. session[i].entered_at \in Int /\ now \in Int
    BY <2>1, SessionFields DEF EvidenceInv, IInv, TypeOK
  <2>3. Earned(session[i], now)
    BY <2>1 DEF EvidenceInv, Sounds, Sound
  <2> QED BY <2>2, <2>3, TimeAssumption DEF Earned, StoreDwell
<1> QED BY <1>1, EvidenceAlways, PTL

\* A session's stored predictions are a strictly rising history, even when some
\* of them were lost to failed commits.
THEOREM PredictionsOnlyRise == Spec => []PredictionsRise
<1>1. EvidenceInv => PredictionsRise
  BY DEF EvidenceInv
<1> QED BY <1>1, EvidenceAlways, PTL

-----------------------------------------------------------------------------
(* The pages.  A signal of /stats or /queue-metrics is counted in the      *)
(* timeline once for every session that it is stored for.                  *)

Tagged(signal) == {e \in Timeline : e[2] = signal}

LEMMA TimelineFinite == IsFiniteSet(Timeline)
<1>1. IsFiniteSet(SessionIds \X Signals)
  BY SessionAssumption, SignalsFinite, FS_Product
<1>2. Timeline \in SUBSET (SessionIds \X Signals)
  BY DEF Timeline
<1> QED BY <1>1, <1>2, FS_Subset

LEMMA FiredCount ==
    ASSUME NEW signal \in Signals
    PROVE  Cardinality(Tagged(signal)) = Cardinality(Fired(signal)) /\ Cardinality(Fired(signal)) \in Nat
<1> DEFINE cite == [i \in Fired(signal) |-> <<i, signal>>]
<1>1. IsFiniteSet(Fired(signal))
  <2>1. Fired(signal) \in SUBSET SessionIds
    BY DEF Fired
  <2> QED BY <2>1, SessionAssumption, FS_Subset
<1>2. \A i : i \in Fired(signal) <=> <<i, signal>> \in Tagged(signal)
  BY DEF Fired, Tagged, Timeline
<1>3. \A e \in Tagged(signal) : e = <<e[1], signal>>
  BY DEF Tagged, Timeline
<1>4. cite \in Bijection(Fired(signal), Tagged(signal))
  <2>1. cite \in [Fired(signal) -> Tagged(signal)]
    BY <1>2
  <2>2. \A i, j \in Fired(signal) : cite[i] = cite[j] => i = j
    OBVIOUS
  <2>3. \A e \in Tagged(signal) : \E i \in Fired(signal) : cite[i] = e
    BY <1>2, <1>3
  <2> QED BY <2>1, <2>2, <2>3 DEF Bijection, Injection, Surjection, IsInjective
<1> HIDE DEF cite
<1>5. ExistsBijection(Fired(signal), Tagged(signal))
  BY <1>4 DEF ExistsBijection
<1> QED BY <1>1, <1>5, FS_Bijection, FS_CardinalityType

\* One more signal counts its own entries of the timeline.
LEMMA CountAnother ==
    ASSUME NEW T \in SUBSET Timeline, NEW signal \in Signals, \A e \in T : e[2] # signal
    PROVE  /\ T \cup Tagged(signal) \in SUBSET Timeline
           /\ Cardinality(T \cup Tagged(signal)) = Cardinality(T) + Cardinality(Fired(signal))
<1>1. Tagged(signal) \in SUBSET Timeline /\ T \cap Tagged(signal) = {}
  BY DEF Tagged
<1>2. IsFiniteSet(T) /\ IsFiniteSet(Tagged(signal))
  BY <1>1, TimelineFinite, FS_Subset
<1>3. Cardinality(T \cup Tagged(signal)) = Cardinality(T) + Cardinality(Tagged(signal)) - 0
  BY <1>1, <1>2, FS_Union, FS_EmptySet
<1>4. Cardinality(T) \in Nat /\ Cardinality(Tagged(signal)) \in Nat
  BY <1>2, FS_CardinalityType
<1> QED BY <1>1, <1>3, <1>4, FiredCount

LEMMA CountedAreInTimeline ==
    Stats.payments["card_machine_interaction"] + Stats.payments["upi_payment_interaction"]
      + Stats.payments["cash_exchange_detected"]
      + QueueMetrics.queue_completions + QueueMetrics.checkout_entries <= Cardinality(Timeline)
<1> DEFINE card == Tagged("card_machine_interaction")
           upi == card \cup Tagged("upi_payment_interaction")
           cash == upi \cup Tagged("cash_exchange_detected")
           queue == cash \cup Tagged("queue_completed")
           till == queue \cup Tagged("checkout_zone_entered")
<1>1. \A signal \in Signals : \A e \in Tagged(signal) : e \in Timeline /\ e[2] = signal
  BY DEF Tagged
<1>2. card \in SUBSET Timeline /\ \A e \in card : e[2] = "card_machine_interaction"
  BY <1>1, Names
<1> HIDE DEF card
<1>3. /\ upi \in SUBSET Timeline /\ \A e \in upi : e[2] \in {"card_machine_interaction", "upi_payment_interaction"}
      /\ Cardinality(upi) = Cardinality(card) + Cardinality(Fired("upi_payment_interaction"))
  BY <1>1, <1>2, CountAnother, Names
<1> HIDE DEF upi
<1>4. /\ cash \in SUBSET Timeline /\ \A e \in cash : e[2] \in PaymentSignals
      /\ Cardinality(cash) = Cardinality(upi) + Cardinality(Fired("cash_exchange_detected"))
  BY <1>1, <1>3, CountAnother, Names DEF PaymentSignals
<1> HIDE DEF cash
<1>5. /\ queue \in SUBSET Timeline /\ \A e \in queue : e[2] \in PaymentSignals \cup {"queue_completed"}
      /\ Cardinality(queue) = Cardinality(cash) + Cardinality(Fired("queue_completed"))
  BY <1>1, <1>4, CountAnother, Names DEF PaymentSignals
<1> HIDE DEF queue
<1>6. /\ till \in SUBSET Timeline
      /\ Cardinality(till) = Cardinality(queue) + Cardinality(Fired("checkout_zone_entered"))
  BY <1>1, <1>5, CountAnother, Names DEF PaymentSignals
<1> HIDE DEF till
<1>7. Cardinality(till) <= Cardinality(Timeline)
  BY <1>6, TimelineFinite, FS_Subset
<1>8. /\ Cardinality(card) = Cardinality(Fired("card_machine_interaction"))
      /\ \A signal \in Signals : Cardinality(Fired(signal)) \in Nat
  BY FiredCount, Names DEF card
<1>9. /\ \A signal \in PaymentSignals : Stats.payments[signal] = Cardinality(Fired(signal))
      /\ QueueMetrics.queue_completions = Cardinality(Fired("queue_completed"))
      /\ QueueMetrics.checkout_entries = Cardinality(Fired("checkout_zone_entered"))
  BY DEF Stats, QueueMetrics
<1>10. /\ Cardinality(till) \in Nat /\ Cardinality(Timeline) \in Nat
  BY <1>6, TimelineFinite, FS_Subset, FS_CardinalityType
<1> QED BY <1>3, <1>4, <1>5, <1>6, <1>7, <1>8, <1>9, <1>10, Names DEF PaymentSignals

\* The pages of the past lag the live page: a row, a stored signal or a stored
\* prediction of a visitor in the store says no more than the live page does,
\* whichever commits failed.
THEOREM PagesLag == Spec => []PagesLagEngine
<1>1. EvidenceInv => PagesLagEngine
  <2> SUFFICES ASSUME EvidenceInv PROVE PagesLagEngine
    OBVIOUS
  <2>1. ASSUME NEW i \in LiveIds
        PROVE  /\ i \in SessionIds /\ i \notin Completed /\ Sound(session[i], now)
               /\ Covers(session[i], i, rows, signalRows, predictions)
    <3> PICK k \in Keys : live[k] = i /\ live[k] # NoSession
      BY DEF LiveIds
    <3> QED BY DEF EvidenceInv, IInv, TypeOK, SessionsOwned, Sounds, Covered, AllCovered, Completed
  <2>2. ASSUME NEW i \in LiveIds
        PROVE  /\ Shown(rows[i]).signals \subseteq LiveSessions[i].signals
               /\ Shown(rows[i]).score <= LiveSessions[i].score
               /\ Rank[Shown(rows[i]).level] <= Rank[LiveSessions[i].level]
               /\ Stage[Shown(rows[i]).state] <= Stage[LiveSessions[i].state]
    <3>1. rows[i].score \in Nat /\ session[i].score \in Nat
      <4>1. rows[i] \in Row /\ session[i] \in TransactionSessionState
        BY <2>1 DEF EvidenceInv, IInv, TypeOK
      <4> QED BY <4>1 DEF Row, TransactionSessionState, MAX_SCORE
    <3> QED BY <2>1, <2>2, <3>1, LevelRises DEF Covers, Shown, LiveSessions
  <2>3. ASSUME NEW e \in Timeline, e[1] \in LiveIds PROVE e[2] \in LiveSessions[e[1]].signals
    BY <2>1, <2>3 DEF Covers, Timeline, Shown, LiveSessions
  <2>4. ASSUME NEW p \in predictions, p.session \in LiveIds
        PROVE  /\ p.signals \subseteq LiveSessions[p.session].signals
               /\ Rank[p.level] <= Rank[LiveSessions[p.session].level]
    BY <2>1, <2>4 DEF Covers, Below, Sound, Shown, LiveSessions
  <2> QED BY <2>1, <2>2, <2>3, <2>4, CountedAreInTimeline DEF PagesLagEngine
<1> QED BY <1>1, EvidenceAlways, PTL

-----------------------------------------------------------------------------
(* What the raising enqueue costs.                                         *)

LEMMA EnqueueRaises == ~CanEnqueue
BY DEF CanEnqueue, EnqueueFields, QueueColumns

\* No record of an ended visit, no prediction of a likely purchase, nothing for the cloud.
NothingFinal ==
    /\ Completed = {} /\ syncQueue = {}
    /\ \A p \in predictions : ~Enqueued(p.level)

LEMMA InitNothingFinal == Init => NothingFinal
BY DEF Init, NothingFinal, Completed, AbsentRow

LEMMA StepNothingFinal == IInv /\ NothingFinal /\ [Next]_vars => NothingFinal'
<1> SUFFICES ASSUME IInv, NothingFinal, [Next]_vars PROVE NothingFinal'
  OBVIOUS
<1>1. CASE UNCHANGED database
  BY <1>1 DEF database, NothingFinal, Completed
<1>2. ASSUME NEW x \in TrackIds \X Zones, HandleZoneCrossing(x) PROVE NothingFinal'
  <2>1. PICK kept : /\ predictions' = predictions \cup kept /\ syncQueue' = syncQueue \cup CloudCopies(kept)
                    /\ \E written : kept \subseteq Storable(written)
    BY <1>2 DEF HandleZoneCrossing
  <2>2. \A p \in kept : ~Enqueued(p.level)
    BY <2>1, EnqueueRaises DEF Storable
  <2>3. CloudCopies(kept) = {}
    BY <2>2 DEF CloudCopies
  <2>4. rows' = rows
    BY <1>2 DEF HandleZoneCrossing
  <2> QED BY <2>1, <2>2, <2>3, <2>4 DEF NothingFinal, Completed
<1>3. ASSUME NEW k \in Keys, CompleteLostSession(k) PROVE NothingFinal'
  <2>1. UNCHANGED <<rows, syncQueue, predictions>>
    BY <1>3, EnqueueRaises DEF CompleteLostSession
  <2> QED BY <2>1 DEF NothingFinal, Completed
<1>4. CASE EndFrame
  <2>1. UNCHANGED <<syncQueue, predictions>> /\ (rows' = rows \/ rows' = Upserted)
    BY <1>4 DEF EndFrame
  <2>2. \A i \in SessionIds : rows'[i].status = "complete" => rows[i].status = "complete"
    BY <2>1, UpsertedRows
  <2> QED BY <2>1, <2>2 DEF NothingFinal, Completed
<1>5. CASE Crash
  BY <1>1, <1>5 DEF Crash
<1>6. CASE \E c \in Cameras, t \in Instants, ids \in SUBSET TrackIds :
             \E crossings \in SUBSET (ids \X Zones) : BeginFrame(c, t, ids, crossings)
  BY <1>1, <1>6 DEF BeginFrame
<1>7. CASE UNCHANGED vars
  BY <1>1, <1>7 DEF vars
<1> QED BY <1>2, <1>3, <1>4, <1>5, <1>6, <1>7 DEF Next

\* While enqueue_sync names a column that the queue does not have, no visit ever
\* gets a completed row, no prediction of MEDIUM or HIGH is ever stored, and the
\* engine leaves nothing for the cloud, even where no commit fails: the pages of
\* ended visits stay empty for good.
THEOREM NoVisitIsCompleted == Spec => []NothingFinal
BY InitIInv, StepIInv, InitNothingFinal, StepNothingFinal, PTL DEF Spec

-----------------------------------------------------------------------------
(* The tables implement the ledger of visits.                              *)

StatusOf(R) == [i \in SessionIds |-> R[i].status]
EvidenceOf(R) == [i \in SessionIds |-> R[i].signals]

\* The ledger's variables do not move.
LEMMA LedgerStutters ==
    ASSUME rows' = rows, Announced' = Announced
    PROVE  UNCHANGED Ledger!vars
BY DEF Ledger!vars

LEMMA LedgerInit == Init => Ledger!Init
BY DEF Init, Ledger!Init, AbsentRow, Announced

LEMMA EndFrameUpdates ==
    ASSUME EvidenceInv, EndFrame
    PROVE  [Ledger!Next]_Ledger!vars
<1>1. Announced' = Announced
  BY DEF EndFrame, Announced
<1>2. CASE rows' = rows
  BY <1>1, <1>2, LedgerStutters
<1>3. CASE rows' = Upserted
  <2>1. LiveIds \subseteq SessionIds /\ \A i \in LiveIds : rows[i].status \in {"absent", "open"}
    BY DEF EvidenceInv, IInv, TypeOK, SessionsOwned, LiveIds, Row
  <2>2. \A i \in LiveIds : rows[i].signals \subseteq session[i].signals /\ session[i].signals \subseteq Signals
    <3> SUFFICES ASSUME NEW k \in Keys, live[k] # NoSession
                 PROVE  rows[live[k]].signals \subseteq session[live[k]].signals /\ session[live[k]].signals \subseteq Signals
      BY DEF LiveIds
    <3>1. live[k] \in SessionIds /\ session[live[k]] \in TransactionSessionState
      BY DEF EvidenceInv, IInv, TypeOK
    <3> QED BY <3>1 DEF EvidenceInv, Covered, AllCovered, Covers, TransactionSessionState
  <2>3. \A i \in SessionIds : /\ rows'[i].status = IF i \in LiveIds THEN "open" ELSE rows[i].status
                              /\ rows'[i].signals = IF i \in LiveIds THEN session[i].signals ELSE rows[i].signals
    BY <1>3, <2>1 DEF Upserted, RowOf
  <2>4. \A i \in SessionIds : rows[i].signals \subseteq Signals
    BY DEF EvidenceInv, IInv, TypeOK, Row
  <2> PICK S \in SUBSET SessionIds : S = LiveIds
    BY <2>1
  <2>5. Ledger!Update(S)
    <3>1. [i \in SessionIds |-> rows'[i].signals] \in [SessionIds -> SUBSET Signals]
      BY <2>2, <2>3, <2>4
    <3> QED BY <1>1, <2>1, <2>2, <2>3, <3>1 DEF Ledger!Update
  <2> QED BY <2>5 DEF Ledger!Next
<1> QED BY <1>2, <1>3 DEF EndFrame

\* A crossing queues predictions only.
LEMMA CrossingAnnouncesNothing ==
    ASSUME NEW x \in TrackIds \X Zones, HandleZoneCrossing(x)
    PROVE  rows' = rows /\ Announced' = Announced
<1>1. rows' = rows /\ \E P : syncQueue' = syncQueue \cup CloudCopies(P)
  BY DEF HandleZoneCrossing
<1>2. PICK P : syncQueue' = syncQueue \cup CloudCopies(P)
  BY <1>1
<1>3. \A e \in CloudCopies(P) : e.table # "transaction_sessions"
  BY DEF CloudCopies
<1> QED BY <1>1, <1>2, <1>3 DEF Announced

LEMMA CompleteLostSessionCloses ==
    ASSUME EvidenceInv, NEW k \in Keys, CompleteLostSession(k)
    PROVE  [Ledger!Next]_Ledger!vars
<1> DEFINE i == live[k]
           exited == [session[i] EXCEPT !.state = "EXITED_STORE"]
           entry == [table |-> "transaction_sessions", session |-> i, level |-> Level(exited.score)]
<1>1. /\ k \in LostKeys
      /\ \/ rows' = [rows EXCEPT ![i] = RowOf("complete", exited)] /\ syncQueue' = syncQueue \cup {entry}
         \/ rows' = rows /\ syncQueue' = syncQueue
  BY DEF CompleteLostSession
<1>2. /\ i \in SessionIds /\ i # NoSession /\ rows[i].status # "complete"
      /\ rows[i].signals \subseteq session[i].signals
  BY <1>1, SessionAssumption
     DEF EvidenceInv, IInv, TypeOK, SessionsOwned, LostKeys, Covered, AllCovered, Covers
<1>3. session[i] \in TransactionSessionState
  BY <1>2 DEF EvidenceInv, IInv, TypeOK
<1>4. exited.signals = session[i].signals /\ exited.signals \subseteq Signals
  BY <1>3 DEF TransactionSessionState
<1>5. entry.table = "transaction_sessions" /\ entry.session = i
  OBVIOUS
<1> HIDE DEF i, exited, entry
<1>6. CASE rows' = rows /\ syncQueue' = syncQueue
  BY <1>6, LedgerStutters DEF Announced
<1>7. CASE rows' = [rows EXCEPT ![i] = RowOf("complete", exited)] /\ syncQueue' = syncQueue \cup {entry}
  <2>1. Announced' = Announced \cup {i}
    BY <1>2, <1>5, <1>7 DEF Announced
  <2>2. \A v \in SessionIds : /\ rows'[v].status = IF v = i THEN "complete" ELSE rows[v].status
                              /\ rows'[v].signals = IF v = i THEN exited.signals ELSE rows[v].signals
    BY <1>2, <1>7 DEF RowOf, EvidenceInv, IInv, TypeOK
  <2>3. [v \in SessionIds |-> rows'[v].status] = [[v \in SessionIds |-> rows[v].status] EXCEPT ![i] = "complete"]
    BY <1>2, <2>2
  <2>4. [v \in SessionIds |-> rows'[v].signals] = [[v \in SessionIds |-> rows[v].signals] EXCEPT ![i] = exited.signals]
    BY <1>2, <2>2
  <2>5. exited.signals \in SUBSET Signals /\ [v \in SessionIds |-> rows[v].signals][i] \subseteq exited.signals
    BY <1>2, <1>4
  <2>6. [v \in SessionIds |-> rows[v].status][i] # "complete"
    BY <1>2
  <2> PICK v \in SessionIds : v = i
    BY <1>2
  <2>7. Ledger!Close(v)
    BY <2>1, <2>3, <2>4, <2>5, <2>6 DEF Ledger!Close
  <2> QED BY <2>7 DEF Ledger!Next
<1> QED BY <1>1, <1>6, <1>7

LEMMA StepLedger == EvidenceInv /\ [Next]_vars => [Ledger!Next]_Ledger!vars
<1> SUFFICES ASSUME EvidenceInv, [Next]_vars PROVE [Ledger!Next]_Ledger!vars
  OBVIOUS
<1>1. CASE UNCHANGED database
  BY <1>1, LedgerStutters DEF database, Announced
<1>2. ASSUME NEW x \in TrackIds \X Zones, HandleZoneCrossing(x) PROVE [Ledger!Next]_Ledger!vars
  BY <1>2, CrossingAnnouncesNothing, LedgerStutters
<1>3. ASSUME NEW k \in Keys, CompleteLostSession(k) PROVE [Ledger!Next]_Ledger!vars
  BY <1>3, CompleteLostSessionCloses
<1>4. CASE EndFrame
  BY <1>4, EndFrameUpdates
<1>5. CASE Crash
  BY <1>1, <1>5 DEF Crash
<1>6. CASE \E c \in Cameras, t \in Instants, ids \in SUBSET TrackIds :
             \E crossings \in SUBSET (ids \X Zones) : BeginFrame(c, t, ids, crossings)
  BY <1>1, <1>6 DEF BeginFrame
<1>7. CASE UNCHANGED vars
  BY <1>1, <1>7 DEF vars
<1> QED BY <1>2, <1>3, <1>4, <1>5, <1>6, <1>7 DEF Next

\* The session tables are a ledger of visits: each record opened once, evidence
\* only added, closed at most once and announced when it closes.
THEOREM EngineImplementsLedger == Spec => ImplementsLedger
<1>1. Init => Ledger!Init
  BY LedgerInit
<1>2. EvidenceInv /\ [Next]_vars => [Ledger!Next]_Ledger!vars
  BY StepLedger
<1> QED BY <1>1, <1>2, EvidenceAlways, PTL DEF Spec, ImplementsLedger, Ledger!Spec
=============================================================================
