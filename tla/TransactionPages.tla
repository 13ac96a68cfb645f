---------------------------- MODULE TransactionPages ----------------------------
(***************************************************************************)
(* apps/backend/routers/transaction_intelligence.py: the pages over the    *)
(* sessions in memory and over the tables that TransactionEngine writes.   *)
(* The model is of one day, and the pages are those without a camera and   *)
(* with a limit that nothing reaches.                                      *)
(***************************************************************************)
EXTENDS TransactionEngine, FiniteSetsExt

AtTill == {"AT_CHECKOUT", "PAYMENT_INTERACTION", "PURCHASE_COMPLETED"}
Likely == {"MEDIUM", "HIGH"}

\* What a page shows of a session or of a row; the level is stored with the score.
Shown(s) == [state |-> s.state, score |-> s.score, level |-> Level(s.score), signals |-> s.signals]

\* get_live_sessions, of the engine and of the router.
LiveSessions == [i \in LiveIds |-> Shown(session[i])]

LivePage ==
    [total            |-> Cardinality(LiveIds),
     at_checkout      |-> Cardinality({i \in LiveIds : LiveSessions[i].state \in AtTill}),
     likely_purchases |-> Cardinality({i \in LiveIds : LiveSessions[i].level \in Likely})]

\* get_sessions: whoever has a row, complete or not.
History == {i \in SessionIds : rows[i].status # "absent"}
SessionsPage(levels) == {i \in History : Shown(rows[i]).level \in levels}

\* The where clause of the other pages.
Completed == {i \in SessionIds : rows[i].status = "complete"}
Reached(states) == {i \in Completed : rows[i].state \in states}
LikelyOnes == Completed \cap SessionsPage(Likely)

Fired(signal) == {i \in SessionIds : signal \in signalRows[i]}
Percent(n, total) == IF total > 0 THEN (100 * n) \div total ELSE 0
Excess(m, n) == IF m > n THEN m - n ELSE 0

Stats ==
    LET total == Cardinality(Completed)
        likely == Cardinality(LikelyOnes)
        visitors == Cardinality(Reached(AtTill \cup {"EXITED_STORE"}))
    IN  [total_sessions            |-> total,
         likely_purchases          |-> likely,
         estimated_conversion_rate |-> Percent(likely, total),
         checkout_visitors         |-> visitors,
         checkout_abandonment      |-> Excess(visitors, likely),
         payments |-> [signal \in PaymentSignals |-> Cardinality(Fired(signal))],
         live_at_checkout          |-> LivePage.at_checkout,
         live_sessions             |-> LivePage.total]

Funnel ==
    <<Cardinality(Completed),
      Cardinality(Reached(VisitorState \ {"ENTERED_STORE"})),
      Cardinality({i \in Reached(VisitorState \ {"ENTERED_STORE", "SHOPPING"}) : rows[i].score > 0}),
      Cardinality(Reached(AtTill \cup {"EXITED_STORE"})),
      Cardinality(Reached({"PAYMENT_INTERACTION", "PURCHASE_COMPLETED"})),
      Cardinality(LikelyOnes)>>

Distribution == [level \in Levels |-> Cardinality(Completed \cap SessionsPage({level}))]

Timeline == {e \in SessionIds \X Signals : e[2] \in signalRows[e[1]]}

QueueMetrics ==
    LET completed == Cardinality(Fired("queue_completed"))
        entered == Cardinality(Fired("checkout_zone_entered"))
    IN  [queue_completions  |-> completed, checkout_entries |-> entered,
         queue_success_rate |-> Percent(completed, entered),
         queue_abandonment  |-> Excess(entered, completed)]

-----------------------------------------------------------------------------
(* Properties.                                                             *)

\* The stages of a visit in the order in which it passes them.
Stage ==
    [ENTERED_STORE |-> 0, SHOPPING |-> 1, MOVING_TO_CHECKOUT |-> 2, WAITING_IN_QUEUE |-> 3,
     AT_CHECKOUT |-> 4, PAYMENT_INTERACTION |-> 5, PURCHASE_COMPLETED |-> 6, EXITED_STORE |-> 7]

\* The history is a past of the live page, whatever commits failed since: it shows nobody
\* who is in the store further, surer or with more evidence than the live page does, and
\* none of them as gone; the timeline and the predictions cite evidence that the session has, and
\* what /stats and /queue-metrics count is in the timeline.
PagesLagEngine ==
    /\ \A i \in LiveIds \cap History :
          LET past == Shown(rows[i])
              present == LiveSessions[i]
          IN  /\ i \notin Completed
              /\ past.signals \subseteq present.signals /\ past.score <= present.score
              /\ Rank[past.level] <= Rank[present.level] /\ Stage[past.state] <= Stage[present.state]
    /\ \A e \in Timeline : e[1] \in LiveIds => e[2] \in LiveSessions[e[1]].signals
    /\ \A p \in predictions : p.session \in LiveIds =>
          /\ p.signals \subseteq LiveSessions[p.session].signals
          /\ Rank[p.level] <= Rank[LiveSessions[p.session].level]
    /\ Stats.payments["card_machine_interaction"] + Stats.payments["upi_payment_interaction"]
          + Stats.payments["cash_exchange_detected"]
          + QueueMetrics.queue_completions + QueueMetrics.checkout_entries <= Cardinality(Timeline)

\* "Key transaction KPIs for the dashboard": unless a commit fails or the process stops, the
\* pages of ended visits count every visit that ended.
EndedAreCounted ==
    LET ended == Cardinality(Departed)
    IN  faults = 0 =>
            /\ Stats.total_sessions = ended /\ Funnel[1] = ended
            /\ MapThenSumSet(LAMBDA level : Distribution[level], Levels) = ended
            /\ Stats.checkout_visitors = Funnel[4] /\ Stats.likely_purchases = Funnel[6]
=============================================================================
