----------------------------- MODULE SocPolling -----------------------------
(* The polling loop of the SOC dashboard (src/services/dashboard/src/App.jsx):  *)
(* every POLL_MS a pollAll starts, whether or not the one before has ended.    *)
(* Each has three legs that settle on their own: the events of the forensics   *)
(* service, the health of every service, three Prometheus rates.  The headers  *)
(* of an answer come within HEALTH_TIMEOUT, which is less than POLL_MS, or the *)
(* call is aborted; the body has no such bound, so polls overlap in it.        *)
EXTENDS SocViews

CONSTANTS
    Polls,              \* the polls that may be in flight together
    EVENT_FETCH_LIMIT,  \* events asked for (200)
    ANM_HISTORY,        \* points of the anomaly trend (24)
    EventKinds,         \* the events a service may record
    MetricAnswers,      \* what the Prometheus leg may come back with
    HealthAnswers,      \* what the health leg may come back with
    MaxLog, MaxNow      \* bounds: events recorded, ticks

ASSUME PollingBounds == EVENT_FETCH_LIMIT \in Nat \ {0} /\ ANM_HISTORY \in Nat \ {0}
ASSUME RecordedKinds ==
    \A kind \in EventKinds :
        /\ {"type", "decision", "risk", "anomaly", "session", "user"} \subseteq DOMAIN kind
        /\ kind.type \in EVENT_TYPES /\ kind.risk \in Scores /\ kind.anomaly \in Scores
ASSUME AnswerKinds ==
    /\ HealthAnswers \subseteq [SERVICES -> {"ok", "degraded", "down"}]
    /\ MetricAnswers \subseteq [{"dpm", "denyPct", "anmPct"} -> Nat \cup {NoScore}]

VARIABLES
    log,          \* audit events in the database, oldest first
    now,          \* the time, in ticks
    leg,          \* per poll: the stage of its events, health and metrics legs
    answer,       \* per poll: the events its answer carries
    events, sessions, health, metrics, polling, lastUpdated, connecting, anomalyHist,
    memoAt,       \* when the memoised views of the events were computed
    landed,       \* history: length of the log the shown events were read from
    overlapped    \* history: a poll has started while another was in flight

world == <<log, now>>
flight == <<leg, answer>>
shown == <<events, sessions, anomalyHist, memoAt, landed>>
pollVars == <<world, flight, shown, health, metrics, polling, lastUpdated, connecting, overlapped>>

LegNames == {"events", "health", "metrics"}
NotPolling == [l \in LegNames |-> "idle"]
InFlight(p) == leg[p] # NotPolling
LegEnded(p, l) == leg[p][l] = "done"
Settle(p, l) == leg' = [leg EXCEPT ![p][l] = "done"]
NoMetrics == [dpm |-> NoScore, denyPct |-> NoScore, anmPct |-> NoScore]

PollInit ==
    /\ log = << >> /\ now = 0
    /\ leg = [p \in Polls |-> NotPolling] /\ answer = [p \in Polls |-> << >>]
    /\ events = << >> /\ sessions = NoSessions
    /\ health = [s \in SERVICES |-> "unknown"] /\ metrics = NoMetrics
    /\ polling = FALSE /\ lastUpdated = FALSE /\ connecting = TRUE
    /\ anomalyHist = [i \in 1 .. ANM_HISTORY |-> 0]
    /\ memoAt = 0 /\ landed = 0 /\ overlapped = FALSE

(* The platform, outside the dashboard ****************************************)
(* The database gives an event its id and its time. *)
Stored(kind, n, t) ==
    [f \in DOMAIN kind \cup {"id", "at"} |-> CASE f = "id" -> n [] f = "at" -> t [] OTHER -> kind[f]]

Record(kind) ==
    /\ Len(log) < MaxLog
    /\ log' = Append(log, Stored(kind, Len(log) + 1, now))
    /\ UNCHANGED <<now, flight, shown, health, metrics, polling, lastUpdated, connecting, overlapped>>

PollTick ==
    /\ now < MaxNow
    /\ now' = now + 1
    /\ UNCHANGED <<log, flight, shown, health, metrics, polling, lastUpdated, connecting, overlapped>>

(* One pollAll *****************************************************************)
(* The interval fires: the headers of the polls before have come or timed out. *)
PastHeaders(p) == InFlight(p) => leg[p].events # "sent" /\ leg[p].metrics # "sent" /\ LegEnded(p, "health")

pollAll(p) ==
    /\ ~InFlight(p)
    /\ \A q \in Polls : PastHeaders(q)
    /\ leg' = [leg EXCEPT ![p] = [l \in LegNames |-> "sent"]]
    /\ polling' = TRUE
    /\ overlapped' = (overlapped \/ \E q \in Polls : InFlight(q))
    /\ UNCHANGED <<world, answer, shown, health, metrics, lastUpdated, connecting>>

(* ORDER BY occurred_at DESC LIMIT: the newest events first. *)
Page(recorded) == First(Reverse(recorded), EVENT_FETCH_LIMIT)

(* Broken variant: a cache between the page and the service. *)
EventsHeadersCached(p) ==
    /\ leg[p].events = "sent"
    /\ leg' = [leg EXCEPT ![p].events = "body"]
    /\ \E n \in 0 .. Len(log) : answer' = [answer EXCEPT ![p] = Page(SubSeq(log, 1, n))]
    /\ UNCHANGED <<world, shown, health, metrics, polling, lastUpdated, connecting, overlapped>>

EventsHeaders(p) ==
    /\ leg[p].events = "sent"
    /\ leg' = [leg EXCEPT ![p].events = "body"]
    /\ answer' = [answer EXCEPT ![p] = Page(log)]
    /\ UNCHANGED <<world, shown, health, metrics, polling, lastUpdated, connecting, overlapped>>

(* Broken variant: an error is shown as an empty answer. *)
EventsFailEmpties(p) ==
    /\ leg[p].events \in {"sent", "body"}
    /\ Settle(p, "events")
    /\ answer' = [answer EXCEPT ![p] = << >>]
    /\ events' = << >> /\ sessions' = NoSessions
    /\ UNCHANGED <<world, anomalyHist, memoAt, landed, health, metrics, polling, lastUpdated,
                   connecting, overlapped>>

(* A timeout, an error status or a broken body: the last events stay. *)
EventsFail(p) ==
    /\ leg[p].events \in {"sent", "body"}
    /\ Settle(p, "events")
    /\ answer' = [answer EXCEPT ![p] = << >>]
    /\ UNCHANGED <<world, shown, health, metrics, polling, lastUpdated, connecting, overlapped>>

(* The trend takes the newest anomaly score when that has changed. *)
Trend(fetched) ==
    LET latest == latestAnomaly(fetched)
    IN  IF latest = NoScore \/ latest = latestAnomaly(events) THEN anomalyHist
        ELSE Append(Tail(anomalyHist), latest)

(* What the three charts of the overview are given to draw; of the gauge, the   *)
(* colours it may have.                                                       *)
ChartData ==
    [risk |-> {RiskGauge(events, low) : low \in {0, 1}}, anomaly |-> anomalyHist,
     decisions |-> decisionCounts(events)]

Newest(fetched) == IF fetched = << >> THEN 0 ELSE Head(fetched).id

EventsLand(p) ==
    /\ leg[p].events = "body"
    /\ Settle(p, "events")
    /\ events' = answer[p]
    /\ sessions' = rollup(answer[p])
    /\ anomalyHist' = Trend(answer[p])
    /\ memoAt' = now
    /\ landed' = Newest(answer[p])
    /\ answer' = [answer EXCEPT ![p] = << >>]
    /\ UNCHANGED <<world, health, metrics, polling, lastUpdated, connecting, overlapped>>

(* Every probe ends within its timeout; all results are merged at once. *)
HealthLand(p) ==
    /\ leg[p].health = "sent"
    /\ Settle(p, "health")
    /\ \E results \in HealthAnswers : health' = results
    /\ UNCHANGED <<world, answer, shown, metrics, polling, lastUpdated, connecting, overlapped>>

MetricsHeaders(p) ==
    /\ leg[p].metrics = "sent"
    /\ leg' = [leg EXCEPT ![p].metrics = "body"]
    /\ UNCHANGED <<world, answer, shown, health, metrics, polling, lastUpdated, connecting, overlapped>>

(* A query that fails, or has no result, leaves no value behind. *)
MetricsLand(p) ==
    /\ leg[p].metrics \in {"sent", "body"}
    /\ Settle(p, "metrics")
    /\ \E a \in MetricAnswers \cup {NoMetrics} :
          /\ leg[p].metrics = "sent" => a = NoMetrics
          /\ metrics' = a
    /\ UNCHANGED <<world, answer, shown, health, polling, lastUpdated, connecting, overlapped>>

(* Broken variants: the end of a poll is skipped when Prometheus has not answered. *)
PollEndsWhenAnswered(p) ==
    /\ InFlight(p)
    /\ \A l \in LegNames : LegEnded(p, l)
    /\ leg' = [leg EXCEPT ![p] = NotPolling]
    /\ polling' = (metrics = NoMetrics) /\ lastUpdated' = TRUE /\ connecting' = FALSE
    /\ UNCHANGED <<world, answer, shown, health, metrics, overlapped>>

PollEndsConnecting(p) ==
    /\ InFlight(p)
    /\ \A l \in LegNames : LegEnded(p, l)
    /\ leg' = [leg EXCEPT ![p] = NotPolling]
    /\ polling' = FALSE /\ lastUpdated' = TRUE
    /\ connecting' = (connecting /\ metrics = NoMetrics)
    /\ UNCHANGED <<world, answer, shown, health, metrics, overlapped>>

PollEnds(p) ==
    /\ InFlight(p)
    /\ \A l \in LegNames : LegEnded(p, l)
    /\ leg' = [leg EXCEPT ![p] = NotPolling]
    /\ polling' = FALSE /\ lastUpdated' = TRUE /\ connecting' = FALSE
    /\ UNCHANGED <<world, answer, shown, health, metrics, overlapped>>

LegStep(p) ==
    \/ EventsHeaders(p) \/ EventsFail(p) \/ EventsLand(p)
    \/ HealthLand(p)
    \/ MetricsHeaders(p) \/ MetricsLand(p)
    \/ PollEnds(p)

PollNext ==
    \/ \E kind \in EventKinds : Record(kind)
    \/ PollTick
    \/ \E p \in Polls : pollAll(p)
    \/ \E p \in Polls : LegStep(p)

(* The interval keeps firing; headers are bounded by the client's timeout and  *)
(* bodies by the proxy's read timeout, so every leg ends.                      *)
PollFairness ==
    /\ WF_pollVars(\E p \in Polls : pollAll(p))
    /\ \A p \in Polls : WF_pollVars(LegStep(p))

(* An assumption on the platform, not on the page: a forensics service that is *)
(* asked again and again answers again and again.                             *)
ForensicsAnswers ==
    /\ SF_pollVars(\E p \in Polls : EventsHeaders(p))
    /\ SF_pollVars(\E p \in Polls : EventsLand(p))

PollSpec == PollInit /\ [][PollNext]_pollVars /\ PollFairness /\ ForensicsAnswers

-----------------------------------------------------------------------------
(* Every variable of the polling loop keeps its type. *)
PollTypeOK ==
    /\ leg \in [Polls -> [LegNames -> {"idle", "sent", "body", "done"}]]
    /\ \A p \in Polls : Len(answer[p]) <= EVENT_FETCH_LIMIT
    /\ Len(events) <= EVENT_FETCH_LIMIT
    /\ health \in [SERVICES -> {"unknown", "ok", "degraded", "down"}]
    /\ metrics \in [{"dpm", "denyPct", "anmPct"} -> Nat \cup {NoScore}]
    /\ {polling, lastUpdated, connecting, overlapped} \subseteq BOOLEAN
    /\ anomalyHist \in [1 .. ANM_HISTORY -> Scores]
    /\ memoAt \in 0 .. now /\ landed \in 0 .. Len(log)

(* The indicator is never left on by a poll that is over, however its legs     *)
(* ended (the three are awaited with allSettled); that it is off during a poll *)
(* needs polls that overlapped, of which the first to end switches it off.     *)
IndicatorIsHonest ==
    LET busy == \E p \in Polls : InFlight(p)
    IN  /\ polling => busy
        /\ ~overlapped => (polling <=> busy)

(* The session table is what the events on screen say: one row per session of  *)
(* theirs, with their number, SUSPICIOUS exactly when one of them scores above *)
(* the threshold, last seen when the newest of them occurred.                  *)
SessionsAgree ==
    LET Of(s) == {i \in DOMAIN events : events[i].session = s}
    IN  /\ DOMAIN sessions = {events[i].session : i \in DOMAIN events} \ {None}
        /\ \A s \in DOMAIN sessions :
              /\ sessions[s].count = Cardinality(Of(s))
              /\ sessions[s].lastSeen = Max({events[i].at : i \in Of(s)})
              /\ sessions[s].riskMax = Max({events[i].risk : i \in Of(s)})
        /\ \A i \in DOMAIN SessionRows(sessions) :
              LET row == SessionRows(sessions)[i]
              IN  row.status = "SUSPICIOUS" <=>
                    \E j \in Of(row.session) : Max({events[j].risk, events[j].anomaly}) > SUSPICIOUS_ABOVE

(* The feed, the decision chart and the heatmap are three readings of the same *)
(* events: the chart counts the rows whose badge is a decision, the heatmap    *)
(* holds every event of a known type of the last HOURS hours, and an active    *)
(* alert that is not of the browser's future is in its last column.  Rows of    *)
(* one colour give the risk gauge that colour, but for red rows that all score  *)
(* exactly 0.8 and whose sum is rounded down, and the anomaly trend ends with   *)
(* the score of the newest event that has one on top.  The session card counts *)
(* the rows of the session table, and the header does not read LOW, whatever    *)
(* Prometheus says, while a tile of the health page is down.                   *)
PanelsAgree ==
    LET hm == heatmap(events, memoAt)
        Recent == {i \in DOMAIN events : memoAt - events[i].at \in 0 .. HOURS * HOUR - 1}
        Current(t) == filter(alerts(events, memoAt), LAMBDA ev : ev.type = t /\ ev.at <= memoAt)
        colors == {FeedRows(events)[i].color : i \in DOMAIN FeedRows(events)} \ {"muted"}
        onEdge == \A i \in DOMAIN FeedRows(events) : events[i].risk \in {NoScore, 80}
        table == HeatmapTable(events, memoAt)
        rows == AlertRows(events, memoAt)
        sessionCard == OrZero(StatCards(metrics, sessions).sessions)
    IN  /\ \A c \in CLASSES :
              ChartData.decisions[c] =
                Cardinality({i \in DOMAIN FeedRows(events) : FeedRows(events)[i].badge = c})
        /\ \A t \in EVENT_TYPES : Total(hm[t]) = Cardinality({i \in Recent : events[i].type = t})
        /\ \A t \in EVENT_TYPES : hm[t][HOURS] >= Len(Current(t))
        /\ \A t \in EVENT_TYPES : \A c \in 1 .. HOURS : table[t][c] > 0 <=> hm[t][c] > 0
        /\ \A i \in DOMAIN rows : rows[i].badge \in {"deny", "revoke"}
        /\ Cardinality(colors) = 1 => ChartData.risk \subseteq colors \/ onEdge
        /\ latestAnomaly(events) # NoScore => Last(ChartData.anomaly) = latestAnomaly(events)
        /\ Len(SessionRows(sessions)) = AtMost(sessionCard, SESSION_ROWS)
        /\ TopBar(health, metrics, polling).threat = "LOW" =>
              \A s \in SERVICES : HealthTiles(health).tiles[s] # "down"

(* The dashboard goes back to older events only when polls have overlapped and *)
(* the earlier one's answer came last: nothing else (a failed fetch, a cache)  *)
(* makes events that were on screen disappear from the newest end.             *)
NoStepBack == [][landed' >= landed \/ overlapped']_pollVars

(* The splash screen does not outlive the first poll, whatever fails in it. *)
SplashEnds == connecting /\ (\E p \in Polls : InFlight(p)) ~> ~connecting

(* "keep last good data" (App.jsx:261): once events stop coming, the page ends *)
(* up showing the newest ones and is not emptied by fetches that still fail.   *)
FeedSettles == <>[](events = Page(log))
=============================================================================
