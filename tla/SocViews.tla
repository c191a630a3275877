------------------------------ MODULE SocViews ------------------------------
(* What the SOC dashboard (src/services/dashboard/src/App.jsx) computes from   *)
(* the events, the health map and the metrics it holds, and the rows it puts   *)
(* on the screen.  Scores are hundredths, time is in ticks, an absent score is *)
(* NoScore and any other absent value is None.                                 *)
EXTENDS Integers, Sequences, FiniteSets, SequencesExt, Lists

CONSTANTS
    SERVICES,            \* the probed services (13 of them)
    FEED_MAX,            \* events in the live feed (50)
    HOUR, FIVE_MINUTES,  \* two spans of time, in ticks
    HOURS,               \* columns of the heatmap (24)
    ALERT_ROWS,          \* alerts listed (5)
    REVOCATION_ROWS,     \* revocations listed (10)
    SESSION_ROWS,        \* sessions listed (30)
    SUSPICIOUS_ABOVE     \* the session threshold, 0.7

None == "none"
NoScore == -1
Scores == NoScore .. 100
CLASSES == {"allow", "deny", "stepup", "revoke"}
EVENT_TYPES == {"policy_decision", "risk_eval", "token_revocation", "anomaly_score"}

ASSUME SpansOfTime == HOUR \in Nat \ {0} /\ FIVE_MINUTES \in 1 .. HOUR /\ HOURS \in Nat \ {0}
ASSUME Caps == {FEED_MAX, ALERT_ROWS, REVOCATION_ROWS, SESSION_ROWS} \subseteq Nat /\ SUSPICIOUS_ABOVE \in Scores
ASSUME ListedServices == IsFiniteSet(SERVICES)

First(s, n) == SubSeq(s, 1, Min({n, Len(s)}))
AtMost(n, bound) == Min({n, bound})

(* "12s ago": the time since an event in milliseconds, rounded to the unit that  *)
(* the unrounded time is below the next of.                                   *)
Rounded(ms, unit) == (ms + unit \div 2) \div unit
relTime(ms) ==
    LET unit == IF ms < 60000 THEN 1000 ELSE IF ms < 3600000 THEN 60000 ELSE 3600000
    IN  [n |-> Rounded(ms, unit), unit |-> unit]

(* Decisions ***************************************************************)
(* The decision of an event, or its type when the payload names none. *)
decisionOf(ev) == IF ev.decision = None THEN ev.type ELSE ev.decision

decisionClass(d) ==
    CASE d = "fail_open" -> "allow"
      [] d \in CLASSES   -> d
      [] OTHER           -> None

riskColor(score) ==
    IF score = NoScore THEN "muted"
    ELSE IF score >= 80 THEN "red"
    ELSE IF score >= 50 THEN "amber"
    ELSE IF score >= 25 THEN "accent" ELSE "green"

(* What is computed from the events ******************************************)
feedEvents(events) == First(events, FEED_MAX)

decisionCounts(events) ==
    LET feed == feedEvents(events)
    IN  [c \in CLASSES |->
            Cardinality({i \in DOMAIN feed : decisionClass(decisionOf(feed[i])) = c})]

(* The mean, cut to hundredths.  Scores are doubles, added one after the other:  *)
(* a sum of several that are not all quarters may come out (low = 1) a hair     *)
(* below the exact one, and a mean that is exactly a hundredth just below it.   *)
(* Above it is the same hundredth.                                            *)
avgRisk(events, low) ==
    LET scores == filter([i \in DOMAIN feedEvents(events) |-> events[i].risk],
                         LAMBDA r : r # NoScore)
        short == IF Len(scores) > 1 /\ (\E i \in DOMAIN scores : scores[i] % 25 # 0) THEN low ELSE 0
    IN  IF scores = << >> THEN NoScore
        ELSE (Total(scores) - short) \div Len(scores)

latestAnomaly(events) == IF events = << >> THEN NoScore ELSE Head(events).anomaly

(* Broken variant: an event leaves its column one tick after it has occurred. *)
ColumnRoundedUp(at, now) == HOURS - ((now - at + HOUR - 1) \div HOUR)

(* Column of the heatmap: HOURS for the current hour; an event of the browser's *)
(* future, or older than the window, falls outside 1 .. HOURS.                 *)
Column(at, now) == HOURS - ((now - at) \div HOUR)

heatmap(events, now) ==
    [t \in EVENT_TYPES |-> [c \in 1 .. HOURS |->
        Cardinality({i \in DOMAIN events :
                        events[i].type = t /\ Column(events[i].at, now) = c})]]

maxVal(hm) == Max({1} \cup UNION {{hm[t][c] : c \in 1 .. HOURS} : t \in EVENT_TYPES})

alerts(events, now) ==
    filter(events, LAMBDA ev : /\ ev.decision \in {"deny", "revoke"}
                               /\ ev.at > now - FIVE_MINUTES)

revocations(events) ==
    First(filter(events, LAMBDA ev : ev.type = "token_revocation"), REVOCATION_ROWS)

(* The session roll-up of pollEvents: a loop over the fetched events, newest   *)
(* first, over a map from session id to its entry.                            *)
NewEntry(ev) == [sessionId |-> ev.session, userId |-> ev.user, count |-> 0,
                 riskMax |-> NoScore, anomalyMax |-> NoScore, lastSeen |-> ev.at]

(* Broken variant: the latest score instead of the largest. *)
LatestScore(seen, score) == score # NoScore

Larger(seen, score) == score # NoScore /\ (seen = NoScore \/ score > seen)

Counted(entry, ev) ==
    [entry EXCEPT !.count      = @ + 1,
                  !.riskMax    = IF Larger(@, ev.risk) THEN ev.risk ELSE @,
                  !.anomalyMax = IF Larger(@, ev.anomaly) THEN ev.anomaly ELSE @,
                  !.lastSeen   = IF ev.at > @ THEN ev.at ELSE @]

AddToRollup(sessions, ev) ==
    IF ev.session = None THEN sessions
    ELSE LET entry == IF ev.session \in DOMAIN sessions THEN sessions[ev.session]
                                                        ELSE NewEntry(ev)
         IN  [s \in DOMAIN sessions \cup {ev.session} |->
                 IF s = ev.session THEN Counted(entry, ev) ELSE sessions[s]]

NoSessions == [s \in {} |-> None]
rollup(events) == reduce(events, AddToRollup, NoSessions)

(* Health and threat level ***************************************************)
healthCount(health) == Cardinality({s \in SERVICES : health[s] = "ok"})
OrZero(score) == IF score = NoScore THEN 0 ELSE score

computeThreat(metrics, health) ==
    LET anm  == OrZero(metrics.anmPct)
        deny == OrZero(metrics.denyPct)
        down == Cardinality({s \in SERVICES : health[s] = "down"})
    IN  IF anm > 25 \/ deny > 40 \/ down >= 4 THEN "CRITICAL"
        ELSE IF anm > 10 \/ deny > 20 \/ down >= 2 THEN "HIGH"
        ELSE IF anm > 3 \/ deny > 8 \/ down >= 1 THEN "MEDIUM" ELSE "LOW"

(* The screen ****************************************************************)
(* The header, shown on every page. *)
TopBar(health, metrics, polling) ==
    [pips |-> health, indicator |-> polling, threat |-> computeThreat(metrics, health)]

StatCards(metrics, sessions) ==
    LET n == Cardinality(DOMAIN sessions)
    IN  [dpm        |-> metrics.dpm,
         dpmBar     |-> AtMost(2 * OrZero(metrics.dpm), 100),
         denyPct    |-> metrics.denyPct,
         denyBar    |-> AtMost(OrZero(metrics.denyPct), 100),
         anmPct     |-> metrics.anmPct,
         anmBar     |-> AtMost(OrZero(metrics.anmPct), 100),
         sessions   |-> IF n = 0 THEN NoScore ELSE n,
         sessionBar |-> AtMost(5 * n, 100)]

(* The colour of the risk gauge. *)
RiskGauge(events, low) == riskColor(OrZero(avgRisk(events, low)))

(* A feed row names the class of the decision, the type of an event without a  *)
(* known decision, and colours the score.                                     *)
FeedRow(ev) ==
    LET cls == decisionClass(decisionOf(ev))
    IN  [event |-> ev.id,
         badge |-> IF cls = None THEN ev.type ELSE cls,
         color |-> riskColor(ev.risk)]

FeedRows(events) == [i \in DOMAIN feedEvents(events) |-> FeedRow(events[i])]

(* Shade of a heatmap cell in hundredths of opacity; 0 is the empty cell. *)
Shade(count, most) == IF count = 0 THEN 0 ELSE AtMost(((85 * count) \div most) + 10, 90)

HeatmapTable(events, now) ==
    LET hm == heatmap(events, now)
    IN  [t \in EVENT_TYPES |-> [c \in 1 .. HOURS |-> Shade(hm[t][c], maxVal(hm))]]

AlertRows(events, now) ==
    LET listed == First(alerts(events, now), ALERT_ROWS)
    IN  [i \in DOMAIN listed |->
            [event |-> listed[i].id, badge |-> listed[i].decision,
             color |-> riskColor(listed[i].risk)]]

RevocationRows(events) ==
    LET listed == revocations(events) IN [i \in DOMAIN listed |-> listed[i].id]

(* The table of the sessions page: newest first, cut to SESSION_ROWS. *)
Suspicious(entry) == entry.riskMax > SUSPICIOUS_ABOVE \/ entry.anomalyMax > SUSPICIOUS_ABOVE

SessionRow(entry) ==
    [session |-> entry.sessionId, requests |-> entry.count,
     status |-> IF Suspicious(entry) THEN "SUSPICIOUS" ELSE "CLEAN"]

SessionRows(sessions) ==
    LET ids    == SetToSeq(DOMAIN sessions)
        sorted == Descending([i \in DOMAIN ids |-> sessions[ids[i]].lastSeen])
        listed == First(sorted, SESSION_ROWS)
    IN  [i \in DOMAIN listed |-> SessionRow(sessions[ids[listed[i]]])]

(* The health page: one tile per service and how many are online. *)
HealthTiles(health) ==
    [online |-> healthCount(health), tiles |-> [s \in SERVICES |-> health[s]]]

(* A timeline, oldest first, with the time since the event before.  The panel   *)
(* of the sessions page drops a score of zero (a falsy value); the inspector,  *)
(* which formats it first, shows it.                                          *)
TimelineRows(timeline, zeroShown) ==
    [i \in DOMAIN timeline |->
        LET ev == timeline[i]
        IN  [event |-> ev.id, pill |-> ev.type, decision |-> ev.decision,
             delta |-> IF i = 1 THEN NoScore ELSE ev.at - timeline[i - 1].at,
             risk  |-> IF ev.decision = None /\ (zeroShown \/ ev.risk # 0) THEN ev.risk
                       ELSE NoScore]]

(* The drawer's fields of an event: the blocks for the two scores are there    *)
(* only when the payload has them.                                            *)
DrawerFields(ev) ==
    [event    |-> ev.id,
     decision |-> decisionClass(ev.decision),
     session  |-> ev.session,
     scores   |-> {s \in {"risk", "anomaly"} : ev[s] # NoScore}]
=============================================================================
