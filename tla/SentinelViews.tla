---------------------------- MODULE SentinelViews ----------------------------
(* What the Sentinel console (src/sentinel-command-main/src) makes up and how it *)
(* shows it: the generators of lib/mock.ts and the components of components/soc. *)
(* Random figures are left to the caller; an undefined value is Absent.        *)
EXTENDS Integers, Sequences, FiniteSets, SequencesExt, Lists

CONSTANTS
    Absent,         \* a model value: undefined or null
    SessionIds      \* SESSION_IDS, a sequence

DECISIONS == {"allow", "stepup", "deny"}
SEVERITIES == <<"critical", "high", "medium", "low", "info">>
Top(s, n) == SubSeq(s, 1, Min({n, Len(s)}))

(* mock.ts ********************************************************************)
EventTypes == {"auth.token.issued", "auth.token.revoked", "policy.deny", "policy.allow",
               "policy.stepup", "risk.elevated", "risk.anomaly.detected", "session.replay.suspect",
               "auth.login.success", "auth.login.failed", "ip.geo.shift", "device.new"}

(* Broken variant: a decision the badge has no entry for. *)
decisionForRevoked(type) ==
    CASE type = "policy.deny" -> "deny"
      [] type = "policy.stepup" -> "stepup"
      [] type \in {"policy.allow", "auth.login.success"} -> "allow"
      [] type = "auth.token.revoked" -> "revoke"
      [] OTHER -> Absent

decisionFor(type) ==
    CASE type = "policy.deny" -> "deny"
      [] type = "policy.stepup" -> "stepup"
      [] type \in {"policy.allow", "auth.login.success"} -> "allow"
      [] OTHER -> Absent

severityFor(type) ==
    CASE type \in {"auth.token.revoked", "risk.anomaly.detected", "session.replay.suspect"} -> "critical"
      [] type \in {"policy.deny", "risk.elevated", "auth.login.failed"} -> "high"
      [] type \in {"policy.stepup", "ip.geo.shift", "device.new"} -> "medium"
      [] type = "policy.allow" -> "low"
      [] OTHER -> "info"

genEvent(type, n) ==
    [request |-> n, type |-> type, severity |-> severityFor(type),
     decision |-> decisionFor(type), session |-> SessionIds[1 + (n % Len(SessionIds))]]

(* A field of `base' replaces the generated one, an undefined field too: what   *)
(* `??' has put in the place of a missing decision is overwritten again.       *)
genIncident(request, base) ==
    LET generated == [request  |-> request, real |-> FALSE,
                      decision |-> IF base # Absent /\ base.decision # Absent THEN base.decision
                                   ELSE "deny"]
    IN  IF base = Absent THEN generated ELSE [generated EXCEPT !.decision = base.decision]

ReplayTypes == <<"auth.login.success", "policy.allow", "risk.elevated", "policy.stepup",
                 "auth.token.issued", "policy.deny", "auth.token.revoked">>
genReplay(session) == [session |-> session, real |-> FALSE, types |-> ReplayTypes]
genSessions == SessionIds

(* The platform's health does not depend on the platform. *)
ServiceNames == <<"gateway", "auth-svc", "policy-svc", "risk-svc", "forensics-svc", "sim-svc",
                  "prometheus", "redis">>
genServices ==
    [i \in DOMAIN ServiceNames |->
        [name   |-> ServiceNames[i],
         status |-> CASE i = 5 -> "degraded" [] i = 8 -> "down" [] OTHER -> "healthy",
         uptime |-> CASE i = 5 -> 974 [] i = 8 -> 881 [] OTHER -> 999]]

HeatTypes == <<"policy.deny", "policy.stepup", "auth.login.failed", "risk.elevated",
               "risk.anomaly.detected", "auth.token.revoked">>
genHeatmap(rand) ==
    [t \in DOMAIN HeatTypes |-> [type |-> HeatTypes[t], hours |-> [h \in 1 .. 24 |-> rand[t][h] % 100]]]

genDecisionsSeries(rand) ==
    [h \in 1 .. 24 |-> [hour  |-> h - 1, allow |-> 800 + (rand[h] % 600),
                        stepup |-> 40 + (rand[h] % 90), deny |-> 8 + (rand[h] % 50)]]

RULES == {"impossible-travel", "geo-velocity", "device-untrusted", "ip-rep-low", "tor-exit",
          "burst-mfa-fail", "session-fixation"}
genTopRules(rand) ==
    SetToSortSeq({[rule |-> r, count |-> 20 + (rand[r] % 400)] : r \in RULES},
                 LAMBDA a, b : a.count > b.count)

(* components/soc, pages ******************************************************)
(* Lists are mapped over, a badge looks its decision up in a table: an object   *)
(* in the place of a list, or a decision that is not in the table, throws.     *)
BadgeWorks(inc) == inc = Absent \/ (~inc.real /\ inc.decision \in DECISIONS)
(* Broken variant: an answer of any shape is rendered. *)
ListWorksAnyShape(list) == TRUE

ListWorks(list) == list = Absent \/ ~list.real

Rank(severity) == CHOOSE k \in DOMAIN SEVERITIES : SEVERITIES[k] = severity
SeverityBadge(severity, pulse) == [label |-> severity, pulses |-> pulse /\ severity = "critical"]

(* A row has a badge for its decision only when it has one. *)
EventRow(e) ==
    [request |-> e.request, severity |-> SeverityBadge(e.severity, FALSE),
     decision |-> e.decision, edge |-> e.severity = "critical"]

TimelinePanel(replay) ==
    [i \in DOMAIN replay.types |->
        [type |-> replay.types[i], decision |-> decisionFor(replay.types[i]),
         severity |-> SeverityBadge(severityFor(replay.types[i]), FALSE), delta |-> i > 1]]

(* A cell is coloured by its share of the largest one, an empty map by 1. *)
Heatmap24h(data) ==
    LET max == Max({1} \cup UNION {{data[t].hours[h] : h \in DOMAIN data[t].hours} : t \in DOMAIN data})
        Tone(v) == IF 10 * v > 7 * max THEN "critical"
                   ELSE IF 10 * v > 4 * max THEN "medium" ELSE "accent"
    IN  [t \in DOMAIN data |-> [h \in DOMAIN data[t].hours |-> Tone(data[t].hours[h])]]

ServiceHealthTile(svc) == [name |-> svc.name, status |-> svc.status, ring |-> svc.status = "down"]

(* Operations.tsx: the "live probes" are generated anew every eight seconds. *)
OperationsPage == [i \in DOMAIN genServices |-> ServiceHealthTile(genServices[i])]

ScoreBar(value, tone) ==
    IF value > 70 THEN "critical"
    ELSE IF value > 40 THEN "medium"
    ELSE IF tone = "risk" THEN "accent" ELSE "primary"

(* Heights are thousandths of the span, which is 1 when all values are equal. *)
Sparkline(data) ==
    LET values == {data[i] : i \in DOMAIN data}
        span == IF Max(values) = Min(values) THEN 1 ELSE Max(values) - Min(values)
    IN  [i \in DOMAIN data |-> (1000 * (data[i] - Min(values))) \div span]

(* The figures of the overview are literals, whatever happens on the platform. *)
KpiCard(label, value, better, tone) == [label |-> label, value |-> value, better |-> better, tone |-> tone]
KpiCards == << KpiCard("Deny rate (1h)", "3.4%", FALSE, "danger"),
               KpiCard("Step-up rate", "11.7%", TRUE, "warn"),
               KpiCard("Anomaly p95", "74", FALSE, "danger"),
               KpiCard("Active sessions", "3,481", TRUE, "good") >>

(* The areas of an hour are stacked on each other, the rules are bars. *)
OverviewCharts(series, rules) ==
    [areas |-> [h \in DOMAIN series |->
                  <<series[h].allow, series[h].allow + series[h].stepup,
                    series[h].allow + series[h].stepup + series[h].deny>>],
     bars  |-> [i \in DOMAIN rules |-> rules[i].count]]

PostureRow(label, status, tone) == [label |-> label, status |-> status, tone |-> tone]
PostureSummary == << PostureRow("Identity perimeter", "HARDENED", "good"),
                     PostureRow("Token hygiene", "ATTENTION", "warn"),
                     PostureRow("Network egress", "STABLE", "good"),
                     PostureRow("Active incidents", "3 OPEN", "danger"),
                     PostureRow("Policy drift", "NONE", "good") >>

(* The side bar marks the page that is open; the header always says the same. *)
NAV == <<"/", "/threats", "/sessions", "/forensics", "/operations">>
AppShell(path) ==
    [links |-> [i \in DOMAIN NAV |-> [to |-> NAV[i], active |-> NAV[i] = path]],
     header |-> "All systems streaming"]
=============================================================================
