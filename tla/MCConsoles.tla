------------------------------ MODULE MCConsoles ------------------------------
(* What works beside the request path: the two operator consoles, the attack    *)
(* simulator, the audit trail and the anomaly service's model.  They share no    *)
(* state and are checked in one run: `focus' says which of them moves, and the   *)
(* others stay in one initial state.                                           *)
EXTENDS SocPolling, SocWorkspace, SocInspector, SocSimulator, SentinelConsole,
        SimConsole, ToastQueue, TelemetryPipeline, AnomalyModel

VARIABLE focus
Foci == {"polling", "views", "workspace", "inspector", "simulator", "sentinel", "exercises",
         "toasts", "audit", "models"}

Event(type, decision, risk, anomaly, session) ==
    [type |-> type, decision |-> decision, risk |-> risk, anomaly |-> anomaly,
     session |-> session, user |-> "u", request |-> "r1"]
At(event, n) == event @@ [id |-> n, at |-> n]

Denial   == Event("policy_decision", "deny", NoScore, NoScore, None)
FailOpen == Event("policy_decision", "fail_open", 30, 20, "s1")
Calm     == Event("risk_eval", None, 0, 0, "s2")
Anomaly  == Event("risk_eval", None, 80, 90, "s1")

MCEventKinds == {Denial, FailOpen, Calm, Anomaly}
MCMetricAnswers == {[dpm |-> 100, denyPct |-> 30, anmPct |-> 1]}
MCHealthAnswers == {[s \in SERVICES |-> IF s = "opa" THEN "degraded" ELSE "ok"],
                    [s \in SERVICES |-> IF s = "opa" THEN "ok" ELSE "down"]}
MCListed == <<At(Calm, 3), At(Denial, 2), At(Anomaly, 1)>>
MCScripts == <<"a">>
MCSessionIds == <<"s1", "s2">>
MCGenerated == <<"policy.deny", "auth.token.revoked">>
MCType == [e \in Events |-> IF e = "revocation" THEN "token_revocation" ELSE "risk_eval"]

(* What the pure views compute, over small inputs: the spark line spans its box  *)
(* or is flat, the heatmap colours its largest cell whatever the scale, the rules *)
(* come by count, one link of the side bar is active, a score's colour never gets *)
(* milder as it grows, and the shade of the SOC heatmap follows the count.      *)
ASSUME SparklineFills ==
    \A data \in [1 .. 3 -> 0 .. 3] :
        {Sparkline(data)[i] : i \in 1 .. 3} \cap {0, 1000}
            = IF data[1] = data[2] /\ data[2] = data[3] THEN {0} ELSE {0, 1000}
ASSUME LargestIsCritical ==
    \A hours \in [1 .. 3 -> 0 .. 3] :
        LET tones == Heatmap24h(<<[type |-> "t", hours |-> hours]>>)[1]
        IN  \A h \in 1 .. 3 : (hours[h] > 0 /\ \A k \in 1 .. 3 : hours[k] <= hours[h])
                                  => tones[h] = "critical"
ASSUME RulesByCount ==
    LET top == genTopRules([r \in RULES |-> IF r = "tor-exit" THEN 399 ELSE 7])
    IN  top[1].rule = "tor-exit" /\ Len(top) = Cardinality(RULES)
ASSUME OneActiveLink ==
    \A p \in PATHS : Cardinality({i \in DOMAIN NAV : AppShell(p).links[i].active})
                        = IF p = "*" THEN 0 ELSE 1
ASSUME ColoursAreMonotone ==
    LET soc == <<"green", "accent", "amber", "red">>
        Rung(scale, c) == CHOOSE i \in DOMAIN scale : scale[i] = c
    IN  \A a, b \in 0 .. 100 : a <= b =>
            /\ Rung(soc, riskColor(a)) <= Rung(soc, riskColor(b))
            /\ \A tone \in {"risk", "anomaly"} :
                  ScoreBar(b, tone) \notin {"medium", "critical"}
                      => ScoreBar(a, tone) = ScoreBar(b, tone)
ASSUME ShadeFollowsCount ==
    \A most \in 1 .. 5 : \A a, b \in 0 .. most : a <= b => Shade(a, most) <= Shade(b, most)
(* Only a service that is down has a ring; only the last step of a replay is    *)
(* critical; no bar of the stat cards is longer than its card.                 *)
ASSUME TilesAndBars ==
    /\ \A i \in DOMAIN OperationsPage : OperationsPage[i].ring <=> genServices[i].uptime < 900
    /\ \A i \in DOMAIN ReplayTypes :
          TimelinePanel(genReplay("s1"))[i].severity.label = "critical" => i = Len(ReplayTypes)
    /\ \A n \in NoScore .. 300 :
          LET cards == StatCards([dpm |-> n, denyPct |-> n, anmPct |-> n], NoSessions)
          IN  {cards.dpmBar, cards.denyBar, cards.anmBar, cards.sessionBar} \subseteq 0 .. 100

(* A relative time is right to half a unit, whatever the boundary it is next to. *)
ASSUME RelTimeIsClose ==
    \A ms \in 59400 .. 60600 \cup 3569990 .. 3570010 \cup {3599999, 3600000, 5399999, 5400000} :
        LET says == relTime(ms).n * relTime(ms).unit
        IN  says - ms \in -(relTime(ms).unit \div 2) .. relTime(ms).unit \div 2
(* The generated events the incident of which cannot be says: most of them. *)
ASSUME Undecided ==
    2 * Cardinality({t \in EventTypes : decisionFor(t) = Absent}) > Cardinality(EventTypes)
(* What is made up stays plausible: no hour is without an area of each colour;   *)
(* no cell of the heatmap is off its scale; a figure of the overview is alarming *)
(* exactly when it got worse; one posture always is.                          *)
ASSUME PlausibleFigures ==
    LET rand == [h \in 1 .. 24 |-> 37 * h]
        map  == genHeatmap([t \in DOMAIN HeatTypes |-> rand])
        drawn == OverviewCharts(genDecisionsSeries(rand), genTopRules([r \in RULES |-> 37]))
    IN  /\ \A h \in 1 .. 24 : drawn.areas[h][1] < drawn.areas[h][2] /\ drawn.areas[h][2] < drawn.areas[h][3]
        /\ \A t \in DOMAIN map : \A h \in 1 .. 24 : map[t].hours[h] \in 0 .. 99
        /\ \A i \in DOMAIN KpiCards : KpiCards[i].better <=> KpiCards[i].tone # "danger"
        /\ \E i \in DOMAIN PostureSummary : PostureSummary[i].tone = "danger"

(* Each part with what it leaves alone. *)
OnlyPoll == UNCHANGED <<focus, workVars, inspVars, simVars, conVars, exVars, toastVars, telVars, anVars>>
OnlyWork == UNCHANGED <<focus, pollVars, inspVars, simVars, conVars, exVars, toastVars, telVars, anVars>>
OnlyInsp == UNCHANGED <<focus, pollVars, workVars, simVars, conVars, exVars, toastVars, telVars, anVars>>
OnlySim  == UNCHANGED <<focus, pollVars, workVars, inspVars, conVars, exVars, toastVars, telVars, anVars>>
OnlyCon  == UNCHANGED <<focus, pollVars, workVars, inspVars, simVars, exVars, toastVars, telVars, anVars>>
OnlyEx   == UNCHANGED <<focus, pollVars, workVars, inspVars, simVars, conVars, toastVars, telVars, anVars>>
OnlyTst  == UNCHANGED <<focus, pollVars, workVars, inspVars, simVars, conVars, exVars, telVars, anVars>>
OnlyTel  == UNCHANGED <<focus, pollVars, workVars, inspVars, simVars, conVars, exVars, toastVars, anVars>>
OnlyAn   == UNCHANGED <<focus, pollVars, workVars, inspVars, simVars, conVars, exVars, toastVars, telVars>>

allVars == <<focus, pollVars, workVars, inspVars, simVars, conVars, exVars, toastVars, telVars, anVars>>

(* "polling": overlapping polls, two equal events, no time.  "views": all kinds  *)
(* of events at different times, recorded before a single poll whose legs end   *)
(* one after the other and whose events arrive.                               *)
Overlapping ==
    /\ OnlyPoll
    /\ now' = 0 /\ Len(log') <= 2
    /\ \A i \in DOMAIN log' : log'[i].type = "risk_eval"
OnePoll ==
    LET stage(l) == leg'[1][l]
    IN  /\ OnlyPoll
        /\ \A p \in Polls \ {1} : leg'[p] = NotPolling
        /\ InFlight(1)' => UNCHANGED world
        /\ ~InFlight(1) => connecting
        /\ stage("events") \in {"sent", "body"} => stage("health") = "sent"
        /\ stage("events") = "done" => events' = Page(log)
        /\ stage("health") = "sent" => stage("metrics") = "sent"

(* The other parts are cut where nothing new can happen: once calls of one      *)
(* operator have crossed he only waits for their answers, the two tabs and the  *)
(* two audit events, which are alike, start in one order; nothing is claimed of *)
(* models once trainings contend, so of two alike trainers the second only     *)
(* starts to contend, and bytes are told apart only of one bundle.             *)
WorkPart == IF raced THEN \E i \in Replays : ReplayAnswers(i) \/ ReplayFails(i) ELSE WorkNext
InspPart == IF crossed THEN \E i \in Searches : SearchStep(i) ELSE InspNext
ConPart  == IF crossing THEN \E i \in Calls : Landing(i) ELSE ConNext
SimPart  == SimNext /\ simRunningType'[2] # "all" /\ (runs = 0 => myRun'[2] = 0)
TelPart  == TelNext /\ (post'["revocation"] = "new" => post'["evaluation"] = "new")
AnPart   ==
    /\ ~contended /\ AnNext
    /\ \A v \in Versions : pkl'[v].copy = 2 => pkl[v] \in {pkl'[v], [pkl'[v] EXCEPT !.copy = 1]}
    /\ job'["manual"].at \notin {"off", "idle"} => contended'

MCNext ==
    \/ focus = "polling" /\ PollNext /\ Overlapping
    \/ focus = "views" /\ PollNext /\ OnePoll
    \/ focus = "workspace" /\ WorkPart /\ OnlyWork
    \/ focus = "inspector" /\ InspPart /\ OnlyInsp
    \/ focus = "simulator" /\ SimPart /\ OnlySim
    \/ focus = "sentinel" /\ ConPart /\ OnlyCon
    \/ focus = "exercises" /\ ExNext /\ OnlyEx
    \/ focus = "toasts" /\ ToastNext /\ OnlyTst
    \/ focus = "audit" /\ TelPart /\ OnlyTel
    \/ focus = "models" /\ AnPart /\ OnlyAn

MCInit ==
    /\ focus \in Foci
    /\ PollInit /\ WorkInit /\ InspInit /\ SimInit /\ ConInit /\ ExInit /\ ToastInit /\ TelInit /\ AnInit
    /\ focus # "workspace" => hash = None
    /\ focus # "sentinel" => useMock
    /\ focus # "exercises" => mocked
    /\ focus # "audit" => tokenOk /\ \A e \in Events : detailRows[e] = 0

MCSpec == MCInit /\ [][MCNext]_allVars

(* What must end, under the fairness of the part it is about. *)
PollingWF ==
    /\ WF_pollVars(focus = "polling" /\ (\E p \in Polls : pollAll(p)))
    /\ \A p \in Polls : WF_pollVars(focus = "polling" /\ LegStep(p))
    /\ SF_pollVars(focus = "polling" /\ (\E p \in Polls : EventsHeaders(p)))
    /\ SF_pollVars(focus = "polling" /\ (\E p \in Polls : EventsLand(p)))
SimulatorWF ==
    /\ \A t \in Tabs : WF_simVars(focus = "simulator" /\ CallStep(t))
    /\ \A r \in Runs : WF_simVars(focus = "simulator" /\ GeneratorStep(r))
AuditWF ==
    /\ WF_telVars(focus = "audit" /\ ThreadTakes)
    /\ \A e \in Events : WF_telVars(focus = "audit" /\ ThreadStep(e))
ModelsWF ==
    /\ WF_anVars(focus = "models" /\ ~contended /\ StartupStep)
    /\ WF_anVars(focus = "models" /\ ~contended /\ LoadStep("main"))
    /\ WF_anVars(focus = "models" /\ ~contended /\ ReloadStep)
    /\ WF_anVars(focus = "models" /\ ~contended /\ Tick)
    /\ \A a \in Threads : WF_anVars(focus = "models" /\ ~contended /\ TrainStep(a))

LiveFoci == {"polling", "simulator", "audit", "models"}
LiveInit == MCInit /\ focus \in LiveFoci
LiveSpec == LiveInit /\ [][MCNext]_allVars /\ PollingWF /\ SimulatorWF /\ AuditWF /\ ModelsWF

(* Every variable of every part keeps its type. *)
ConsolesTypeOK ==
    /\ PollTypeOK /\ WorkTypeOK /\ InspTypeOK /\ SimTypeOK
    /\ ConTypeOK /\ ExTypeOK /\ ToastTypeOK /\ TelTypeOK /\ AnTypeOK
=============================================================================
