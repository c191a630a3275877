---------------------------- MODULE SocWorkspace ----------------------------
(* What one operator does with the SOC dashboard besides watching it            *)
(* (src/services/dashboard/src/App.jsx): pages by URL hash, the incident drawer, *)
(* session replay, and the three charts of the overview, which are made once,   *)
(* when the page mounts.                                                       *)
EXTENDS SocViews

CONSTANTS
    Listed,        \* the events the dashboard holds, newest first
    Controllers,   \* the chart controllers registered with chart.js: none, in this source
    Replays,       \* the replay calls that may be in flight together
    MaxVisits      \* bound: times the overview is rendered anew

ASSUME ListedEvents ==
    /\ Listed \in Seq({Listed[i] : i \in DOMAIN Listed})
    /\ \A i \in DOMAIN Listed :
          /\ Listed[i].type \in EVENT_TYPES /\ Listed[i].at \in Nat
          /\ {Listed[i].risk, Listed[i].anomaly} \subseteq Scores
ASSUME VisitBound == MaxVisits \in Nat

VARIABLES
    page,          \* "loading", "up", or "blank": React removed the tree after an error
    hash,          \* the URL hash; None when there is none
    hashChanges,   \* a hashchange event is waiting to be handled
    route,
    canvas,        \* which canvases are on screen: the visit they belong to, 0 for none
    visits,        \* how often the overview has been rendered anew
    charts,        \* per chart: the canvas it was made on, 0 before
    drawerOpen, drawerEvent,
    timelineSessionId, timeline,
    replay,        \* per call: the session asked for, NoCall when none is in flight
    raced          \* history: a replay was asked for while another was in flight

drawer == <<drawerOpen, drawerEvent>>
panel == <<timelineSessionId, timeline>>
browser == <<page, hash, hashChanges, route, canvas, visits, charts>>
workVars == <<browser, drawer, panel, replay, raced>>

ROUTES == {"overview", "threats", "sessions", "forensics", "operations"}
CHART_TYPES == [risk |-> "doughnut", anomaly |-> "line", decisions |-> "doughnut"]
NoEvent == [id |-> 0, type |-> None, decision |-> None, risk |-> NoScore,
            anomaly |-> NoScore, session |-> None, user |-> None, at |-> 0]
NoCall == "idle"
Calling == {i \in Replays : replay[i] # NoCall}

routeFromHash(h) == IF h \in ROUTES THEN h ELSE "overview"

(* The page is rendered with this route first, before it has looked at the hash. *)
FirstRoute(h) == "overview"

WorkInit ==
    /\ page = "loading"
    /\ hash \in ROUTES \cup {None, "other"}
    /\ hashChanges = FALSE /\ route = FirstRoute(hash)
    /\ canvas = 0 /\ visits = 0 /\ charts = [c \in DOMAIN CHART_TYPES |-> 0]
    /\ drawerOpen = FALSE /\ drawerEvent = NoEvent
    /\ timelineSessionId = None /\ timeline = << >>
    /\ replay = [i \in Replays |-> NoCall] /\ raced = FALSE

(* Showing another page takes the overview's canvases away; coming back puts   *)
(* new ones there.                                                            *)
ShowRoute(r) ==
    /\ route' = r
    /\ canvas' = CASE r # "overview" -> 0
                   [] r = "overview" /\ canvas # 0 -> canvas
                   [] OTHER -> visits + 1
    /\ visits' = IF r = "overview" /\ canvas = 0 THEN visits + 1 ELSE visits

SetHash(h) ==
    /\ hash' = h
    /\ hashChanges' = (hashChanges \/ h # hash)

(* The first commit and its effects, in their order: the hash is filled in and *)
(* read, then each chart is made on its canvas if that is on screen.  A chart  *)
(* type without a controller throws, and no error boundary catches it.  The    *)
(* source registers elements, scales and plugins but no controller             *)
(* (Controllers = {}): as it is, the page ends here.  What follows Mount is the *)
(* page of a build that registers the two.                                    *)
Mount ==
    /\ page = "loading"
    /\ SetHash(IF hash = None THEN "overview" ELSE hash)
    /\ route' = routeFromHash(hash')
    /\ LET onScreen == IF route = "overview" THEN 1 ELSE 0
       IN  /\ charts' = [c \in DOMAIN charts |->
                            IF CHART_TYPES[c] \in Controllers THEN onScreen ELSE 0]
           /\ page' = IF onScreen = 1 /\ \E c \in DOMAIN charts : CHART_TYPES[c] \notin Controllers
                      THEN "blank" ELSE "up"
           /\ canvas' = IF route' = "overview" THEN 1 ELSE 0
    /\ visits' = 1
    /\ UNCHANGED <<drawer, panel, replay, raced>>

(* Pages **********************************************************************)
Navigate(r) ==
    /\ page = "up" /\ visits < MaxVisits
    /\ SetHash(r)
    /\ UNCHANGED <<page, route, canvas, visits, charts, drawer, panel, replay, raced>>

HashChanged ==
    /\ page = "up" /\ hashChanges
    /\ hashChanges' = FALSE
    /\ ShowRoute(routeFromHash(hash))
    /\ UNCHANGED <<page, hash, charts, drawer, panel, replay, raced>>

(* The drawer *****************************************************************)
(* An event row is a button in the feed of the overview and has one in the     *)
(* table of the inspector.                                                    *)
EventRows == CASE route = "overview"  -> {Listed[i] : i \in DOMAIN FeedRows(Listed)}
               [] route = "forensics" -> {Listed[i] : i \in DOMAIN Listed}
               [] OTHER -> {}

openEvent(ev) ==
    /\ page = "up" /\ ev \in EventRows
    /\ drawerEvent' = ev /\ drawerOpen' = TRUE
    /\ UNCHANGED <<browser, panel, replay, raced>>

(* The Close button, or the Escape key. *)
CloseDrawer ==
    /\ page = "up" /\ drawerOpen
    /\ drawerOpen' = FALSE
    /\ UNCHANGED <<drawerEvent, browser, panel, replay, raced>>

(* Replay *********************************************************************)
SessionsListed == {SessionRows(rollup(Listed))[i].session : i \in DOMAIN SessionRows(rollup(Listed))}
ReplayButtons ==
    (IF route = "sessions" THEN SessionsListed ELSE {})
    \cup (IF drawerOpen THEN {DrawerFields(drawerEvent).session} ELSE {})

(* Broken variant: the rows of the session before stay until the answer. *)
replaySessionKeepsRows(i, s) ==
    /\ page = "up" /\ s \in ReplayButtons
    /\ replay[i] = NoCall
    /\ replay' = [replay EXCEPT ![i] = s]
    /\ raced' = (raced \/ Calling # {})
    /\ timelineSessionId' = s
    /\ UNCHANGED <<timeline, browser, drawer>>

replaySession(i, s) ==
    /\ page = "up" /\ s \in ReplayButtons
    /\ replay[i] = NoCall
    /\ replay' = [replay EXCEPT ![i] = s]
    /\ raced' = (raced \/ Calling # {})
    /\ timelineSessionId' = s
    /\ timeline' = << >>
    /\ UNCHANGED <<browser, drawer>>

(* The forensics service answers with the session's events, oldest first. *)
TimelineOf(s) == Reverse(filter(Listed, LAMBDA ev : ev.session = s))

(* Broken variant: the page is changed and the address is not. *)
ReplayAnswersOffHash(i) ==
    /\ page = "up"
    /\ replay[i] \notin {NoCall, None}
    /\ replay' = [replay EXCEPT ![i] = NoCall]
    /\ timeline' = TimelineOf(replay[i])
    /\ ShowRoute("sessions")
    /\ UNCHANGED <<page, hash, hashChanges, charts, drawer, timelineSessionId, raced>>

ReplayAnswers(i) ==
    /\ page = "up"
    /\ replay[i] \notin {NoCall, None}
    /\ replay' = [replay EXCEPT ![i] = NoCall]
    /\ timeline' = TimelineOf(replay[i])
    /\ ShowRoute("sessions")
    /\ SetHash("sessions")
    /\ UNCHANGED <<page, charts, drawer, timelineSessionId, raced>>

(* An event without a session asks for the session `null', which is not there. *)
ReplayFails(i) ==
    /\ page = "up" /\ replay[i] # NoCall
    /\ replay' = [replay EXCEPT ![i] = NoCall]
    /\ timeline' = << >>
    /\ UNCHANGED <<browser, drawer, timelineSessionId, raced>>

WorkNext ==
    \/ Mount
    \/ \E r \in ROUTES \cup {"other"} : Navigate(r)
    \/ HashChanged
    \/ \E i \in DOMAIN Listed : openEvent(Listed[i])
    \/ CloseDrawer
    \/ \E i \in Replays, s \in ReplayButtons : replaySession(i, s)
    \/ \E i \in Replays : ReplayAnswers(i) \/ ReplayFails(i)

WorkSpec == WorkInit /\ [][WorkNext]_workVars

-----------------------------------------------------------------------------
(* The panel under the session table: absent, waiting (or failed: the two look *)
(* the same), or one row per event.                                           *)
ReplayPanel ==
    [title |-> timelineSessionId,
     says  |-> IF timelineSessionId # None /\ timeline = << >> THEN "Loading timeline..." ELSE None,
     rows  |-> IF timelineSessionId = None THEN << >> ELSE TimelineRows(timeline, FALSE)]

(* Every variable of the workspace keeps its type. *)
WorkTypeOK ==
    /\ page \in {"loading", "up", "blank"}
    /\ hash \in ROUTES \cup {None, "other"} /\ route \in ROUTES
    /\ {hashChanges, drawerOpen, raced} \subseteq BOOLEAN
    /\ visits \in 0 .. MaxVisits + 1 /\ canvas \in 0 .. visits
    /\ \A c \in DOMAIN charts : charts[c] \in 0 .. 1
    /\ drawerOpen => drawerEvent \in {Listed[i] : i \in DOMAIN Listed}
    /\ \A i \in Replays : replay[i] \in {NoCall, None} \cup {Listed[j].session : j \in DOMAIN Listed}

(* The session in the title is the session of every row below it, unless a     *)
(* replay was raced for while another was in flight: then the later answer     *)
(* fills the panel, whichever session it is of.                               *)
TimelineIsOfItsSession ==
    ~raced => /\ \A i \in DOMAIN timeline : timeline[i].session = timelineSessionId
              /\ \A i \in DOMAIN ReplayPanel.rows : ReplayPanel.rows[i].event \in
                    {Listed[j].id : j \in {k \in DOMAIN Listed : Listed[k].session = timelineSessionId}}

(* The page shown is the one the address bar names, once the hash changes have *)
(* been handled: replay moves the operator and the address together.           *)
RouteFollowsHash == page = "up" /\ ~hashChanges => route = routeFromHash(hash)

(* "Avg Risk Score", "Anomaly Score Trend" and "Decision Distribution"          *)
(* (App.jsx:766, 778, 784): the overview the page opens with shows three charts, *)
(* each on the canvas under its title.  False of the code, which registers no   *)
(* controller for them (App.jsx:13).                                          *)
OverviewHasItsCharts ==
    page # "loading" /\ visits = 1 /\ route = "overview"
        => page = "up" /\ \A c \in DOMAIN charts : charts[c] = canvas
=============================================================================
