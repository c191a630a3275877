---------------------------- MODULE SocInspector ----------------------------
(* The policy and forensics inspector of the SOC dashboard                      *)
(* (src/services/dashboard/src/App.jsx): a search asks for events, then, by its *)
(* type, for an incident or for a replay, and fills three panels on three tabs. *)
(* Nothing disables the button while a search runs, so searches overlap.       *)
EXTENDS SocViews

CONSTANTS
    Searches,        \* the searches that may be in flight together
    Values,          \* what the operator types
    Recorded,        \* the events in the database, newest first
    Incidents        \* the request ids that have a policy decision on record

ASSUME RecordedEvents == Recorded \in Seq({Recorded[i] : i \in DOMAIN Recorded})

VARIABLES
    inspectorType, inspectorValue, inspectorTab,
    inspectorEvents, inspectorIncident, inspectorSession,
    search,          \* per search: what it asks for and which answer it waits for
    lastSearch,      \* history: what the last search asked for
    crossed          \* history: a search was started while another was in flight

inputs == <<inspectorType, inspectorValue>>
panels == <<inspectorEvents, inspectorIncident, inspectorSession>>
inspVars == <<inputs, inspectorTab, panels, search, lastSearch, crossed>>

TYPES == {"user_id", "session_id", "request_id", "event_type"}
TABS == {"events", "incident", "session"}
Blank == ""
Query(t, v) == [type |-> t, value |-> v]
NoQuery == Query("user_id", Blank)
NoSearch == [query |-> NoQuery, waits |-> "nothing"]

(* What the forensics service knows (external). *)
Field(t) == CASE t = "user_id" -> "user" [] t = "session_id" -> "session"
              [] t = "request_id" -> "request" [] t = "event_type" -> "type"
EventsOf(q) == filter(Recorded, LAMBDA ev : ev[Field(q.type)] = q.value)

InspInit ==
    /\ inspectorType = "user_id" /\ inspectorValue = Blank /\ inspectorTab = "events"
    /\ inspectorEvents = << >> /\ inspectorIncident = Blank /\ inspectorSession = << >>
    /\ search = [i \in Searches |-> NoSearch]
    /\ lastSearch = NoQuery /\ crossed = FALSE

(* The operator's inputs are read when a search starts, not when it ends. *)
ChooseType(t) ==
    /\ inspectorType' = t
    /\ UNCHANGED <<inspectorValue, inspectorTab, panels, search, lastSearch, crossed>>

TypeValue(v) ==
    /\ inspectorValue' = v
    /\ UNCHANGED <<inspectorType, inspectorTab, panels, search, lastSearch, crossed>>

ClickTab(t) ==
    /\ inspectorTab' = t
    /\ UNCHANGED <<inputs, panels, search, lastSearch, crossed>>

(* Broken variant: the incident of the search before is left on its tab. *)
ClearedButIncident ==
    inspectorEvents' = << >> /\ inspectorSession' = << >> /\ UNCHANGED inspectorIncident

Cleared == inspectorEvents' = << >> /\ inspectorIncident' = Blank /\ inspectorSession' = << >>

runInspectorSearch(i) ==
    /\ inspectorValue # Blank
    /\ search[i] = NoSearch
    /\ inspectorTab' = "events"
    /\ Cleared
    /\ lastSearch' = Query(inspectorType, inspectorValue)
    /\ search' = [search EXCEPT ![i] = [query |-> lastSearch', waits |-> "events"]]
    /\ crossed' = (crossed \/ \E j \in Searches : search[j] # NoSearch)
    /\ UNCHANGED inputs

SecondCall(t) == CASE t = "request_id" -> "incident" [] t = "session_id" -> "replay" [] OTHER -> "nothing"

EventsAnswer(i) ==
    LET q == search[i].query
    IN  /\ search[i].waits = "events"
        /\ inspectorEvents' = EventsOf(q)
        /\ search' = [search EXCEPT ![i] =
                         IF SecondCall(q.type) = "nothing" THEN NoSearch
                         ELSE [query |-> q, waits |-> SecondCall(q.type)]]
        /\ UNCHANGED <<inputs, inspectorTab, inspectorIncident, inspectorSession, lastSearch, crossed>>

IncidentAnswer(i) ==
    /\ search[i].waits = "incident"
    /\ search[i].query.value \in Incidents
    /\ inspectorIncident' = search[i].query.value
    /\ inspectorTab' = "incident"
    /\ search' = [search EXCEPT ![i] = NoSearch]
    /\ UNCHANGED <<inputs, inspectorEvents, inspectorSession, lastSearch, crossed>>

SessionAnswer(i) ==
    /\ search[i].waits = "replay"
    /\ EventsOf(search[i].query) # << >>
    /\ inspectorSession' = Reverse(EventsOf(search[i].query))
    /\ inspectorTab' = "session"
    /\ search' = [search EXCEPT ![i] = NoSearch]
    /\ UNCHANGED <<inputs, inspectorEvents, inspectorIncident, lastSearch, crossed>>

(* A call fails, or answers 404: only the list of events is emptied. *)
SearchFails(i) ==
    /\ search[i] # NoSearch
    /\ inspectorEvents' = << >>
    /\ search' = [search EXCEPT ![i] = NoSearch]
    /\ UNCHANGED <<inputs, inspectorTab, inspectorIncident, inspectorSession, lastSearch, crossed>>

SearchStep(i) == EventsAnswer(i) \/ IncidentAnswer(i) \/ SessionAnswer(i) \/ SearchFails(i)

InspNext ==
    \/ \E t \in TYPES : ChooseType(t)
    \/ \E v \in Values : TypeValue(v)
    \/ \E t \in TABS : ClickTab(t)
    \/ \E i \in Searches : runInspectorSearch(i)
    \/ \E i \in Searches : SearchStep(i)

InspSpec == InspInit /\ [][InspNext]_inspVars

-----------------------------------------------------------------------------
(* The panel of the tab that is selected. *)
EventTable == [i \in DOMAIN inspectorEvents |->
                  LET ev == inspectorEvents[i]
                  IN  [event |-> ev.id, badge |-> decisionClass(ev.decision), color |-> riskColor(ev.risk)]]

IncidentGrid == [request |-> inspectorIncident, empty |-> inspectorIncident = Blank]

SessionTimeline == TimelineRows(inspectorSession, TRUE)

(* Every variable of the inspector keeps its type. *)
InspTypeOK ==
    /\ inspectorType \in TYPES /\ inspectorTab \in TABS
    /\ inspectorValue \in Values \cup {Blank}
    /\ inspectorIncident \in Values \cup {Blank}
    /\ \A i \in Searches : search[i].waits \in {"nothing", "events", "incident", "replay"}
    /\ crossed \in BOOLEAN

(* Whatever is on the three panels answers the last search, and is on a panel  *)
(* that search fills: the panels never mix two searches, and an incident or a  *)
(* timeline is never there without the events of the same search, unless       *)
(* searches overlapped - whatever the operator types or clicks meanwhile.      *)
PanelsAreOfLastSearch ==
    LET found == EventsOf(lastSearch)
        shown == {EventTable[i].event : i \in DOMAIN EventTable}
        all   == {found[i].id : i \in DOMAIN found}
    IN  ~crossed =>
            /\ shown \in {{}, all}
            /\ ~IncidentGrid.empty =>
                  /\ lastSearch = Query("request_id", IncidentGrid.request)
                  /\ shown = all
            /\ SessionTimeline # << >> =>
                  /\ lastSearch.type = "session_id" /\ shown = all
                  /\ {SessionTimeline[i].event : i \in DOMAIN SessionTimeline} = all
=============================================================================
