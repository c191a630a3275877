--------------------------- MODULE SentinelConsole ---------------------------
(* The Sentinel console (src/sentinel-command-main/src): five pages of which     *)
(* one is mounted at a time, the live feed, the incident drawer, and the api     *)
(* module through which they load everything.  With USE_MOCK, the default, a     *)
(* call is answered by a generator at once; without it a call that fails is      *)
(* answered by the same generator, and one that succeeds brings an object of     *)
(* another shape than the pages expect.  No error boundary surrounds the pages:  *)
(* a state that cannot be rendered takes the whole console away.                 *)
EXTENDS SentinelViews

CONSTANTS
    Generated,      \* the types of the events genEvents makes, a sequence
    FEED_LIMIT,     \* rows of the live feed (60)
    ShortId, LongId, Word,   \* three texts an analyst may search for
    Calls,          \* slots for calls in flight: 1 .. n
    MaxMounts       \* bound: pages opened

ASSUME ConBounds == Calls \subseteq Nat /\ 1 \in Calls /\ FEED_LIMIT \in Nat \ {0} /\ MaxMounts \in Nat

VARIABLES
    useMock,        \* the build's USE_MOCK
    path,           \* the page that is mounted
    mounts,         \* how many pages have been
    ui,             \* the state of the mounted page, gone with it
    flying,         \* per call: what it loads
    blank,          \* the console could not be rendered and is gone
    realShown,      \* history: an answer of a service has reached a page
    crossing        \* history: two calls for one panel were in flight together

conVars == <<useMock, path, mounts, ui, flying, blank, realShown, crossing>>

PATHS == {"/", "/threats", "/sessions", "/forensics", "/operations", "*"}

genEvents == [i \in DOMAIN Generated |-> genEvent(Generated[i], i)]

ASSUME GeneratedTypes == Generated \in Seq(STRING)
ASSUME SessionNames == SessionIds \in Seq({SessionIds[i] : i \in DOMAIN SessionIds})
ASSUME ConTexts == Absent \notin {ShortId, LongId} /\ ShortId # LongId /\ Word # LongId

(* What a panel of a page may hold, made up or not, is never Absent. *)
ASSUME AbsentIsNoValue ==
    /\ Absent \notin DECISIONS
    /\ \A i \in DOMAIN genEvents :
          Absent \notin {genEvents[i], genIncident(genEvents[i].request, genEvents[i])}
    /\ \A real \in BOOLEAN :
          /\ [genIncident(ShortId, Absent) EXCEPT !.real = real] # Absent
          /\ [genReplay(LongId) EXCEPT !.real = real] # Absent
    /\ \A i \in DOMAIN SessionIds : Absent \notin {SessionIds[i], genReplay(SessionIds[i])}

(* What a page holds before anything has been loaded. *)
NoRows == [real |-> FALSE, list |-> << >>]
FreshPage ==
    [rows |-> NoRows, paused |-> FALSE, filter |-> "all",
     selected |-> Absent, incident |-> Absent, replay |-> Absent, showReplay |-> FALSE,
     fading |-> FALSE,    \* the drawer has been closed and slides out
     listed |-> << >>, picked |-> Absent, timeline |-> Absent,
     q |-> "", tab |-> "events", asked |-> Absent, found |-> Absent, foundReplay |-> Absent]

NoFlight == [kind |-> "none", arg |-> Absent]
Flight(kind, arg) == [kind |-> kind, arg |-> arg]
Unused(i) == flying[i] = NoFlight /\ \A j \in Calls : j < i => flying[j] # NoFlight
Flying(kinds) == {i \in Calls : flying[i].kind \in kinds}

ConInit ==
    /\ useMock \in BOOLEAN
    /\ path = "*" /\ mounts = 0 /\ ui = FreshPage
    /\ flying = [i \in Calls |-> NoFlight]
    /\ blank = FALSE /\ realShown = FALSE /\ crossing = FALSE

(* Rendering ******************************************************************)
(* A closed drawer is rendered until it has slid out: its title, not its body. *)
DrawerRenders(u) ==
    /\ u.selected # Absent \/ u.fading => BadgeWorks(u.incident)
    /\ u.selected # Absent /\ u.showReplay /\ u.incident # Absent => ListWorks(u.replay)

(* The reasons of the incident found are mapped whichever tab is open (an       *)
(* answer of the service has none); its badge and the replay found are         *)
(* rendered on their tabs only.                                               *)
Renders(u) ==
    /\ ListWorks(u.rows)
    /\ DrawerRenders(u)
    /\ ListWorks(u.timeline)
    /\ u.found = Absent \/ ~u.found.real
    /\ u.tab = "incident" => BadgeWorks(u.found)
    /\ u.tab = "session" => ListWorks(u.foundReplay)

(* A generated answer arrives before anything else can happen.  The drawer is   *)
(* modal: while it is open nothing behind it can be clicked.  While it slides   *)
(* out the page behind it has the keyboard again.                             *)
Settled == ~blank /\ (useMock => Flying({"none"}) = Calls)
CanAct == Settled /\ ui.selected = Absent

Commit(u) == ui' = u /\ blank' = ~Renders(u)

(* Starting a call, in the first slot that is free. *)
BeginCall(i, kind, arg) ==
    /\ Unused(i)
    /\ flying' = [flying EXCEPT ![i] = Flight(kind, arg)]
    /\ crossing' = (crossing \/ Flying({kind}) # {})

(* App.tsx, AppShell.tsx: a route mounts its page, which loads what it shows.   *)
(* Health, sessions, heatmap and the two series are generated in every build.  *)
Loads(p) == CASE p \in {"/", "/threats", "/forensics"} -> Flight("events", Absent)
              [] p = "/sessions" /\ genSessions # << >> -> Flight("sessionReplay", genSessions[1])
              [] OTHER -> NoFlight

NavigateTo(p) ==
    /\ Settled /\ p # path /\ mounts < MaxMounts
    /\ path' = p /\ mounts' = mounts + 1
    /\ Commit(IF p # "/sessions" THEN FreshPage
              ELSE [FreshPage EXCEPT !.listed = genSessions,
                                     !.picked = IF genSessions = << >> THEN Absent ELSE genSessions[1]])
    /\ flying' = [j \in Calls |-> IF j = 1 THEN Loads(p) ELSE NoFlight]
    /\ crossing' = FALSE
    /\ UNCHANGED <<useMock, realShown>>

(* The rows of each page ******************************************************)
(* Threats.tsx: serious events that pass the filter, the most serious first,   *)
(* and the revocations below them.                                            *)
Alerts(u) ==
    LET Serious(e) == e.severity \in {"critical", "high"}
        Passes(e)  == u.filter = "all" \/ e.decision = u.filter
    IN  Top(SortSeq(filter(u.rows.list, LAMBDA e : Serious(e) /\ Passes(e)),
                    LAMBDA a, b : Rank(a.severity) < Rank(b.severity)), 30)

RevocationList(u) == Top(filter(u.rows.list, LAMBDA e : e.type = "auth.token.revoked"), 10)

(* Forensics.tsx: the rows that contain the text typed, and what kind of search *)
(* the text is taken for: by its length alone, when it looks like an id.  The   *)
(* long id is a session's, the short one of no row, the word the first type.   *)
Matches(e, text) == CASE text = Word -> e.type = Generated[1]
                       [] text = LongId -> e.session = LongId
                       [] OTHER -> FALSE

Filtered(u) ==
    Top(filter(u.rows.list, LAMBDA e : u.q = "" \/ Matches(e, u.q)), 60)

detectKind(q) == CASE q = LongId -> "session" [] q = ShortId -> "incident" [] OTHER -> "events"

ClickableRows ==
    CASE path = "/"          -> ui.rows.list
      [] path = "/threats"   -> Alerts(ui) \o RevocationList(ui)
      [] path = "/forensics" -> IF ui.tab = "events" THEN Filtered(ui) ELSE << >>
      [] OTHER               -> << >>

(* LiveFeed.tsx ***************************************************************)
(* Every 3.5 s, unless paused when the timer fires. *)
FeedTick(i) ==
    /\ Settled /\ path = "/" /\ ~ui.paused
    /\ BeginCall(i, "refresh", Absent)
    /\ UNCHANGED <<useMock, path, mounts, ui, blank, realShown>>

TogglePause ==
    /\ CanAct /\ path = "/"
    /\ Commit([ui EXCEPT !.paused = ~@])
    /\ UNCHANGED <<useMock, path, mounts, flying, realShown, crossing>>

(* IncidentDrawer.tsx *********************************************************)
(* The effect on the event: the replay is put away, the incident of the event  *)
(* before stays until the new one arrives.                                    *)
SelectEvent(e, i) ==
    /\ CanAct
    /\ e \in {ClickableRows[k] : k \in DOMAIN ClickableRows}
    /\ Commit([ui EXCEPT !.selected = e, !.showReplay = FALSE, !.replay = Absent,
                         !.fading = FALSE])
    /\ BeginCall(i, "incident", e)
    /\ UNCHANGED <<useMock, path, mounts, realShown>>

onClose ==
    /\ Settled /\ ui.selected # Absent
    /\ Commit([ui EXCEPT !.selected = Absent, !.showReplay = FALSE, !.replay = Absent,
                         !.incident = Absent, !.fading = TRUE])
    /\ UNCHANGED <<useMock, path, mounts, flying, realShown, crossing>>

(* The exit animation, 300 ms, is over. *)
DrawerGone ==
    /\ Settled /\ ui.fading
    /\ Commit([ui EXCEPT !.fading = FALSE])
    /\ UNCHANGED <<useMock, path, mounts, flying, realShown, crossing>>

loadReplay(i) ==
    /\ Settled
    /\ ui.selected # Absent /\ ui.incident # Absent /\ ~ui.showReplay
    /\ BeginCall(i, "replay", ui.selected)
    /\ UNCHANGED <<useMock, path, mounts, ui, blank, realShown>>

(* Threats.tsx, Sessions.tsx, Forensics.tsx: the operator's inputs *************)
SetFilter(f) ==
    /\ CanAct /\ path = "/threats"
    /\ Commit([ui EXCEPT !.filter = f])
    /\ UNCHANGED <<useMock, path, mounts, flying, realShown, crossing>>

(* Broken variant: the replay is loaded for the first session only. *)
PickSessionUnloaded(s, i) ==
    /\ CanAct /\ path = "/sessions" /\ ui.picked # s
    /\ Unused(i)
    /\ Commit([ui EXCEPT !.picked = s])
    /\ UNCHANGED <<useMock, path, mounts, flying, realShown, crossing>>

PickSession(s, i) ==
    /\ CanAct /\ path = "/sessions" /\ ui.picked # s
    /\ Commit([ui EXCEPT !.picked = s, !.timeline = Absent])
    /\ BeginCall(i, "sessionReplay", s)
    /\ UNCHANGED <<useMock, path, mounts, realShown>>

TypeQuery(text) ==
    /\ CanAct /\ path = "/forensics" /\ ui.q # text
    /\ Commit([ui EXCEPT !.q = text, !.tab = detectKind(text)])
    /\ UNCHANGED <<useMock, path, mounts, flying, realShown, crossing>>

ChooseTab(t) ==
    /\ CanAct /\ path = "/forensics"
    /\ Commit([ui EXCEPT !.tab = t])
    /\ UNCHANGED <<useMock, path, mounts, flying, realShown, crossing>>

onSearch(i) ==
    /\ CanAct /\ path = "/forensics"
    /\ Commit([ui EXCEPT !.tab = detectKind(ui.q),
                         !.asked = IF detectKind(ui.q) = "events" THEN @ ELSE ui.q])
    /\ CASE detectKind(ui.q) = "incident" -> BeginCall(i, "findIncident", ui.q)
         [] detectKind(ui.q) = "session"  -> BeginCall(i, "findReplay", ui.q)
         [] OTHER -> UNCHANGED <<flying, crossing>>
    /\ UNCHANGED <<useMock, path, mounts, realShown>>

(* api.ts *********************************************************************)
(* wrap: what a call may be answered with, true for the answer of a service.   *)
(* A service knows none of the ids the generator made up.                     *)
wrap(known) == IF useMock \/ ~known THEN {FALSE} ELSE BOOLEAN

Land(i, kind) ==
    /\ ~blank /\ flying[i].kind = kind
    /\ flying' = [flying EXCEPT ![i] = NoFlight]
    /\ UNCHANGED <<useMock, path, mounts, crossing>>

EventsLanded(i) ==
    /\ Land(i, "events")
    /\ \E real \in wrap(TRUE) :
          /\ Commit([ui EXCEPT !.rows = [real |-> real, list |-> Top(genEvents, FEED_LIMIT)]])
          /\ realShown' = (realShown \/ real)

(* The new rows are put before the old ones by an updater, which React runs     *)
(* when it renders: an answer that is no list throws there.                    *)
RefreshLanded(i) ==
    /\ Land(i, "refresh")
    /\ \E real \in wrap(TRUE), k \in DOMAIN Generated :
          /\ Commit([ui EXCEPT !.rows = [real |-> real,
                                         list |-> Top(<<genEvents[k]>> \o @.list, FEED_LIMIT)]])
          /\ realShown' = (realShown \/ real)

IncidentLanded(i) ==
    /\ Land(i, "incident")
    /\ Commit([ui EXCEPT !.incident = genIncident(flying[i].arg.request, flying[i].arg)])
    /\ UNCHANGED realShown

(* Nothing asks whether the drawer still shows the event the replay is for. *)
DrawerReplayLanded(i) ==
    /\ Land(i, "replay")
    /\ Commit([ui EXCEPT !.replay = genReplay(flying[i].arg.session), !.showReplay = TRUE])
    /\ UNCHANGED realShown

SessionReplayLanded(i) ==
    /\ Land(i, "sessionReplay")
    /\ Commit([ui EXCEPT !.timeline = genReplay(flying[i].arg)])
    /\ UNCHANGED realShown

(* The analyst may type an id the services do know. *)
FoundLanded(i) ==
    /\ Land(i, "findIncident")
    /\ \E real \in wrap(TRUE) :
          /\ Commit([ui EXCEPT !.found = [genIncident(flying[i].arg, Absent) EXCEPT !.real = real]])
          /\ realShown' = (realShown \/ real)

FoundReplayLanded(i) ==
    /\ Land(i, "findReplay")
    /\ \E real \in wrap(TRUE) :
          /\ Commit([ui EXCEPT !.foundReplay = [genReplay(flying[i].arg) EXCEPT !.real = real]])
          /\ realShown' = (realShown \/ real)

Landing(i) ==
    \/ EventsLanded(i) \/ RefreshLanded(i)
    \/ IncidentLanded(i) \/ DrawerReplayLanded(i)
    \/ SessionReplayLanded(i)
    \/ FoundLanded(i) \/ FoundReplayLanded(i)

ConNext ==
    \/ \E p \in PATHS : NavigateTo(p)
    \/ \E i \in Calls : FeedTick(i) \/ loadReplay(i) \/ onSearch(i) \/ Landing(i)
    \/ TogglePause \/ onClose \/ DrawerGone
    \/ \E k \in DOMAIN Generated, i \in Calls : SelectEvent(genEvents[k], i)
    \/ \E f \in {"all", "deny", "stepup"} : SetFilter(f)
    \/ \E k \in DOMAIN SessionIds, i \in Calls : PickSession(SessionIds[k], i)
    \/ \E text \in {"", ShortId, LongId, Word} : TypeQuery(text)
    \/ \E t \in {"events", "incident", "session"} : ChooseTab(t)

ConSpec == ConInit /\ [][ConNext]_conVars

-----------------------------------------------------------------------------
(* Every variable of the console keeps its type. *)
ConTypeOK ==
    /\ path \in PATHS /\ mounts \in 0 .. MaxMounts
    /\ {useMock, blank, realShown, crossing, ui.paused, ui.showReplay,
       ui.fading} \subseteq BOOLEAN
    /\ Len(ui.rows.list) <= FEED_LIMIT
    /\ ui.tab \in {"events", "incident", "session"}
    /\ Flying({"none", "events", "refresh", "incident", "replay", "sessionReplay",
               "findIncident", "findReplay"}) = Calls

(* What the console shows is made up, in every build: it never displays an      *)
(* answer of a service.  Rows or an incident that arrive take the console down  *)
(* at once; only a replay searched for can wait unseen behind another tab, and  *)
(* takes it down when its own is opened.  The services of the operations page, *)
(* which it calls "Live probes against /api/*/health" (Operations.tsx:20), are  *)
(* among what is made up: api.health asks nobody in any build (api.ts:31).     *)
OnlyFabricated ==
    LET onTab == IF ui.tab = "session" THEN {ui.foundReplay} ELSE {}
    IN  ~blank => \A panel \in {ui.rows, ui.incident, ui.replay, ui.timeline, ui.found} \cup onTab :
                      panel = Absent \/ ~panel.real

(* There are two ways to lose the console and no third: an answer of a service  *)
(* that reaches a page, which takes a build without USE_MOCK, and the incident  *)
(* of an event that carried no decision: the event in the drawer or, without    *)
(* USE_MOCK, one whose incident came after its drawer was closed - while that   *)
(* was still sliding out, or to be found by the next one opened.               *)
BlankHasACause ==
    blank => \/ realShown /\ ~useMock
             \/ /\ ui.incident.decision = Absent
                /\ ui.selected # Absent \/ (ui.fading /\ ~useMock)
                /\ useMock => ui.selected.decision = Absent

(* "Click any event for forensics" (Overview.tsx:94): the drawer of an event    *)
(* chosen on the overview can be shown.  False of the code, with USE_MOCK too:  *)
(* eight of the twelve generated types carry no decision (mock.ts:35-40).      *)
EventsCanBeOpened == useMock /\ path = "/" /\ ui.selected # Absent => ~blank

(* Each panel belongs to what is selected next to it, once nothing is on its    *)
(* way: the incident to the drawer's event, with the decision its row shows,   *)
(* the timeline to the session, the search results to the text searched for    *)
(* last - unless two calls for one panel have crossed, which generated answers *)
(* never do.  The drawer's replay is that of its event only with generated     *)
(* answers: a late one is taken over by whatever event is open by then.        *)
PanelsMatchSelection ==
    /\ useMock => ~crossing
    /\ useMock /\ ui.showReplay => ui.selected # Absent /\ ui.replay.session = ui.selected.session
    /\ ~crossing /\ Flying({"none"}) = Calls =>
          /\ ui.selected # Absent =>
                /\ ui.incident # Absent /\ ui.incident.request = ui.selected.request
                /\ ui.incident.decision = EventRow(ui.selected).decision
          /\ ui.picked # Absent => ui.timeline # Absent /\ ui.timeline.session = ui.picked
          /\ ui.asked = ShortId => ui.found # Absent /\ ui.found.request = ui.asked
          /\ ui.asked = LongId => ui.foundReplay # Absent /\ ui.foundReplay.session = ui.asked
=============================================================================
