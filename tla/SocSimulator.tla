---------------------------- MODULE SocSimulator ----------------------------
(* Attack simulation control: the panel of the SOC dashboard                    *)
(* (src/services/dashboard/src/App.jsx), open in several browser tabs, and the  *)
(* attack-sim service behind it (src/services/attack-sim/api.py), whose answer  *)
(* is a stream of lines made by a generator while a script runs.  The network  *)
(* cuts the stream anywhere, so a line is two pieces, its head and its tail.   *)
EXTENDS Integers, Sequences, FiniteSets, SequencesExt, Lists

CONSTANTS
    Tabs,
    Scripts,        \* the scripts in the order of SCRIPT_MAP, a sequence
    LOG_MAX,        \* lines kept in the output log (400)
    MaxRuns,        \* bound: launches
    MaxOutput,      \* bound: lines one script prints
    MaxWire         \* bound: pieces between the service and a tab

ASSUME ScriptNames == Scripts \in Seq(STRING)
ASSUME SimBounds == LOG_MAX \in Nat \ {0} /\ MaxRuns \in Nat /\ MaxOutput \in Nat

VARIABLES
    simRunning, simRunningType, simLog,   \* per tab
    call,           \* per tab: the stage of its POST
    myRun,          \* per tab: the number of its last launch
    buffer,         \* per tab: what is left of the text after the last line
    running,        \* per script: attack-sim has it marked as running
    plan,           \* per run: what its generator has still to do
    said,           \* per run: lines written so far
    wire,           \* per run: pieces on their way
    runs            \* launches so far

panelVars == <<simRunning, simRunningType, simLog, call, myRun, buffer>>
simVars == <<panelVars, running, plan, said, wire, runs>>

SCRIPTS == {Scripts[i] : i \in DOMAIN Scripts}
Attacks == SCRIPTS \cup {"all"}
Runs == 1 .. MaxRuns

Entry(run, line, type) == [run |-> run, line |-> line, type |-> type]
(* Broken variant: the log grows for as long as the simulation talks. *)
appendLogUncut(log, entry) == Append(log, entry)

appendLog(log, entry) ==
    LET longer == Append(log, entry)
    IN  SubSeq(longer, 1 + (IF Len(longer) > LOG_MAX THEN Len(longer) - LOG_MAX ELSE 0), Len(longer))

(* A generator, written as what it will do: write a line, mark a script,       *)
(* run it, take the mark away and say so.                                     *)
Op(op, s) == [op |-> op, script |-> s]
StreamScript(s) == <<Op("mark", s), Op("output", s), Op("unmark", s)>>
RunOne(s) == <<Op("say", s)>> \o StreamScript(s)
(* One script after the other, four steps each. *)
RunAll ==
    LET Step(i) == RunOne(Scripts[((i - 1) \div 4) + 1])[((i - 1) % 4) + 1]
    IN  <<Op("say", "all")>> \o [i \in 1 .. 4 * Len(Scripts) |-> Step(i)] \o <<Op("say", "all")>>

SimInit ==
    /\ simRunning = [t \in Tabs |-> FALSE] /\ simRunningType = [t \in Tabs |-> ""]
    /\ simLog = [t \in Tabs |-> << >>] /\ call = [t \in Tabs |-> "none"]
    /\ myRun = [t \in Tabs |-> 0] /\ buffer = [t \in Tabs |-> << >>]
    /\ running = [s \in SCRIPTS |-> FALSE]
    /\ plan = [r \in Runs |-> << >>] /\ said = [r \in Runs |-> 0]
    /\ wire = [r \in Runs |-> << >>] /\ runs = 0

(* The panel ******************************************************************)
(* The buttons are disabled, and the handler returns, while simRunning. *)
Launch(t, attack) ==
    /\ ~simRunning[t] /\ runs < MaxRuns
    /\ runs' = runs + 1
    /\ myRun' = [myRun EXCEPT ![t] = runs']
    /\ simRunning' = [simRunning EXCEPT ![t] = TRUE]
    /\ simRunningType' = [simRunningType EXCEPT ![t] = attack]
    /\ simLog' = [simLog EXCEPT ![t] = appendLog(<< >>, Entry(runs', 0, "start"))]
    /\ call' = [call EXCEPT ![t] = "posting"]
    /\ UNCHANGED <<buffer, running, plan, said, wire>>

clearLog(t) ==
    /\ simLog[t] # << >>
    /\ simLog' = [simLog EXCEPT ![t] = << >>]
    /\ UNCHANGED <<simRunning, simRunningType, call, myRun, buffer, running, plan, said, wire, runs>>

(* The `finally' of runAttack and runAll. *)
RunEnds(t) ==
    /\ simRunning' = [simRunning EXCEPT ![t] = FALSE]
    /\ simRunningType' = [simRunningType EXCEPT ![t] = ""]
    /\ call' = [call EXCEPT ![t] = "none"]
    /\ buffer' = [buffer EXCEPT ![t] = << >>]
    /\ UNCHANGED <<myRun, runs>>

(* Text is cut at its line ends; what follows the last one waits for more. *)
LastEnd(text) == Max({0} \cup {i \in DOMAIN text : text[i].part = "tail"})
(* Broken variant: what follows the last line end is thrown away. *)
LeftoverDropped(text) == << >>

Leftover(text) == SubSeq(text, LastEnd(text) + 1, Len(text))
Lines(text) ==
    LET ends == filter([i \in DOMAIN text |-> i],
                       LAMBDA i : text[i].part = "tail" /\ i > 1 /\ text[i - 1].part = "head")
    IN  [k \in DOMAIN ends |-> text[ends[k]].line]

Logged(log, r, lines) == reduce(lines, LAMBDA l, line : appendLog(l, Entry(r, line, "log")), log)

Read(t) ==
    LET r == myRun[t]
    IN  /\ call[t] = "streaming"
        /\ \E n \in 1 .. Len(wire[r]) :
              LET text == buffer[t] \o SubSeq(wire[r], 1, n)
              IN  /\ simLog' = [simLog EXCEPT ![t] = Logged(@, r, Lines(text))]
                  /\ buffer' = [buffer EXCEPT ![t] = Leftover(text)]
                  /\ wire' = [wire EXCEPT ![r] = SubSeq(@, n + 1, Len(@))]
        /\ UNCHANGED <<simRunning, simRunningType, call, myRun, running, plan, said, runs>>

(* Broken variant: no `finally', so the panel stays RUNNING. *)
ReadDoneRunning(t) ==
    /\ call[t] = "streaming"
    /\ plan[myRun[t]] = << >> /\ wire[myRun[t]] = << >>
    /\ call' = [call EXCEPT ![t] = "none"]
    /\ UNCHANGED <<simRunning, simRunningType, simLog, myRun, buffer, running, plan, said, wire, runs>>

ReadDone(t) ==
    /\ call[t] = "streaming"
    /\ plan[myRun[t]] = << >> /\ wire[myRun[t]] = << >>
    /\ RunEnds(t)
    /\ UNCHANGED <<simLog, running, plan, said, wire>>

(* The connection fails before the answer, or breaks in the stream. *)
ConnectionFails(t) ==
    /\ call[t] # "none"
    /\ simLog' = [simLog EXCEPT ![t] = appendLog(@, Entry(myRun[t], -1, "error"))]
    /\ wire' = [wire EXCEPT ![myRun[t]] = << >>]
    /\ RunEnds(t)
    /\ UNCHANGED <<running, plan, said>>

(* The service ****************************************************************)
(* The marks are tested when the request is admitted and set when its stream   *)
(* gets there: two requests for one script can both be admitted.              *)
Free(attack) == IF attack = "all" THEN \A s \in SCRIPTS : ~running[s] ELSE ~running[attack]

Admit(t) ==
    LET attack == simRunningType[t]
    IN  /\ call[t] = "posting" /\ Free(attack)
        /\ plan' = [plan EXCEPT ![myRun[t]] = IF attack = "all" THEN RunAll ELSE RunOne(attack)]
        /\ call' = [call EXCEPT ![t] = "streaming"]
        /\ UNCHANGED <<simRunning, simRunningType, simLog, myRun, buffer, running, said, wire, runs>>

(* 409, logged as an error with its detail. *)
Refuse409(t) ==
    /\ call[t] = "posting" /\ ~Free(simRunningType[t])
    /\ simLog' = [simLog EXCEPT ![t] = appendLog(@, Entry(myRun[t], -1, "error"))]
    /\ RunEnds(t)
    /\ UNCHANGED <<running, plan, said, wire>>

Reader(r) == {t \in Tabs : call[t] = "streaming" /\ myRun[t] = r}

(* A line is written to the connection. *)
Write(r) ==
    /\ Len(wire[r]) + 2 <= MaxWire
    /\ said' = [said EXCEPT ![r] = @ + 1]
    /\ wire' = [wire EXCEPT ![r] = @ \o <<[line |-> said'[r], part |-> "head"],
                                          [line |-> said'[r], part |-> "tail"]>>]

NextOp(r) == Head(plan[r])
Advance(r) == plan' = [plan EXCEPT ![r] = Tail(@)]
Outputs(r) == plan[r] # << >> /\ Reader(r) # {}

SayLine(r) ==
    /\ Outputs(r) /\ NextOp(r).op = "say"
    /\ Write(r) /\ Advance(r)
    /\ UNCHANGED <<panelVars, running, runs>>

MarkRunning(r) ==
    /\ Outputs(r) /\ NextOp(r).op = "mark"
    /\ running' = [running EXCEPT ![NextOp(r).script] = TRUE]
    /\ Advance(r)
    /\ UNCHANGED <<panelVars, said, wire, runs>>

ScriptPrints(r) ==
    /\ Outputs(r) /\ NextOp(r).op = "output"
    /\ said[r] < MaxOutput
    /\ Write(r)
    /\ UNCHANGED <<panelVars, running, plan, runs>>

ScriptExits(r) ==
    /\ Outputs(r) /\ NextOp(r).op = "output"
    /\ Advance(r)
    /\ UNCHANGED <<panelVars, running, said, wire, runs>>

(* The `finally' of the generator. *)
Unmark(r) ==
    /\ Outputs(r) /\ NextOp(r).op = "unmark"
    /\ running' = [running EXCEPT ![NextOp(r).script] = FALSE]
    /\ Write(r) /\ Advance(r)
    /\ UNCHANGED <<panelVars, runs>>

(* Nobody reads any more: the generator is closed, which runs its `finally' if *)
(* it has entered a script.                                                   *)
InScript(r) == NextOp(r).op \in {"output", "unmark"}

(* Broken variant: the mark is taken away after the loop, not in a `finally'. *)
GeneratorClosedKeepsMark(r) ==
    /\ plan[r] # << >> /\ Reader(r) = {}
    /\ plan' = [plan EXCEPT ![r] = << >>]
    /\ UNCHANGED <<panelVars, running, said, wire, runs>>

GeneratorClosed(r) ==
    /\ plan[r] # << >> /\ Reader(r) = {}
    /\ running' = IF InScript(r) THEN [running EXCEPT ![NextOp(r).script] = FALSE] ELSE running
    /\ plan' = [plan EXCEPT ![r] = << >>]
    /\ UNCHANGED <<panelVars, said, wire, runs>>

GeneratorStep(r) ==
    \/ SayLine(r) \/ MarkRunning(r)
    \/ ScriptPrints(r) \/ ScriptExits(r)
    \/ Unmark(r) \/ GeneratorClosed(r)

CallStep(t) == Admit(t) \/ Refuse409(t) \/ Read(t) \/ ReadDone(t) \/ ConnectionFails(t)

SimNext ==
    \/ \E t \in Tabs, attack \in Attacks : Launch(t, attack)
    \/ \E t \in Tabs : clearLog(t)
    \/ \E t \in Tabs : CallStep(t)
    \/ \E r \in Runs : GeneratorStep(r)

(* The service answers, scripts end, a closed generator is collected, and what *)
(* has been written is delivered or the connection breaks.                    *)
SimFairness ==
    /\ \A t \in Tabs : WF_simVars(CallStep(t))
    /\ \A r \in Runs : WF_simVars(GeneratorStep(r))

SimSpec == SimInit /\ [][SimNext]_simVars /\ SimFairness

-----------------------------------------------------------------------------
(* What the operations page shows of a tab's simulation. *)
SimulatorPanel(t) ==
    [says     |-> IF simRunning[t] THEN "RUNNING" ELSE "IDLE",
     disabled |-> simRunning[t],
     lit      |-> {a \in SCRIPTS : simRunningType[t] = a},
     log      |-> [i \in DOMAIN simLog[t] |-> simLog[t][i].type]]

(* Every variable of the simulator keeps its type. *)
SimTypeOK ==
    /\ simRunning \in [Tabs -> BOOLEAN] /\ simRunningType \in [Tabs -> Attacks \cup {""}]
    /\ call \in [Tabs -> {"none", "posting", "streaming"}]
    /\ myRun \in [Tabs -> 0 .. runs] /\ runs \in 0 .. MaxRuns
    /\ running \in [SCRIPTS -> BOOLEAN]
    /\ \A r \in Runs : plan[r] \in Seq([op : {"say", "mark", "output", "unmark"}, script : Attacks])
    /\ \A t \in Tabs : Len(simLog[t]) <= LOG_MAX /\ Len(buffer[t]) <= 1

(* The log is the stream: lines of the tab's own last launch, in order, none    *)
(* missing and none twice wherever the network cut the text, down to the last  *)
(* one written once nothing is under way.                                     *)
LogIsTheStream ==
    \A t \in Tabs :
        LET log == simLog[t]
            r   == myRun[t]
        IN  /\ \A i \in DOMAIN log : log[i].run = r
            /\ \A i \in 2 .. Len(log) : log[i].line \in {log[i - 1].line + 1, -1}
            /\ call[t] = "streaming" /\ wire[r] = << >> /\ log # << >> => Last(log).line = said[r]

(* A script marked as running has a generator that will take the mark away: no  *)
(* broken stream leaves it refused with 409 for ever.                          *)
MarkHasOwner ==
    \A s \in SCRIPTS : running[s] =>
        \E r \in Runs : \E i \in DOMAIN plan[r] : plan[r][i] = Op("unmark", s)

(* A simulation ends: the panel comes back to IDLE. *)
SimulationEnds == \A t \in Tabs : simRunning[t] ~> ~simRunning[t]
=============================================================================
