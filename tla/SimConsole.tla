------------------------------ MODULE SimConsole ------------------------------
(* The exercise console of the Sentinel operations page                         *)
(* (src/sentinel-command-main/src/components/soc/SimConsole.tsx) and the stream  *)
(* it starts (lib/api.ts): with USE_MOCK a chain of timers that adds a line     *)
(* every 350 to 850 ms, otherwise an EventSource on a path that only accepts    *)
(* POST.  Whether an exercise runs is told by another timer, of six seconds.    *)
EXTENDS Integers, Sequences, FiniteSets

CONSTANTS
    LINES,          \* lines of an exercise (10 and more than six seconds of them)
    MaxExercises    \* bound: exercises started

ASSUME ExerciseBounds == LINES \in Nat \ {0} /\ MaxExercises \in Nat

VARIABLES
    mocked,         \* the build's USE_MOCK
    exRunning,      \* the Stop button is there, and the choice of attack disabled
    lines,          \* the console: the exercise each line is of, 0 for a stop
    exercise,       \* per exercise: not started, streaming, done or aborted
    next,           \* per exercise: lines it has added
    ctrl,           \* the exercise that Stop aborts, 0 for none
    timer,          \* the six second timers that have not fired: whose
    slipped         \* history: a timer has fired while an exercise was streaming

exVars == <<mocked, exRunning, lines, exercise, next, ctrl, timer, slipped>>

Exercises == 1 .. MaxExercises
Streaming == {x \in Exercises : exercise[x] = "streaming"}
Started == {x \in Exercises : exercise[x] # "new"}

ExInit ==
    /\ mocked \in BOOLEAN /\ exRunning = FALSE /\ lines = << >>
    /\ exercise = [x \in Exercises |-> "new"] /\ next = [x \in Exercises |-> 0]
    /\ ctrl = 0 /\ timer = {} /\ slipped = FALSE

(* The first line of a mocked exercise is there before start returns. *)
start(x) ==
    /\ ~exRunning
    /\ exercise[x] = "new" /\ \A y \in Exercises : y < x => exercise[y] # "new"
    /\ exRunning' = TRUE /\ ctrl' = x /\ timer' = timer \cup {x}
    /\ exercise' = [exercise EXCEPT ![x] = IF mocked THEN "streaming" ELSE "done"]
    /\ next' = [next EXCEPT ![x] = IF mocked THEN 1 ELSE 0]
    /\ lines' = IF mocked THEN <<x>> ELSE << >>
    /\ UNCHANGED <<mocked, slipped>>

(* The timer of the stream: a signal that was aborted ends the chain. *)
tick(x) ==
    /\ exercise[x] = "streaming"
    /\ IF next[x] >= LINES
       THEN exercise' = [exercise EXCEPT ![x] = "done"] /\ UNCHANGED <<next, lines>>
       ELSE /\ next' = [next EXCEPT ![x] = @ + 1]
            /\ lines' = Append(lines, x)
            /\ UNCHANGED exercise
    /\ UNCHANGED <<mocked, exRunning, ctrl, timer, slipped>>

(* Broken variant: Stop changes the button and lets the exercise go on. *)
stopWithoutAbort ==
    /\ exRunning
    /\ exRunning' = FALSE
    /\ lines' = Append(lines, 0)
    /\ UNCHANGED <<mocked, exercise, next, ctrl, timer, slipped>>

(* Stop aborts the exercise that was started last. *)
stop ==
    /\ exRunning
    /\ exercise' = IF exercise[ctrl] = "streaming" THEN [exercise EXCEPT ![ctrl] = "aborted"] ELSE exercise
    /\ exRunning' = FALSE
    /\ lines' = Append(lines, 0)
    /\ UNCHANGED <<mocked, next, ctrl, timer, slipped>>

(* Six seconds after its start, whatever has happened since. *)
RunningTimer(x) ==
    /\ x \in timer
    /\ timer' = timer \ {x}
    /\ exRunning' = FALSE
    /\ slipped' = (slipped \/ Streaming # {})
    /\ UNCHANGED <<mocked, lines, exercise, next, ctrl>>

ExNext ==
    \/ \E x \in Exercises : start(x) \/ tick(x) \/ RunningTimer(x)
    \/ stop

ExSpec == ExInit /\ [][ExNext]_exVars

-----------------------------------------------------------------------------
(* What the console shows: one button of two, the choice of attack, the lines. *)
ExercisePanel ==
    [button |-> IF exRunning THEN "Stop" ELSE "Launch", choose |-> ~exRunning,
     idle |-> lines = << >>, rows |-> lines]

(* Every variable of the console keeps its type. *)
ExTypeOK ==
    /\ mocked \in BOOLEAN /\ exRunning \in BOOLEAN /\ slipped \in BOOLEAN
    /\ lines \in Seq(0 .. MaxExercises)
    /\ exercise \in [Exercises -> {"new", "streaming", "done", "aborted"}]
    /\ next \in [Exercises -> 0 .. LINES]
    /\ ctrl \in 0 .. MaxExercises /\ timer \subseteq Exercises

(* Launch is offered only when nothing streams, and the lines on the console    *)
(* are of one exercise: Stop silences it, and the next one starts alone.  What  *)
(* can break this is a timer that fires while an exercise still streams, its   *)
(* own or that of one stopped before: from then on two may run, and Stop only   *)
(* reaches the second.                                                        *)
OneExerciseAtATime ==
    ~slipped => /\ ExercisePanel.button = "Launch" => Streaming = {}
                /\ Streaming \subseteq {ctrl}
                /\ {ExercisePanel.rows[i] : i \in DOMAIN ExercisePanel.rows} \subseteq {0, ctrl}
=============================================================================
