---------------------------- MODULE SentinelProofs ----------------------------
(* Proofs about the Sentinel console: its exercises, for any number of them and *)
(* of lines, its notifications, for any number of toasts, any limit and any    *)
(* number of components that show them, and its pages, for any events it makes  *)
(* up, any sessions, calls and pages opened, with USE_MOCK and without.        *)
EXTENDS SentinelConsole, SimConsole, ToastQueue, ListProofs

(* OneExerciseAtATime is inductive with the types and the fact that Stop, when  *)
(* it is there, has an exercise to abort.                                      *)
ExIInv ==
    /\ ExTypeOK
    /\ exRunning => ctrl \in Exercises
    /\ OneExerciseAtATime

USE DEF Exercises, Streaming

LEMMA ExInitInv == ExInit => ExIInv
<1> SUFFICES ASSUME ExInit PROVE ExIInv
    OBVIOUS
<1>1. ExTypeOK
    <2>1. lines \in Seq(0 .. MaxExercises)
        BY EmptySeq DEF ExInit
    <2>2. exercise \in [Exercises -> {"new", "streaming", "done", "aborted"}]
        BY DEF ExInit
    <2>3. next \in [Exercises -> 0 .. LINES]
        BY ExerciseBounds DEF ExInit
    <2>4. ctrl \in 0 .. MaxExercises
        BY ExerciseBounds DEF ExInit
    <2>5. {mocked, exRunning, slipped} \subseteq BOOLEAN /\ timer \subseteq Exercises
        BY DEF ExInit
    <2> QED
        BY <2>1, <2>2, <2>3, <2>4, <2>5 DEF ExTypeOK
<1>2. OneExerciseAtATime
    BY DEF ExInit, OneExerciseAtATime, ExercisePanel
<1> QED
    BY <1>1, <1>2 DEF ExInit, ExIInv

(* The exercises of the lines after one more: those there were, and its own.    *)
LEMMA RowsAfterAppend ==
    ASSUME lines \in Seq(0 .. MaxExercises), NEW e \in 0 .. MaxExercises, NEW C, e \in C,
           {lines[i] : i \in DOMAIN lines} \subseteq C
    PROVE  {Append(lines, e)[i] : i \in DOMAIN Append(lines, e)} \subseteq C
<1>1. Append(lines, e) \in Seq(0 .. MaxExercises) /\ Len(Append(lines, e)) = Len(lines) + 1
    BY AppendProperties
<1>2. ASSUME NEW i \in DOMAIN Append(lines, e) PROVE Append(lines, e)[i] \in C
    <2>1. i \in 1 .. Len(lines) + 1
        BY <1>1
    <2>2. CASE i = Len(lines) + 1
        BY <2>2, AppendProperties
    <2>3. CASE i \in 1 .. Len(lines)
        <3>1. Append(lines, e)[i] = lines[i] /\ i \in DOMAIN lines
            BY <2>3, AppendProperties
        <3> QED
            BY <3>1
    <2> QED
        BY <2>1, <2>2, <2>3
<1> QED
    BY <1>2

LEMMA ExTypeStep == ASSUME ExIInv, [ExNext]_exVars PROVE ExTypeOK'
<1> USE ExerciseBounds DEF ExTypeOK
<1> ExTypeOK
    BY DEF ExIInv
<1>1. ASSUME NEW x \in Exercises, start(x) PROVE ExTypeOK'
    <2>1. lines' \in Seq(0 .. MaxExercises)
        <3>1. <<x>> \in Seq(0 .. MaxExercises)
            OBVIOUS
        <3>2. << >> \in Seq(0 .. MaxExercises)
            BY EmptySeq
        <3> QED
            BY <1>1, <3>1, <3>2 DEF start
    <2> QED
        BY <1>1, <2>1 DEF start
<1>2. ASSUME NEW x \in Exercises, tick(x) PROVE ExTypeOK'
    <2>1. CASE next[x] >= LINES
        BY <1>2, <2>1 DEF tick
    <2>2. CASE ~(next[x] >= LINES)
        <3>1. next[x] + 1 \in 0 .. LINES
            BY <2>2
        <3>2. next' \in [Exercises -> 0 .. LINES]
            BY <1>2, <2>2, <3>1 DEF tick
        <3>3. lines' \in Seq(0 .. MaxExercises)
            <4>1. lines' = Append(lines, x)
                BY <1>2, <2>2 DEF tick
            <4>2. lines \in Seq(0 .. MaxExercises) /\ x \in 0 .. MaxExercises
                OBVIOUS
            <4> QED
                BY <4>1, <4>2, AppendProperties
        <3> QED
            BY <1>2, <2>2, <3>2, <3>3 DEF tick
    <2> QED
        BY <2>1, <2>2
<1>3. ASSUME NEW x \in Exercises, RunningTimer(x) PROVE ExTypeOK'
    BY <1>3 DEF RunningTimer
<1>4. ASSUME stop PROVE ExTypeOK'
    <2>1. lines' \in Seq(0 .. MaxExercises)
        BY <1>4, AppendProperties DEF stop
    <2> QED
        BY <1>4, <2>1 DEF stop
<1>5. ASSUME UNCHANGED exVars PROVE ExTypeOK'
    BY <1>5 DEF exVars
<1> QED
    BY <1>1, <1>2, <1>3, <1>4, <1>5 DEF ExNext

LEMMA OneExerciseStep ==
    ASSUME ExIInv, [ExNext]_exVars
    PROVE  (exRunning => ctrl \in Exercises)' /\ OneExerciseAtATime'
<1> DEFINE HasCtrl == exRunning => ctrl \in Exercises
           Rows == {lines[i] : i \in DOMAIN lines}
<1> USE ExerciseBounds DEF OneExerciseAtATime, ExercisePanel
<1> ExTypeOK /\ HasCtrl /\ OneExerciseAtATime
    BY DEF ExIInv
<1>1. ASSUME NEW x \in Exercises, start(x) PROVE HasCtrl' /\ OneExerciseAtATime'
    <2>1. HasCtrl'
        BY <1>1 DEF start
    <2>2. ASSUME ~slipped PROVE Streaming' \subseteq {x} /\ (Rows' \subseteq {0, x})
        <3>1. Streaming = {}
            BY <1>1, <2>2 DEF start
        <3>2. \A y \in Exercises : exercise'[y] = "streaming" => y = x
            BY <1>1, <3>1 DEF start, ExTypeOK
        <3>3. Rows' \subseteq {0, x}
            BY <1>1 DEF start
        <3> QED
            BY <3>2, <3>3
    <2> QED
        BY <1>1, <2>1, <2>2 DEF start
<1>2. ASSUME NEW x \in Exercises, tick(x) PROVE HasCtrl' /\ OneExerciseAtATime'
    <2>1. HasCtrl'
        BY <1>2 DEF tick
    <2>2. Streaming' \subseteq Streaming
        BY <1>2 DEF tick, ExTypeOK
    <2>3. ASSUME ~slipped PROVE Rows' \subseteq {0, ctrl}
        <3>1. x = ctrl
            BY <1>2, <2>3 DEF tick
        <3>2. CASE next[x] >= LINES
            BY <1>2, <2>3, <3>2 DEF tick
        <3>3. CASE ~(next[x] >= LINES)
            <4>1. lines' = Append(lines, ctrl)
                BY <1>2, <3>1, <3>3 DEF tick
            <4>2. lines \in Seq(0 .. MaxExercises) /\ ctrl \in 0 .. MaxExercises
                BY DEF ExTypeOK
            <4>3. {lines[i] : i \in DOMAIN lines} \subseteq {0, ctrl}
                BY <2>3
            <4> HIDE DEF OneExerciseAtATime, ExercisePanel, Rows
            <4>4. {Append(lines, ctrl)[i] : i \in DOMAIN Append(lines, ctrl)} \subseteq {0, ctrl}
                BY <4>2, <4>3, RowsAfterAppend
            <4> QED
                BY <4>1, <4>4 DEF Rows
        <3> QED
            BY <3>2, <3>3
    <2> QED
        BY <1>2, <2>1, <2>2, <2>3 DEF tick
<1>3. ASSUME NEW x \in Exercises, RunningTimer(x) PROVE HasCtrl' /\ OneExerciseAtATime'
    BY <1>3 DEF RunningTimer
<1>4. ASSUME stop PROVE HasCtrl' /\ OneExerciseAtATime'
    <2>1. HasCtrl' /\ ~exRunning'
        BY <1>4 DEF stop
    <2>2. ASSUME ~slipped PROVE Streaming' = {}
        <3>1. \A y \in Exercises : y # ctrl => exercise[y] # "streaming"
            BY <2>2
        <3>2. \A y \in Exercises : exercise'[y] # "streaming"
            BY <1>4, <3>1 DEF stop, ExTypeOK
        <3> QED
            BY <3>2
    <2>3. ASSUME ~slipped PROVE Rows' \subseteq {0, ctrl}
        <3>1. lines \in Seq(0 .. MaxExercises) /\ 0 \in 0 .. MaxExercises
            BY DEF ExTypeOK
        <3>2. {lines[i] : i \in DOMAIN lines} \subseteq {0, ctrl}
            BY <2>3
        <3> HIDE DEF OneExerciseAtATime, ExercisePanel, Rows
        <3>3. {Append(lines, 0)[i] : i \in DOMAIN Append(lines, 0)} \subseteq {0, ctrl}
            BY <3>1, <3>2, RowsAfterAppend
        <3> QED
            BY <1>4, <3>3 DEF stop, Rows
    <2> QED
        BY <1>4, <2>1, <2>2, <2>3 DEF stop
<1>5. ASSUME UNCHANGED exVars PROVE HasCtrl' /\ OneExerciseAtATime'
    BY <1>5 DEF exVars
<1> QED
    BY <1>1, <1>2, <1>3, <1>4, <1>5 DEF ExNext

(* SimConsole.tsx:22-45.  Launch is offered only when nothing streams and the   *)
(* lines shown are of one exercise, until a six second timer has fired while    *)
(* one still streamed: nothing else lets two run together.                     *)
THEOREM OneExercise == ExSpec => []OneExerciseAtATime
<1>1. ExInit => ExIInv
    BY ExInitInv
<1>2. ExIInv /\ [ExNext]_exVars => ExIInv'
    <2> SUFFICES ASSUME ExIInv, [ExNext]_exVars PROVE ExIInv'
        OBVIOUS
    <2>1. ExTypeOK'
        BY ExTypeStep
    <2>2. (exRunning => ctrl \in Exercises)' /\ OneExerciseAtATime'
        BY OneExerciseStep
    <2> QED
        BY <2>1, <2>2 DEF ExIInv
<1>3. ExIInv => OneExerciseAtATime
    BY DEF ExIInv
<1> QED
    BY <1>1, <1>2, <1>3, PTL DEF ExSpec

(* An exercise is in one of four states, its lines are no more than it writes,  *)
(* and Stop holds one that was launched or none (SimPanel.tsx:18-50).          *)
THEOREM ExTypeCorrect == ExSpec => []ExTypeOK
<1>1. ExIInv => ExTypeOK
    BY DEF ExIInv
<1>2. ExIInv /\ [ExNext]_exVars => ExIInv'
    BY ExTypeStep, OneExerciseStep DEF ExIInv
<1> QED
    BY ExInitInv, <1>1, <1>2, PTL DEF ExSpec
-----------------------------------------------------------------------------
(* Notifications *)

HostStates == {"unmounted", "rendered", "subscribed"}

(* A component that has rendered shows the queue until the queue changes, and   *)
(* one that is subscribed is told of every change: only a change between the   *)
(* two is missed.                                                             *)
UpToDate(h) == host[h] # "unmounted" /\ ~missed[h] => view[h] = toasts

HostIInv ==
    /\ host \in [Hosts -> HostStates] /\ missed \in [Hosts -> BOOLEAN]
    /\ view = [h \in Hosts |-> view[h]]
    /\ \A h \in Hosts : UpToDate(h)

USE DEF HostStates

LEMMA HostInit == ToastInit => HostIInv
    BY DEF ToastInit, HostIInv, UpToDate

(* Whatever the queue becomes, those that are subscribed have it. *)
LEMMA DispatchTells ==
    ASSUME HostIInv, NEW new, dispatch(new)
    PROVE  HostIInv'
<1>1. UNCHANGED host /\ toasts' = new
    BY DEF dispatch
<1>2. \A h \in Hosts : /\ view'[h] = IF host[h] = "subscribed" THEN new ELSE view[h]
                       /\ missed'[h] = (missed[h] \/ host[h] = "rendered")
    BY DEF dispatch
<1>3. missed' \in [Hosts -> BOOLEAN]
    BY DEF dispatch, HostIInv
<1>4. view' = [h \in Hosts |-> view'[h]]
    BY DEF dispatch
<1>5. ASSUME NEW h \in Hosts, host'[h] # "unmounted", ~missed'[h] PROVE view'[h] = toasts'
    <2>1. host[h] = "subscribed"
        BY <1>1, <1>2, <1>5 DEF HostIInv
    <2> QED
        BY <1>1, <1>2, <2>1
<1> QED
    BY <1>1, <1>3, <1>4, <1>5 DEF HostIInv, UpToDate

LEMMA HostStep == ASSUME HostIInv, [ToastNext]_toastVars PROVE HostIInv'
<1>1. CASE toast
    BY <1>1, DispatchTells DEF toast
<1>2. ASSUME NEW id \in Ids, update(id) \/ dismiss(id) \/ TimerFires(id) PROVE HostIInv'
    BY <1>2, DispatchTells DEF update, dismiss, TimerFires
<1>3. CASE dismissAll
    BY <1>3, DispatchTells DEF dismissAll
<1>4. ASSUME NEW h \in Hosts, Render(h) PROVE HostIInv'
    <2>1. view'[h] = toasts /\ UNCHANGED toasts
        BY <1>4 DEF Render, HostIInv
    <2>2. \A k \in Hosts : k # h => UNCHANGED <<host[k], view[k], missed[k]>>
        BY <1>4 DEF Render, HostIInv
    <2>3. host' \in [Hosts -> HostStates] /\ view' = [k \in Hosts |-> view'[k]]
        BY <1>4 DEF Render, HostIInv
    <2>4. missed' \in [Hosts -> BOOLEAN]
        BY <1>4 DEF Render, HostIInv
    <2> QED
        BY <2>1, <2>2, <2>3, <2>4 DEF HostIInv, UpToDate
<1>5. ASSUME NEW h \in Hosts, Subscribe(h) PROVE HostIInv'
    <2>1. UNCHANGED <<toasts, view, missed>> /\ host[h] # "unmounted"
        BY <1>5 DEF Subscribe
    <2>2. \A k \in Hosts : host'[k] # "unmounted" => host[k] # "unmounted"
        BY <1>5, <2>1 DEF Subscribe, HostIInv
    <2>3. host' \in [Hosts -> HostStates]
        BY <1>5 DEF Subscribe, HostIInv
    <2> QED
        BY <2>1, <2>2, <2>3 DEF HostIInv, UpToDate
<1>6. ASSUME NEW h \in Hosts, Unmount(h) PROVE HostIInv'
    <2>1. host'[h] = "unmounted" /\ UNCHANGED <<toasts, missed>>
        BY <1>6 DEF Unmount, HostIInv
    <2>2. \A k \in Hosts : k # h => UNCHANGED <<host[k], view[k]>>
        BY <1>6 DEF Unmount, HostIInv
    <2>3. host' \in [Hosts -> HostStates] /\ view' = [k \in Hosts |-> view'[k]]
        BY <1>6 DEF Unmount, HostIInv
    <2> QED
        BY <2>1, <2>2, <2>3 DEF HostIInv, UpToDate
<1>7. CASE UNCHANGED toastVars
    BY <1>7 DEF toastVars, HostIInv, UpToDate
<1> QED
    BY <1>1, <1>2, <1>3, <1>4, <1>5, <1>6, <1>7 DEF ToastNext

(* use-toast.ts:124-133 and 166-179.  A component that is subscribed shows the   *)
(* queue, unless the queue changed after its render and before its effect.     *)
THEOREM SubscribersAgree == ToastSpec => []HostsAgree
<1>1. HostIInv => HostsAgree
    BY DEF HostIInv, HostsAgree, UpToDate
<1> QED
    BY HostInit, HostStep, <1>1, PTL DEF ToastSpec
-----------------------------------------------------------------------------
(* What has been dismissed goes *)

Toasts(n) == [id : 1 .. n, open : BOOLEAN, text : {0, 1}]
ToastListInv ==
    /\ lastId \in 0 .. MaxToasts
    /\ toasts \in Seq(Toasts(lastId))
    /\ DismissedWillGo

LEMMA ToastsInit == ToastInit => ToastListInv
<1> SUFFICES ASSUME ToastInit PROVE ToastListInv
    OBVIOUS
<1>1. << >> \in Seq(Toasts(0))
    BY EmptySeq
<1> QED
    BY <1>1, ToastConstants DEF ToastInit, ToastListInv, DismissedWillGo

LEMMA NewToast == ASSUME ToastListInv, toast PROVE ToastListInv'
<1> USE ToastConstants
<1> DEFINE new == [id |-> lastId + 1, open |-> TRUE, text |-> 0]
           longer == <<new>> \o toasts
           n == IF Len(longer) < TOAST_LIMIT THEN Len(longer) ELSE TOAST_LIMIT
           T == Toasts(lastId + 1)
<1>1. lastId' = lastId + 1 /\ lastId' \in 0 .. MaxToasts /\ UNCHANGED toastTimeouts
    BY DEF toast, ToastListInv
<1>2. toasts' = Kept(longer)
    BY DEF toast, dispatch
<1>3. new \in T
    BY DEF ToastListInv, Toasts
<1>4. toasts \in Seq(T)
    <2>1. Toasts(lastId) \subseteq T
        BY DEF ToastListInv, Toasts
    <2> HIDE DEF T
    <2> QED
        BY <2>1, SeqMonotonic DEF ToastListInv
<1>5. longer \in Seq(T) /\ Len(longer) = 1 + Len(toasts)
      /\ longer[1] = new /\ \A i \in 1 .. Len(toasts) : longer[i + 1] = toasts[i]
    <2> HIDE DEF new, T
    <2> QED
        BY <1>3, <1>4
<1>6. n \in 0 .. Len(longer)
    <2> HIDE DEF longer, T
    <2> QED
        BY <1>5
<1>7. toasts' = SubSeq(longer, 1, n)
    BY <1>2 DEF Kept
<1>8. toasts' \in Seq(T) /\ Len(toasts') = n /\ \A i \in 1 .. n : toasts'[i] = longer[i]
    <2> HIDE DEF longer, n, T
    <2> QED
        BY <1>5, <1>6, <1>7, SubSeqProperties
<1>9. ASSUME NEW i \in DOMAIN toasts', ~toasts'[i].open PROVE toasts'[i].id \in toastTimeouts
    <2>1. i \in 1 .. n /\ toasts'[i] = longer[i]
        <3> HIDE DEF longer, n, T
        <3> QED
            BY <1>8
    <2>2. new.open
        OBVIOUS
    <2>3. i # 1
        <3> HIDE DEF longer, n, T, new
        <3> QED
            BY <1>5, <1>9, <2>1, <2>2
    <2>4. i - 1 \in 1 .. Len(toasts) /\ toasts'[i] = toasts[i - 1]
        <3> HIDE DEF longer, n, T, new
        <3> QED
            BY <1>5, <1>6, <2>1, <2>3
    <2> QED
        BY <1>4, <1>9, <2>4 DEF ToastListInv, DismissedWillGo
<1>10. toastTimeouts' \subseteq 1 .. lastId'
    BY <1>1 DEF ToastListInv, DismissedWillGo
<1> QED
    BY <1>1, <1>8, <1>9, <1>10 DEF ToastListInv, DismissedWillGo

(* A dispatch that keeps every toast in its place, and the timers.             *)
LEMMA ToastsChanged ==
    ASSUME ToastListInv, UNCHANGED lastId, NEW new, toasts' = [i \in DOMAIN toasts |-> new[i]],
           \A i \in DOMAIN toasts : new[i] \in Toasts(lastId) /\ new[i].id = toasts[i].id,
           toastTimeouts \subseteq toastTimeouts', toastTimeouts' \subseteq 1 .. lastId,
           \A i \in DOMAIN toasts :
              ~new[i].open => ~toasts[i].open \/ toasts[i].id \in toastTimeouts'
    PROVE  ToastListInv'
<1>1. toasts \in Seq(Toasts(lastId)) /\ DOMAIN toasts = 1 .. Len(toasts)
    BY DEF ToastListInv
<1>2. toasts' \in Seq(Toasts(lastId)) /\ DOMAIN toasts' = DOMAIN toasts
    BY <1>1
<1>3. \A i \in DOMAIN toasts : toasts'[i] = new[i]
    OBVIOUS
<1>4. \A i \in DOMAIN toasts : ~new[i].open => toasts[i].id \in toastTimeouts'
    BY DEF ToastListInv, DismissedWillGo
<1> QED
    BY <1>2, <1>3, <1>4 DEF ToastListInv, DismissedWillGo

LEMMA ToastsKeptInv ==
    ASSUME ToastListInv, UNCHANGED <<lastId, toasts, toastTimeouts>>
    PROVE  ToastListInv'
    BY DEF ToastListInv, DismissedWillGo

LEMMA ToastsUpdated == ASSUME ToastListInv, NEW id, update(id) PROVE ToastListInv'
<1> DEFINE new == [i \in DOMAIN toasts |->
                    IF toasts[i].id = id THEN [toasts[i] EXCEPT !.text = 1] ELSE toasts[i]]
<1>1. toasts' = new /\ UNCHANGED <<lastId, toastTimeouts>>
    BY DEF update, dispatch
<1>2. \A i \in DOMAIN toasts : toasts[i] \in Toasts(lastId)
    BY DEF ToastListInv
<1>3. \A i \in DOMAIN toasts : /\ new[i] \in Toasts(lastId) /\ new[i].id = toasts[i].id
                               /\ new[i].open = toasts[i].open
    BY <1>2 DEF Toasts
<1>4. toasts' = [i \in DOMAIN toasts |-> new[i]]
    BY <1>1
<1> HIDE DEF new
<1> QED
    BY <1>1, <1>3, <1>4, ToastsChanged DEF ToastListInv, DismissedWillGo

LEMMA ToastsClosed ==
    ASSUME ToastListInv, NEW ids, ids \subseteq 1 .. lastId, dispatch(Closed(ids)),
           toastTimeouts' = toastTimeouts \cup ids, UNCHANGED lastId
    PROVE  ToastListInv'
<1> DEFINE new == Closed(ids)
<1>1. toasts' = new
    BY DEF dispatch
<1>2. \A i \in DOMAIN toasts : toasts[i] \in Toasts(lastId)
    BY DEF ToastListInv
<1>3. \A i \in DOMAIN toasts : /\ new[i] \in Toasts(lastId) /\ new[i].id = toasts[i].id
                               /\ toasts[i].id \notin ids => new[i].open = toasts[i].open
    BY <1>2 DEF Toasts, Closed
<1>4. toasts' = [i \in DOMAIN toasts |-> new[i]]
    BY <1>1 DEF Closed
<1> HIDE DEF new
<1>5. toastTimeouts' \subseteq 1 .. lastId /\ toastTimeouts \subseteq toastTimeouts'
    BY DEF ToastListInv, DismissedWillGo
<1>6. \A i \in DOMAIN toasts : ~new[i].open => ~toasts[i].open \/ toasts[i].id \in toastTimeouts'
    BY <1>3
<1> QED
    BY <1>3, <1>4, <1>5, <1>6, ToastsChanged

LEMMA ToastGoes == ASSUME ToastListInv, NEW id, TimerFires(id) PROVE ToastListInv'
<1> DEFINE Left == {t \in {toasts[i] : i \in DOMAIN toasts} : t.id # id}
           keep == {i \in DOMAIN toasts : toasts[i].id # id}
<1>1. toasts' = Picked(toasts, keep)
    BY DEF TimerFires, dispatch, filter
<1>2. toasts \in Seq(Toasts(lastId)) /\ \A i \in DOMAIN toasts : i \in keep => toasts[i] \in Left
    BY DEF ToastListInv
<1>3. toasts' \in Seq(Left)
    <2> HIDE DEF Left, keep
    <2> QED
        BY <1>1, <1>2, PickedElements
<1>4. Left \subseteq Toasts(lastId) /\ \A t \in Left : ~t.open => t.id \in toastTimeouts \ {id}
    BY <1>2 DEF ToastListInv, DismissedWillGo
<1>5. toastTimeouts' = toastTimeouts \ {id} /\ UNCHANGED lastId
    BY DEF TimerFires
<1> HIDE DEF Left
<1>6. toasts' \in Seq(Toasts(lastId)) /\ \A i \in DOMAIN toasts' : toasts'[i] \in Left
    BY <1>3, <1>4, SeqMonotonic
<1> QED
    BY <1>4, <1>5, <1>6 DEF ToastListInv, DismissedWillGo

LEMMA ToastListStep == ASSUME ToastListInv, [ToastNext]_toastVars PROVE ToastListInv'
<1>1. ASSUME NEW id, dismiss(id) PROVE ToastListInv'
    BY <1>1, ToastsClosed DEF dismiss
<1>2. ASSUME dismissAll PROVE ToastListInv'
    <2>1. \A i \in DOMAIN toasts : toasts[i] \in Toasts(lastId)
        BY DEF ToastListInv
    <2>2. Shown \subseteq 1 .. lastId
        BY <2>1 DEF Shown, Toasts
    <2> QED
        BY <1>2, <2>2, ToastsClosed DEF dismissAll
<1> QED
    BY <1>1, <1>2, NewToast, ToastsUpdated, ToastGoes, ToastsKeptInv
    DEF ToastNext, Render, Subscribe, Unmount, toastVars

(* A toast that was dismissed has a timer that will take it out of the queue:  *)
(* dismiss and the limit of use-toast.ts:55-133 never leave one behind.        *)
THEOREM DismissedGo == ToastSpec => []DismissedWillGo
<1>1. ToastListInv => DismissedWillGo
    BY DEF ToastListInv
<1> QED
    BY ToastsInit, ToastListStep, <1>1, PTL DEF ToastSpec

(* The queue holds toasts that were made, and timers are for those              *)
(* (use-toast.ts:55-189).                                                     *)
THEOREM ToastTypeCorrect == ToastSpec => []ToastTypeOK
<1>1. ToastListInv /\ HostIInv => ToastTypeOK
    <2> SUFFICES ASSUME ToastListInv, HostIInv PROVE ToastTypeOK
        OBVIOUS
    <2>1. lastId \in 0 .. MaxToasts /\ 1 .. lastId \subseteq Ids
        BY ToastConstants DEF ToastListInv, Ids
    <2>2. toasts \in Seq([id : Ids, open : BOOLEAN, text : {0, 1}])
        <3> DEFINE T == [id : Ids, open : BOOLEAN, text : {0, 1}]
                   S == Toasts(lastId)
        <3>1. S \subseteq T
            BY <2>1 DEF Toasts
        <3>2. toasts \in Seq(S)
            BY DEF ToastListInv
        <3> HIDE DEF S, T
        <3>3. toasts \in Seq(T)
            BY <3>1, <3>2
        <3> QED
            BY <3>3 DEF T
    <2>3. toastTimeouts \subseteq Ids
        BY <2>1 DEF ToastListInv, DismissedWillGo
    <2> QED
        BY <2>1, <2>2, <2>3 DEF HostIInv, ToastTypeOK
<1> QED
    BY ToastsInit, ToastListStep, HostInit, HostStep, <1>1, PTL DEF ToastSpec
-----------------------------------------------------------------------------
(* The pages *)

Fields == {"rows", "paused", "filter", "selected", "incident", "replay", "showReplay", "listed",
           "picked", "timeline", "q", "tab", "asked", "found", "foundReplay", "fading"}
MadeEvents == {genEvents[k] : k \in DOMAIN Generated}
IncidentOf(e) == genIncident(e.request, e)
Sessions == {SessionIds[k] : k \in DOMAIN SessionIds}
FoundIncidents == {[genIncident(ShortId, Absent) EXCEPT !.real = real] : real \in BOOLEAN}
FoundReplays == {[genReplay(LongId) EXCEPT !.real = real] : real \in BOOLEAN}
NoCallOf(kind) == \A i \in Calls : flying[i].kind # kind

(* What a call carries. *)
FlightArg(kind, arg) ==
    /\ kind = "incident" => arg \in MadeEvents
    /\ kind = "findIncident" => arg = ShortId
    /\ kind = "findReplay" => arg = LongId
    /\ kind = "sessionReplay" => arg \in Sessions
FlyingInv ==
    /\ flying = [i \in Calls |-> flying[i]]
    /\ \A i \in Calls :
          /\ flying[i] = Flight(flying[i].kind, flying[i].arg)
          /\ flying[i].kind = "none" => flying[i] = NoFlight
          /\ FlightArg(flying[i].kind, flying[i].arg)

(* The console is gone exactly when its page cannot be rendered. *)
PageInv == DOMAIN ui = Fields /\ (blank <=> ~Renders(ui))

(* What each panel holds, and where an answer of a service can be. *)
PanelsInv ==
    /\ ui.selected \in MadeEvents \cup {Absent}
    /\ ui.incident \in {IncidentOf(e) : e \in MadeEvents} \cup {Absent}
    /\ ui.replay = Absent \/ ~ui.replay.real
    /\ ui.timeline = Absent \/ ~ui.timeline.real
    /\ ui.picked \in Sessions \cup {Absent}
    /\ ui.found \in FoundIncidents \cup {Absent}
    /\ ui.foundReplay \in FoundReplays \cup {Absent}
RealInv ==
    /\ ui.rows.real => realShown /\ ~useMock
    /\ ui.found # Absent /\ ui.found.real => realShown /\ ~useMock
    /\ ui.foundReplay # Absent /\ ui.foundReplay.real => realShown /\ ~useMock

(* Generated answers come at once: a call is alone, and is for what is open.   *)
AloneInv ==
    useMock =>
        /\ ~crossing
        /\ \A i, j \in Calls : flying[i].kind # "none" /\ flying[j].kind # "none" => i = j
MockInv ==
    useMock =>
        /\ \A i \in Calls : flying[i].kind \in {"incident", "replay"} =>
              ui.selected # Absent /\ flying[i].arg = ui.selected
        /\ ui.incident # Absent => ui.selected # Absent /\ ui.incident = IncidentOf(ui.selected)
        /\ ui.showReplay => ui.selected # Absent /\ ui.replay.session = ui.selected.session

(* As long as no two calls for one panel have crossed, the one for what is      *)
(* selected is on its way, or none is and the panel shows its answer.          *)
Answered(kind, arg, shown) ==
    \/ \E i \in Calls : flying[i] = Flight(kind, arg)
    \/ NoCallOf(kind) /\ shown
ApartInv ==
    ~crossing =>
        \A i, j \in Calls : flying[i].kind # "none" /\ flying[i].kind = flying[j].kind => i = j
DrawerInv ==
    ~crossing /\ ui.selected # Absent =>
        Answered("incident", ui.selected, ui.incident = IncidentOf(ui.selected))
SessionInv ==
    ~crossing /\ ui.picked # Absent =>
        Answered("sessionReplay", ui.picked, ui.timeline = genReplay(ui.picked))
FoundInv ==
    /\ ui.asked = ShortId => ~NoCallOf("findIncident") \/ ui.found # Absent
    /\ ui.asked = LongId => ~NoCallOf("findReplay") \/ ui.foundReplay # Absent

ConIInv ==
    /\ PageInv /\ FlyingInv /\ PanelsInv /\ RealInv
    /\ AloneInv /\ MockInv
    /\ ApartInv /\ DrawerInv /\ SessionInv /\ FoundInv

(* What an action leaves alone: the fields of the page outside F, the calls for *)
(* one kind of panel.                                                         *)
Changes(F) == \A f \in Fields \ F : ui'[f] = ui[f]
SameCalls(kind) ==
    \A i \in Calls : flying[i].kind = kind \/ flying'[i].kind = kind => flying'[i] = flying[i]

LEMMA FlightFields ==
    ASSUME NEW k, NEW a
    PROVE  Flight(k, a).kind = k /\ Flight(k, a).arg = a /\ NoFlight = Flight("none", Absent)
BY DEF Flight, NoFlight

(* The incident of an event keeps its decision, a missing one too. *)
LEMMA MadeFacts ==
    ASSUME NEW e \in MadeEvents
    PROVE  /\ e # Absent /\ IncidentOf(e) # Absent /\ ~IncidentOf(e).real
           /\ IncidentOf(e).request = e.request /\ IncidentOf(e).decision = e.decision
           /\ e.decision \in DECISIONS \cup {Absent}
<1>1. PICK k \in DOMAIN genEvents : e = genEvents[k]
    BY DEF MadeEvents, genEvents
<1>2. e # Absent /\ IncidentOf(e) # Absent
    BY <1>1, AbsentIsNoValue DEF IncidentOf
<1>3. IncidentOf(e) = [[request  |-> e.request, real |-> FALSE,
                        decision |-> IF e.decision # Absent THEN e.decision ELSE "deny"]
                           EXCEPT !.decision = e.decision]
    BY <1>2 DEF IncidentOf, genIncident
<1>4. e = genEvent(Generated[k], k)
    BY <1>1 DEF genEvents
<1>5. e.decision = decisionFor(Generated[k])
    BY <1>4 DEF genEvent
<1>6. e.decision \in DECISIONS \cup {Absent}
    BY <1>5 DEF decisionFor, DECISIONS
<1> QED
    BY <1>2, <1>3, <1>6

LEMMA FoundFacts ==
    /\ \A x \in FoundIncidents : x # Absent /\ x.request = ShortId /\ x.decision = "deny"
    /\ \A x \in FoundReplays : x # Absent /\ x.session = LongId
<1>1. \A real \in BOOLEAN : [genIncident(ShortId, Absent) EXCEPT !.real = real] # Absent
    BY AbsentIsNoValue, Zenon
<1>2. \A real \in BOOLEAN : [genReplay(LongId) EXCEPT !.real = real] # Absent
    BY AbsentIsNoValue, Zenon
<1>3. genIncident(ShortId, Absent) = [request |-> ShortId, real |-> FALSE, decision |-> "deny"]
    BY DEF genIncident
<1>4. genReplay(LongId) = [session |-> LongId, real |-> FALSE, types |-> ReplayTypes]
    BY DEF genReplay
<1> QED
    BY <1>1, <1>2, <1>3, <1>4 DEF FoundIncidents, FoundReplays

(* A call that begins, and one that is answered. *)
LEMMA Begins ==
    ASSUME FlyingInv, NEW i \in Calls, NEW kind, NEW arg, kind # "none", FlightArg(kind, arg),
           BeginCall(i, kind, arg)
    PROVE  /\ FlyingInv' /\ flying'[i] = Flight(kind, arg) /\ flying[i].kind = "none"
           /\ \A j \in Calls : j # i => flying'[j] = flying[j]
           /\ \A k : k \notin {"none", kind} => SameCalls(k)
           /\ ~crossing' => ~crossing /\ NoCallOf(kind)
           /\ crossing' => crossing \/ ~NoCallOf(kind)
           /\ ApartInv => ApartInv'
<1>1. flying[i] = NoFlight /\ flying' = [flying EXCEPT ![i] = Flight(kind, arg)]
    BY DEF BeginCall, Unused
<1>2. flying'[i] = Flight(kind, arg) /\ \A j \in Calls : j # i => flying'[j] = flying[j]
    BY <1>1 DEF FlyingInv
<1>3. flying' = [j \in Calls |-> flying'[j]]
    BY <1>1 DEF FlyingInv
<1>4. flying'[i].kind = kind /\ flying'[i].arg = arg /\ flying[i].kind = "none"
    BY <1>1, <1>2, FlightFields
<1>5. FlyingInv'
    BY <1>2, <1>3, <1>4 DEF FlyingInv, FlightArg
<1>6. \A k : k \notin {"none", kind} => SameCalls(k)
    BY <1>2, <1>4 DEF SameCalls
<1>7. crossing' = (crossing \/ Flying({kind}) # {})
    BY Zenon DEF BeginCall
<1>8. Flying({kind}) = {} <=> NoCallOf(kind)
    BY DEF Flying, NoCallOf
<1>9. (~crossing' => ~crossing /\ NoCallOf(kind)) /\ (crossing' => crossing \/ ~NoCallOf(kind))
    BY <1>7, <1>8, Zenon
<1>10. ApartInv => ApartInv'
    BY <1>2, <1>4, <1>9 DEF ApartInv, NoCallOf
<1> QED
    BY <1>2, <1>4, <1>5, <1>6, <1>9, <1>10

LEMMA Lands ==
    ASSUME FlyingInv, NEW i \in Calls, NEW kind, kind # "none", Land(i, kind)
    PROVE  /\ FlyingInv' /\ flying[i] = Flight(kind, flying[i].arg) /\ flying[i].kind = kind
           /\ FlightArg(kind, flying[i].arg)
           /\ flying'[i].kind = "none" /\ \A j \in Calls : j # i => flying'[j] = flying[j]
           /\ \A k : k \notin {"none", kind} => SameCalls(k)
           /\ crossing' = crossing /\ useMock' = useMock
           /\ ApartInv => ApartInv'
           /\ AloneInv => AloneInv'
           /\ ~crossing /\ ApartInv => NoCallOf(kind)'
<1>1. flying[i].kind = kind /\ flying' = [flying EXCEPT ![i] = NoFlight]
    BY DEF Land
<1>2. flying'[i] = NoFlight /\ \A j \in Calls : j # i => flying'[j] = flying[j]
    BY <1>1 DEF FlyingInv
<1>3. flying' = [j \in Calls |-> flying'[j]]
    BY <1>1 DEF FlyingInv
<1>4. flying'[i].kind = "none" /\ flying'[i].arg = Absent /\ NoFlight = Flight("none", Absent)
    BY <1>2, FlightFields
<1>5. FlyingInv'
    BY <1>2, <1>3, <1>4 DEF FlyingInv, FlightArg
<1>6. \A k : k \notin {"none", kind} => SameCalls(k)
    BY <1>1, <1>2, <1>4 DEF SameCalls
<1>7. crossing' = crossing /\ useMock' = useMock
    BY Zenon DEF Land
<1>8. \A j \in Calls : flying'[j].kind # "none" => flying'[j] = flying[j]
    BY <1>2, <1>4
<1>9. (ApartInv => ApartInv') /\ (AloneInv => AloneInv')
    BY <1>7, <1>8 DEF ApartInv, AloneInv
<1>10. ~crossing /\ ApartInv => NoCallOf(kind)'
    BY <1>1, <1>2, <1>4 DEF ApartInv, NoCallOf
<1> QED
    BY <1>1, <1>2, <1>4, <1>5, <1>6, <1>7, <1>9, <1>10 DEF FlyingInv

(* Panels that an action does not touch. *)
LEMMA DrawerKept ==
    ASSUME DrawerInv, ~crossing' => ~crossing, SameCalls("incident"),
           ui'.selected = ui.selected, ui'.incident = ui.incident
    PROVE  DrawerInv'
BY DEF DrawerInv, Answered, SameCalls, NoCallOf, Flight

LEMMA SessionKept ==
    ASSUME SessionInv, ~crossing' => ~crossing, SameCalls("sessionReplay"),
           ui'.picked = ui.picked, ui'.timeline = ui.timeline
    PROVE  SessionInv'
BY DEF SessionInv, Answered, SameCalls, NoCallOf, Flight

LEMMA AskedKept ==
    ASSUME FoundInv, SameCalls("findIncident"), SameCalls("findReplay"),
           Changes({"rows", "selected", "incident", "replay", "showReplay", "picked", "timeline",
                 "paused", "filter", "q", "tab", "fading"})
    PROVE  FoundInv'
<1>1. ui'.asked = ui.asked /\ ui'.found = ui.found /\ ui'.foundReplay = ui.foundReplay
    BY DEF Changes, Fields
<1>2. (NoCallOf("findIncident")' => NoCallOf("findIncident"))
          /\ (NoCallOf("findReplay")' => NoCallOf("findReplay"))
    BY DEF SameCalls, NoCallOf
<1> QED
    BY <1>1, <1>2 DEF FoundInv

LEMMA NoneFlying ==
    ASSUME Settled, useMock
    PROVE  \A i \in Calls : flying[i].kind = "none"
BY DEF Settled, Flying

LEMMA Committed ==
    ASSUME NEW u, Commit(u), DOMAIN u = Fields
    PROVE  PageInv' /\ ui' = u
<1>1. ui' = u /\ (blank' <=> ~Renders(u))
    BY Zenon DEF Commit
<1> QED
    BY <1>1, Zenon DEF PageInv

LEMMA ConInitInv == ConInit => ConIInv
<1> SUFFICES ASSUME ConInit PROVE ConIInv
    OBVIOUS
<1>1. ui = FreshPage /\ flying = [i \in Calls |-> NoFlight]
    BY DEF ConInit
<1>2. \A i \in Calls : flying[i] = NoFlight /\ flying[i].kind = "none" /\ flying[i].arg = Absent
          /\ NoFlight = Flight("none", Absent)
    BY <1>1, FlightFields
<1>3. FlyingInv
    BY <1>1, <1>2 DEF FlyingInv, FlightArg
<1>4. DOMAIN ui = Fields /\ Renders(ui)
    BY <1>1 DEF FreshPage, Fields, NoRows, Renders, DrawerRenders, ListWorks
<1>5. PageInv
    <2>1. blank = FALSE
        BY DEF ConInit
    <2> QED
        BY <1>4, <2>1, Zenon DEF PageInv
<1>6. PanelsInv /\ RealInv
    BY <1>1 DEF FreshPage, NoRows, PanelsInv, RealInv
<1>7. AloneInv /\ ApartInv
    BY <1>2 DEF ConInit, AloneInv, ApartInv
<1>8. MockInv /\ DrawerInv /\ SessionInv
    BY <1>1, <1>2 DEF FreshPage, MockInv, DrawerInv, SessionInv
<1>9. FoundInv
    BY <1>1, ConTexts DEF FreshPage, FoundInv
<1> QED
    BY <1>3, <1>5, <1>6, <1>7, <1>8, <1>9 DEF ConIInv

(* A page that is opened starts from nothing, with at most one call. *)
LEMMA Navigates == ASSUME ConIInv, NEW p, NavigateTo(p) PROVE ConIInv'
<1> DEFINE fresh == IF p # "/sessions" THEN FreshPage
                    ELSE [FreshPage EXCEPT !.listed = genSessions,
                              !.picked = IF genSessions = << >> THEN Absent ELSE genSessions[1]]
<1>1. Commit(fresh) /\ flying' = [j \in Calls |-> IF j = 1 THEN Loads(p) ELSE NoFlight]
    BY DEF NavigateTo
<1>2. crossing' = FALSE /\ useMock' = useMock /\ realShown' = realShown
    BY Zenon DEF NavigateTo
<1>3. DOMAIN fresh = Fields
    BY DEF FreshPage, Fields
<1>4. PageInv' /\ ui' = fresh
    <2> HIDE DEF fresh
    <2> QED
        BY <1>1, <1>3, Committed
<1>5. /\ ui'.selected = Absent /\ ui'.incident = Absent /\ ui'.replay = Absent /\ ~ui'.showReplay
      /\ ui'.timeline = Absent /\ ui'.found = Absent /\ ui'.foundReplay = Absent
      /\ ui'.asked = Absent /\ ~ui'.rows.real
    BY <1>4 DEF FreshPage, NoRows
<1>6. \/ ui'.picked = Absent
      \/ p = "/sessions" /\ genSessions # << >> /\ ui'.picked = genSessions[1]
    BY <1>4 DEF FreshPage
<1>7. p = "/sessions" /\ genSessions # << >> =>
          Loads(p) = Flight("sessionReplay", genSessions[1]) /\ genSessions[1] \in Sessions
    BY SessionNames DEF Loads, genSessions, Sessions
<1>8. \/ Loads(p) \in {NoFlight, Flight("events", Absent)}
      \/ p = "/sessions" /\ genSessions # << >>
    <2>1. p \in {"/", "/threats", "/forensics"} => Loads(p) = Flight("events", Absent)
        BY DEF Loads
    <2>2. p \notin {"/", "/threats", "/forensics"} /\ ~(p = "/sessions" /\ genSessions # << >>)
              => Loads(p) = NoFlight
        BY DEF Loads
    <2> QED
        BY <2>1, <2>2
<1>9. FlyingInv'
    <2>1. FlightArg("none", Absent) /\ FlightArg("events", Absent)
              /\ \A s \in Sessions : FlightArg("sessionReplay", s)
        BY DEF FlightArg
    <2>2. \A j \in Calls : flying'[j] \in {NoFlight, Flight("events", Absent)}
                               \cup {Flight("sessionReplay", s) : s \in Sessions}
        BY <1>1, <1>7, <1>8
    <2>3. \A j \in Calls : flying'[j] = Flight(flying'[j].kind, flying'[j].arg)
              /\ FlightArg(flying'[j].kind, flying'[j].arg)
              /\ (flying'[j].kind = "none" => flying'[j] = NoFlight)
        BY <2>1, <2>2, FlightFields
    <2> QED
        BY <1>1, <2>3 DEF FlyingInv
<1>10. \A j \in Calls : flying'[j].kind # "none" => j = 1
    BY <1>1, FlightFields
<1>11. \A j \in Calls : flying'[j].kind \notin {"incident", "replay"}
    BY <1>1, <1>7, <1>8, FlightFields
<1>12. PanelsInv' /\ RealInv'
    BY <1>5, <1>6, <1>7 DEF PanelsInv, RealInv
<1>13. AloneInv' /\ ApartInv'
    BY <1>2, <1>10 DEF AloneInv, ApartInv
<1>14. MockInv' /\ DrawerInv'
    BY <1>5, <1>11 DEF MockInv, DrawerInv
<1>15. SessionInv'
    BY <1>1, <1>6, <1>7, ConBounds DEF SessionInv, Answered
<1>16. FoundInv'
    BY <1>5, ConTexts DEF FoundInv
<1> QED
    BY <1>4, <1>9, <1>12, <1>13, <1>14, <1>15, <1>16 DEF ConIInv

(* Pausing, filtering, typing, changing tabs, a drawer that is gone: no panel is *)
(* touched.                                                                   *)
LEMMA ViewChanges ==
    ASSUME ConIInv, NEW u, Commit(u), DOMAIN u = Fields,
           Changes({"paused", "filter", "q", "tab", "fading"}),
           UNCHANGED <<useMock, flying, realShown, crossing>>
    PROVE  ConIInv'
<1>1. PageInv' /\ ui' = u
    BY Committed
<1>2. /\ ui'.selected = ui.selected /\ ui'.incident = ui.incident /\ ui'.replay = ui.replay
      /\ ui'.showReplay = ui.showReplay /\ ui'.timeline = ui.timeline /\ ui'.picked = ui.picked
      /\ ui'.found = ui.found /\ ui'.foundReplay = ui.foundReplay /\ ui'.asked = ui.asked
      /\ ui'.rows = ui.rows
    BY DEF Changes, Fields
<1>3. useMock' = useMock /\ flying' = flying /\ realShown' = realShown /\ crossing' = crossing
    BY Zenon
<1>4. PanelsInv' /\ FlyingInv'
    BY <1>2, <1>3 DEF ConIInv, PanelsInv, FlyingInv
<1>5. RealInv'
    BY <1>2, <1>3 DEF ConIInv, RealInv
<1>6. AloneInv' /\ ApartInv' /\ MockInv'
    BY <1>2, <1>3 DEF ConIInv, AloneInv, ApartInv, MockInv
<1>7. DrawerInv' /\ SessionInv' /\ FoundInv'
    BY <1>2, <1>3 DEF ConIInv, DrawerInv, SessionInv, FoundInv, Answered, NoCallOf
<1> QED
    BY <1>1, <1>4, <1>5, <1>6, <1>7 DEF ConIInv

LEMMA Inputs ==
    ASSUME ConIInv,
           \/ TogglePause \/ DrawerGone \/ \E f : SetFilter(f)
           \/ \E text : TypeQuery(text) \/ \E t : ChooseTab(t)
    PROVE  ConIInv'
<1> DOMAIN ui = Fields
    BY DEF ConIInv, PageInv
<1>1. CASE TogglePause
    <2> DEFINE u == [ui EXCEPT !.paused = ~@]
    <2>1. Commit(u) /\ ui' = u /\ UNCHANGED <<useMock, flying, realShown, crossing>>
        BY <1>1, Zenon DEF TogglePause, Commit
    <2>2. DOMAIN u = Fields /\ Changes({"paused", "filter", "q", "tab", "fading"})
        BY <2>1 DEF Changes
    <2> QED
        BY <2>1, <2>2, ViewChanges
<1>2. ASSUME NEW f, SetFilter(f) PROVE ConIInv'
    <2> DEFINE u == [ui EXCEPT !.filter = f]
    <2>1. Commit(u) /\ ui' = u /\ UNCHANGED <<useMock, flying, realShown, crossing>>
        BY <1>2, Zenon DEF SetFilter, Commit
    <2>2. DOMAIN u = Fields /\ Changes({"paused", "filter", "q", "tab", "fading"})
        BY <2>1 DEF Changes
    <2> QED
        BY <2>1, <2>2, ViewChanges
<1>3. ASSUME NEW text, TypeQuery(text) PROVE ConIInv'
    <2> DEFINE u == [ui EXCEPT !.q = text, !.tab = detectKind(text)]
    <2>1. Commit(u) /\ ui' = u /\ UNCHANGED <<useMock, flying, realShown, crossing>>
        BY <1>3, Zenon DEF TypeQuery, Commit
    <2>2. DOMAIN u = Fields /\ Changes({"paused", "filter", "q", "tab", "fading"})
        BY <2>1 DEF Changes
    <2> QED
        BY <2>1, <2>2, ViewChanges
<1>4. ASSUME NEW t, ChooseTab(t) PROVE ConIInv'
    <2> DEFINE u == [ui EXCEPT !.tab = t]
    <2>1. Commit(u) /\ ui' = u /\ UNCHANGED <<useMock, flying, realShown, crossing>>
        BY <1>4, Zenon DEF ChooseTab, Commit
    <2>2. DOMAIN u = Fields /\ Changes({"paused", "filter", "q", "tab", "fading"})
        BY <2>1 DEF Changes
    <2> QED
        BY <2>1, <2>2, ViewChanges
<1>5. CASE DrawerGone
    <2> DEFINE u == [ui EXCEPT !.fading = FALSE]
    <2>1. Commit(u) /\ ui' = u /\ UNCHANGED <<useMock, flying, realShown, crossing>>
        BY <1>5, Zenon DEF DrawerGone, Commit
    <2>2. DOMAIN u = Fields /\ Changes({"paused", "filter", "q", "tab", "fading"})
        BY <2>1 DEF Changes
    <2> QED
        BY <2>1, <2>2, ViewChanges
<1> QED
    BY <1>1, <1>2, <1>3, <1>4, <1>5

(* The drawer *****************************************************************)
LEMMA DrawerOpens ==
    ASSUME ConIInv, NEW e, NEW i \in Calls, e \in MadeEvents, SelectEvent(e, i)
    PROVE  ConIInv'
<1> USE DEF ConIInv
<1> DEFINE u == [ui EXCEPT !.selected = e, !.showReplay = FALSE, !.replay = Absent,
                           !.fading = FALSE]
<1>1. /\ Commit(u) /\ BeginCall(i, "incident", e) /\ CanAct
      /\ useMock' = useMock /\ realShown' = realShown
    BY Zenon DEF SelectEvent
<1>2. DOMAIN u = Fields
    BY DEF PageInv
<1>3. PageInv' /\ ui' = u
    BY <1>1, <1>2, Committed
<1>4. ui'.selected = e /\ ~ui'.showReplay /\ ui'.replay = Absent
    BY <1>3 DEF PageInv, Fields
<1>5. Changes({"selected", "showReplay", "replay", "fading"})
    BY <1>3 DEF PageInv, Changes
<1>6. /\ ui'.incident = ui.incident /\ ui'.rows = ui.rows /\ ui'.found = ui.found
      /\ ui'.foundReplay = ui.foundReplay /\ ui'.timeline = ui.timeline /\ ui'.picked = ui.picked
    BY <1>5 DEF Changes, Fields
<1>7. /\ FlyingInv' /\ flying'[i] = Flight("incident", e) /\ flying[i].kind = "none"
      /\ \A j \in Calls : j # i => flying'[j] = flying[j]
      /\ \A k : k \notin {"none", "incident"} => SameCalls(k)
      /\ ~crossing' => ~crossing /\ NoCallOf("incident")
      /\ crossing' => crossing \/ ~NoCallOf("incident")
      /\ ApartInv'
    BY <1>1, Begins DEF FlightArg
<1>8. PanelsInv' /\ RealInv'
    BY <1>1, <1>4, <1>6 DEF PanelsInv, RealInv
<1>9. AloneInv' /\ MockInv'
    <2>1. useMock => /\ \A j \in Calls : flying[j].kind = "none"
                     /\ ui.selected = Absent
        BY <1>1, NoneFlying DEF CanAct
    <2>2. useMock => NoCallOf("incident") /\ ~crossing
        BY <2>1 DEF NoCallOf, AloneInv
    <2>3. useMock => ~crossing'
        BY <1>7, <2>2
    <2>4. AloneInv'
        BY <1>1, <1>7, <2>1, <2>3 DEF AloneInv
    <2>5. useMock => ui.incident = Absent
        BY <2>1 DEF MockInv
    <2>6. e # Absent /\ flying'[i].arg = e
        BY <1>7, MadeFacts, FlightFields
    <2>7. MockInv'
        BY <1>1, <1>4, <1>6, <1>7, <2>1, <2>5, <2>6 DEF MockInv
    <2> QED
        BY <2>4, <2>7
<1>10. DrawerInv'
    BY <1>4, <1>7 DEF DrawerInv, Answered
<1>11. SessionInv'
    BY <1>6, <1>7, SessionKept
<1>12. FoundInv'
    BY <1>5, <1>7, AskedKept DEF Changes
<1> QED
    BY <1>3, <1>7, <1>8, <1>9, <1>10, <1>11, <1>12

LEMMA DrawerCloses == ASSUME ConIInv, onClose PROVE ConIInv'
<1> USE DEF ConIInv
<1> DEFINE u == [ui EXCEPT !.selected = Absent, !.showReplay = FALSE, !.replay = Absent,
                           !.incident = Absent, !.fading = TRUE]
<1>1. Commit(u) /\ Settled /\ useMock' = useMock /\ realShown' = realShown
          /\ flying' = flying /\ crossing' = crossing
    BY Zenon DEF onClose
<1>2. DOMAIN u = Fields
    BY DEF PageInv
<1>3. PageInv' /\ ui' = u
    BY <1>1, <1>2, Committed
<1>4. ui'.selected = Absent /\ ~ui'.showReplay /\ ui'.replay = Absent /\ ui'.incident = Absent
    BY <1>3 DEF PageInv, Fields
<1>5. Changes({"selected", "showReplay", "replay", "incident", "fading"})
    BY <1>3 DEF PageInv, Changes
<1>6. /\ ui'.rows = ui.rows /\ ui'.found = ui.found
      /\ ui'.foundReplay = ui.foundReplay /\ ui'.timeline = ui.timeline /\ ui'.picked = ui.picked
    BY <1>5 DEF Changes, Fields
<1>7. FlyingInv' /\ AloneInv' /\ ApartInv' /\ \A k : SameCalls(k)
    BY <1>1 DEF FlyingInv, AloneInv, ApartInv, SameCalls
<1>8. PanelsInv' /\ RealInv'
    BY <1>1, <1>4, <1>6 DEF PanelsInv, RealInv
<1>9. MockInv' /\ DrawerInv'
    BY <1>1, <1>4, NoneFlying DEF MockInv, DrawerInv
<1>10. SessionInv' /\ FoundInv'
    BY <1>1, <1>5, <1>6, <1>7, SessionKept, AskedKept DEF Changes
<1> QED
    BY <1>3, <1>7, <1>8, <1>9, <1>10

(* A tick of the feed, a replay asked for: the page is as it was. *)
LEMMA CallsOnly ==
    ASSUME ConIInv, NEW i \in Calls, NEW kind \in {"refresh", "replay"}, NEW arg, Settled,
           kind = "replay" => ui.selected # Absent /\ arg = ui.selected,
           BeginCall(i, kind, arg), UNCHANGED <<useMock, ui, blank, realShown>>
    PROVE  ConIInv'
<1> USE DEF ConIInv
<1>1. useMock' = useMock /\ realShown' = realShown /\ ui' = ui /\ blank' = blank
    BY Zenon
<1>2. PageInv'
    <2>1. DOMAIN ui' = Fields /\ (Renders(ui') <=> Renders(ui))
        BY <1>1 DEF PageInv
    <2>2. blank <=> ~Renders(ui)
        BY Zenon DEF PageInv
    <2> QED
        BY <1>1, <2>1, <2>2, Zenon DEF PageInv
<1>3. /\ FlyingInv' /\ flying'[i] = Flight(kind, arg) /\ flying[i].kind = "none"
      /\ \A j \in Calls : j # i => flying'[j] = flying[j]
      /\ \A k : k \notin {"none", kind} => SameCalls(k)
      /\ ~crossing' => ~crossing /\ NoCallOf(kind)
      /\ crossing' => crossing \/ ~NoCallOf(kind)
      /\ ApartInv'
    BY Begins DEF FlightArg
<1>4. PanelsInv' /\ RealInv'
    BY <1>1 DEF PanelsInv, RealInv
<1>5. AloneInv' /\ MockInv'
    <2>1. useMock => \A j \in Calls : flying[j].kind = "none"
        BY NoneFlying
    <2>2. useMock => NoCallOf(kind) /\ ~crossing
        BY <2>1 DEF NoCallOf, AloneInv
    <2>3. useMock => ~crossing'
        BY <1>3, <2>2
    <2>4. AloneInv'
        BY <1>1, <1>3, <2>1, <2>3 DEF AloneInv
    <2>5. flying'[i].arg = arg /\ flying'[i].kind = kind
        BY <1>3, FlightFields
    <2>6. MockInv'
        BY <1>1, <1>3, <2>1, <2>5 DEF MockInv
    <2> QED
        BY <2>4, <2>6
<1>6. SameCalls("incident") /\ SameCalls("sessionReplay")
          /\ SameCalls("findIncident") /\ SameCalls("findReplay")
    BY <1>3
<1>7. DrawerInv' /\ SessionInv' /\ FoundInv'
    <2>1. Changes({"rows", "selected", "incident", "replay", "showReplay", "picked", "timeline",
                "paused", "filter", "q", "tab", "fading"})
        BY <1>1 DEF Changes
    <2> QED
        BY <1>1, <1>3, <1>6, <2>1, DrawerKept, SessionKept, AskedKept
<1> QED
    BY <1>2, <1>3, <1>4, <1>5, <1>7

(* The sessions page **********************************************************)
LEMMA Picks ==
    ASSUME ConIInv, NEW s \in Sessions, NEW i \in Calls, PickSession(s, i)
    PROVE  ConIInv'
<1> USE DEF ConIInv
<1> DEFINE u == [ui EXCEPT !.picked = s, !.timeline = Absent]
<1>1. /\ Commit(u) /\ BeginCall(i, "sessionReplay", s) /\ CanAct
      /\ useMock' = useMock /\ realShown' = realShown
    BY Zenon DEF PickSession
<1>2. DOMAIN u = Fields
    BY DEF PageInv
<1>3. PageInv' /\ ui' = u
    BY <1>1, <1>2, Committed
<1>4. ui'.picked = s /\ ui'.timeline = Absent
    BY <1>3 DEF PageInv, Fields
<1>5. Changes({"picked", "timeline"})
    BY <1>3 DEF PageInv, Changes
<1>6. /\ ui'.selected = ui.selected /\ ui'.incident = ui.incident /\ ui'.rows = ui.rows
      /\ ui'.found = ui.found /\ ui'.foundReplay = ui.foundReplay
      /\ ui'.replay = ui.replay /\ ui'.showReplay = ui.showReplay
    BY <1>5 DEF Changes, Fields
<1>7. /\ FlyingInv' /\ flying'[i] = Flight("sessionReplay", s) /\ flying[i].kind = "none"
      /\ \A j \in Calls : j # i => flying'[j] = flying[j]
      /\ \A k : k \notin {"none", "sessionReplay"} => SameCalls(k)
      /\ ~crossing' => ~crossing /\ NoCallOf("sessionReplay")
      /\ crossing' => crossing \/ ~NoCallOf("sessionReplay")
      /\ ApartInv'
    BY <1>1, Begins DEF FlightArg
<1>8. PanelsInv' /\ RealInv'
    BY <1>1, <1>4, <1>6 DEF PanelsInv, RealInv
<1>9. AloneInv' /\ MockInv'
    <2>1. useMock => \A j \in Calls : flying[j].kind = "none"
        BY <1>1, NoneFlying DEF CanAct
    <2>2. useMock => NoCallOf("sessionReplay") /\ ~crossing
        BY <2>1 DEF NoCallOf, AloneInv
    <2>3. useMock => ~crossing'
        BY <1>7, <2>2
    <2>4. AloneInv'
        BY <1>1, <1>7, <2>1, <2>3 DEF AloneInv
    <2>5. flying'[i].kind = "sessionReplay"
        BY <1>7, FlightFields
    <2>6. MockInv'
        BY <1>1, <1>6, <1>7, <2>1, <2>5 DEF MockInv
    <2> QED
        BY <2>4, <2>6
<1>10. SessionInv'
    BY <1>4, <1>7 DEF SessionInv, Answered
<1>11. DrawerInv'
    BY <1>6, <1>7, DrawerKept
<1>12. FoundInv'
    BY <1>5, <1>7, AskedKept DEF Changes
<1> QED
    BY <1>3, <1>7, <1>8, <1>9, <1>10, <1>11, <1>12

(* The forensics page: what is looked up is remembered, and looked up. *)
LEMMA SearchBegins == ASSUME ConIInv, NEW i \in Calls, onSearch(i) PROVE ConIInv'
<1> USE DEF ConIInv
<1> DEFINE asked == IF detectKind(ui.q) = "events" THEN ui.asked ELSE ui.q
           u == [ui EXCEPT !.tab = detectKind(ui.q), !.asked = asked]
<1>1. Commit(u) /\ CanAct /\ useMock' = useMock /\ realShown' = realShown
    BY Zenon DEF onSearch
<1>2. DOMAIN u = Fields
    BY DEF PageInv
<1>3. PageInv' /\ ui' = u
    <2> HIDE DEF u
    <2> QED
        BY <1>1, <1>2, Committed
<1>4. ui'.asked = asked
    BY <1>3 DEF PageInv, Fields
<1>5. Changes({"tab", "asked"})
    BY <1>3 DEF PageInv, Changes
<1>6. /\ ui'.selected = ui.selected /\ ui'.incident = ui.incident /\ ui'.rows = ui.rows
      /\ ui'.found = ui.found /\ ui'.foundReplay = ui.foundReplay
      /\ ui'.replay = ui.replay /\ ui'.showReplay = ui.showReplay
      /\ ui'.picked = ui.picked /\ ui'.timeline = ui.timeline
    BY <1>5 DEF Changes, Fields
<1>7. PanelsInv' /\ RealInv'
    BY <1>1, <1>6 DEF PanelsInv, RealInv
<1>8. \/ detectKind(ui.q) = "session" /\ ui.q = LongId /\ BeginCall(i, "findReplay", LongId)
      \/ detectKind(ui.q) = "incident" /\ ui.q = ShortId /\ BeginCall(i, "findIncident", ShortId)
      \/ detectKind(ui.q) = "events" /\ flying' = flying /\ crossing' = crossing
    <2>1. \/ detectKind(ui.q) = "session" /\ ui.q = LongId
          \/ detectKind(ui.q) = "incident" /\ ui.q = ShortId
          \/ detectKind(ui.q) = "events"
        BY DEF detectKind
    <2>2. CASE detectKind(ui.q) = "session" /\ ui.q = LongId
        BY <2>2, Zenon DEF onSearch
    <2>3. CASE detectKind(ui.q) = "incident" /\ ui.q = ShortId
        BY <2>3, Zenon DEF onSearch
    <2>4. CASE detectKind(ui.q) = "events"
        BY <2>4, Zenon DEF onSearch
    <2> QED
        BY <2>1, <2>2, <2>3, <2>4
<1>9. ASSUME detectKind(ui.q) = "events", flying' = flying, crossing' = crossing PROVE ConIInv'
    <2>1. ui'.asked = ui.asked
        BY <1>4, <1>9
    <2>2. FlyingInv' /\ AloneInv' /\ ApartInv' /\ MockInv' /\ DrawerInv' /\ SessionInv' /\ FoundInv'
        BY <1>1, <1>6, <1>9, <2>1
        DEF FlyingInv, AloneInv, ApartInv, MockInv, DrawerInv, SessionInv, FoundInv, Answered,
            NoCallOf
    <2> QED
        BY <1>3, <1>7, <2>2
<1>10. ASSUME NEW kind \in {"findIncident", "findReplay"}, NEW arg, FlightArg(kind, arg),
              BeginCall(i, kind, arg)
       PROVE  /\ FlyingInv' /\ AloneInv' /\ ApartInv' /\ MockInv' /\ DrawerInv' /\ SessionInv'
              /\ flying'[i].kind = kind
              /\ \A k : k \notin {"none", kind} => SameCalls(k)
    <2>1. /\ FlyingInv' /\ flying'[i] = Flight(kind, arg) /\ flying[i].kind = "none"
          /\ \A j \in Calls : j # i => flying'[j] = flying[j]
          /\ \A k : k \notin {"none", kind} => SameCalls(k)
          /\ ~crossing' => ~crossing /\ NoCallOf(kind)
          /\ crossing' => crossing \/ ~NoCallOf(kind)
          /\ ApartInv'
        BY <1>10, Begins
    <2>2. useMock => \A j \in Calls : flying[j].kind = "none"
        BY <1>1, NoneFlying DEF CanAct
    <2>3. useMock => NoCallOf(kind) /\ ~crossing
        BY <2>2 DEF NoCallOf, AloneInv
    <2>4. useMock => ~crossing'
        BY <2>1, <2>3
    <2>5. flying'[i].kind = kind
        BY <2>1, FlightFields
    <2>6. AloneInv'
        BY <1>1, <2>1, <2>2, <2>4 DEF AloneInv
    <2>7. MockInv'
        BY <1>1, <1>6, <2>1, <2>2, <2>5 DEF MockInv
    <2>8. SameCalls("incident") /\ SameCalls("sessionReplay")
        BY <2>1
    <2>9. DrawerInv' /\ SessionInv'
        BY <1>6, <2>1, <2>8, DrawerKept, SessionKept
    <2> QED
        BY <2>1, <2>5, <2>6, <2>7, <2>9
<1>11. ASSUME detectKind(ui.q) = "session", ui.q = LongId, BeginCall(i, "findReplay", LongId)
       PROVE  ConIInv'
    <2>1. ui'.asked = LongId
        BY <1>4, <1>11
    <2>2. FoundInv'
        <3>1. ~NoCallOf("findReplay")'
            BY <1>10, <1>11 DEF FlightArg, NoCallOf
        <3> QED
            BY <2>1, <3>1, ConTexts DEF FoundInv
    <2>3. FlyingInv' /\ AloneInv' /\ ApartInv' /\ MockInv' /\ DrawerInv' /\ SessionInv'
        BY <1>10, <1>11 DEF FlightArg
    <2> QED
        BY <1>3, <1>7, <2>2, <2>3
<1>12. ASSUME detectKind(ui.q) = "incident", ui.q = ShortId, BeginCall(i, "findIncident", ShortId)
       PROVE  ConIInv'
    <2>1. ui'.asked = ShortId
        BY <1>4, <1>12
    <2>2. FoundInv'
        <3>1. ~NoCallOf("findIncident")'
            BY <1>10, <1>12 DEF FlightArg, NoCallOf
        <3> QED
            BY <2>1, <3>1, ConTexts DEF FoundInv
    <2>3. FlyingInv' /\ AloneInv' /\ ApartInv' /\ MockInv' /\ DrawerInv' /\ SessionInv'
        BY <1>10, <1>12 DEF FlightArg
    <2> QED
        BY <1>3, <1>7, <2>2, <2>3
<1> QED
    BY <1>8, <1>9, <1>11, <1>12

(* Answers ********************************************************************)
(* An answer that may be a service's marks the run, without USE_MOCK only. *)
LEMMA RealAnswers ==
    ASSUME NEW real \in wrap(TRUE), realShown' = (realShown \/ real)
    PROVE  (real => realShown' /\ ~useMock) /\ (realShown => realShown')
<1>1. CASE useMock
    BY <1>1, Zenon DEF wrap
<1>2. CASE ~useMock
    <2>1. realShown' <=> (realShown \/ real)
        BY Zenon
    <2> QED
        BY <1>2, <2>1, Zenon
<1> QED
    BY <1>1, <1>2

LEMMA RowsLand ==
    ASSUME ConIInv, NEW i \in Calls, EventsLanded(i) \/ RefreshLanded(i)
    PROVE  ConIInv'
<1> USE DEF ConIInv
<1>1. PICK kind \in {"events", "refresh"}, real \in wrap(TRUE) :
          /\ Land(i, kind) /\ realShown' = (realShown \/ real)
          /\ \E list : Commit([ui EXCEPT !.rows = [real |-> real, list |-> list]])
    <2>1. CASE EventsLanded(i)
        BY <2>1, Zenon DEF EventsLanded
    <2>2. CASE RefreshLanded(i)
        BY <2>2, Zenon DEF RefreshLanded
    <2> QED
        BY <2>1, <2>2, Zenon
<1> PICK rows : Commit([ui EXCEPT !.rows = [real |-> real, list |-> rows]])
    BY <1>1
<1> DEFINE u == [ui EXCEPT !.rows = [real |-> real, list |-> rows]]
<1>2. DOMAIN u = Fields
    BY DEF PageInv
<1>3. PageInv' /\ ui' = u
    BY <1>1, <1>2, Committed
<1>4. ui'.rows.real = real
    BY <1>3 DEF PageInv, Fields
<1>5. Changes({"rows"})
    BY <1>3 DEF PageInv, Changes
<1>6. /\ ui'.selected = ui.selected /\ ui'.incident = ui.incident
      /\ ui'.found = ui.found /\ ui'.foundReplay = ui.foundReplay
      /\ ui'.replay = ui.replay /\ ui'.showReplay = ui.showReplay
      /\ ui'.picked = ui.picked /\ ui'.timeline = ui.timeline
    BY <1>5 DEF Changes, Fields
<1>7. /\ FlyingInv' /\ flying'[i].kind = "none" /\ \A j \in Calls : j # i => flying'[j] = flying[j]
      /\ \A k : k \notin {"none", kind} => SameCalls(k)
      /\ crossing' = crossing /\ useMock' = useMock /\ ApartInv' /\ AloneInv'
    BY <1>1, Lands
<1>8. PanelsInv'
    BY <1>6 DEF PanelsInv
<1>9. RealInv'
    <2>1. (real => realShown' /\ ~useMock) /\ (realShown => realShown')
        BY <1>1, RealAnswers
    <2> QED
        BY <1>4, <1>6, <1>7, <2>1 DEF RealInv
<1>10. MockInv'
    BY <1>6, <1>7 DEF MockInv
<1>11. SameCalls("incident") /\ SameCalls("sessionReplay")
           /\ SameCalls("findIncident") /\ SameCalls("findReplay")
    BY <1>7
<1>12. DrawerInv' /\ SessionInv' /\ FoundInv'
    BY <1>5, <1>6, <1>7, <1>11, DrawerKept, SessionKept, AskedKept DEF Changes
<1> QED
    BY <1>3, <1>7, <1>8, <1>9, <1>10, <1>12

LEMMA IncidentLands == ASSUME ConIInv, NEW i \in Calls, IncidentLanded(i) PROVE ConIInv'
<1> USE DEF ConIInv
<1> DEFINE e == flying[i].arg
           u == [ui EXCEPT !.incident = IncidentOf(e)]
<1>1. Land(i, "incident") /\ Commit(u) /\ realShown' = realShown
    BY DEF IncidentLanded, IncidentOf
<1>2. DOMAIN u = Fields
    BY DEF PageInv
<1>3. PageInv' /\ ui' = u
    BY <1>1, <1>2, Committed
<1>4. ui'.incident = IncidentOf(e)
    BY <1>3 DEF PageInv, Fields
<1>5. Changes({"incident"})
    BY <1>3 DEF PageInv, Changes
<1>6. /\ ui'.selected = ui.selected /\ ui'.rows = ui.rows
      /\ ui'.found = ui.found /\ ui'.foundReplay = ui.foundReplay
      /\ ui'.replay = ui.replay /\ ui'.showReplay = ui.showReplay
      /\ ui'.picked = ui.picked /\ ui'.timeline = ui.timeline
    BY <1>5 DEF Changes, Fields
<1>7. /\ FlyingInv' /\ e \in MadeEvents
      /\ flying[i] = Flight("incident", e) /\ flying[i].kind = "incident"
      /\ flying'[i].kind = "none" /\ \A j \in Calls : j # i => flying'[j] = flying[j]
      /\ \A k : k \notin {"none", "incident"} => SameCalls(k)
      /\ crossing' = crossing /\ useMock' = useMock /\ ApartInv' /\ AloneInv'
      /\ ~crossing => NoCallOf("incident")'
    BY <1>1, Lands DEF FlightArg
<1>8. PanelsInv' /\ RealInv'
    BY <1>1, <1>4, <1>6, <1>7 DEF PanelsInv, RealInv
<1>9. MockInv'
    <2>1. useMock => ui.selected # Absent /\ e = ui.selected
        BY <1>7 DEF MockInv
    <2> QED
        BY <1>4, <1>6, <1>7, <2>1 DEF MockInv
<1>10. DrawerInv'
    <2>1. ~crossing /\ ui.selected # Absent => e = ui.selected
        <3> SUFFICES ASSUME ~crossing, ui.selected # Absent PROVE e = ui.selected
            OBVIOUS
        <3>1. ~NoCallOf("incident")
            BY <1>7 DEF NoCallOf
        <3>2. PICK j \in Calls : flying[j] = Flight("incident", ui.selected)
            BY <3>1 DEF DrawerInv, Answered
        <3>3. flying[j].kind = "incident" /\ flying[j].arg = ui.selected
            BY <3>2, FlightFields
        <3>4. j = i
            BY <1>7, <3>3 DEF ApartInv
        <3> QED
            BY <3>3, <3>4
    <2> QED
        BY <1>4, <1>6, <1>7, <2>1 DEF DrawerInv, Answered
<1>11. SessionInv' /\ FoundInv'
    BY <1>5, <1>6, <1>7, SessionKept, AskedKept DEF Changes
<1> QED
    BY <1>3, <1>7, <1>8, <1>9, <1>10, <1>11

LEMMA DrawerReplayLands == ASSUME ConIInv, NEW i \in Calls, DrawerReplayLanded(i) PROVE ConIInv'
<1> USE DEF ConIInv
<1> DEFINE e == flying[i].arg
           u == [ui EXCEPT !.replay = genReplay(e.session), !.showReplay = TRUE]
<1>1. Land(i, "replay") /\ Commit(u) /\ realShown' = realShown
    BY DEF DrawerReplayLanded
<1>2. DOMAIN u = Fields
    BY DEF PageInv
<1>3. PageInv' /\ ui' = u
    BY <1>1, <1>2, Committed
<1>4. ui'.replay.session = e.session /\ ~ui'.replay.real
    BY <1>3 DEF PageInv, Fields, genReplay
<1>5. Changes({"replay", "showReplay"})
    BY <1>3 DEF PageInv, Changes
<1>6. /\ ui'.selected = ui.selected /\ ui'.incident = ui.incident /\ ui'.rows = ui.rows
      /\ ui'.found = ui.found /\ ui'.foundReplay = ui.foundReplay
      /\ ui'.picked = ui.picked /\ ui'.timeline = ui.timeline
    BY <1>5 DEF Changes, Fields
<1>7. /\ FlyingInv' /\ flying[i].kind = "replay"
      /\ flying'[i].kind = "none" /\ \A j \in Calls : j # i => flying'[j] = flying[j]
      /\ \A k : k \notin {"none", "replay"} => SameCalls(k)
      /\ crossing' = crossing /\ useMock' = useMock /\ ApartInv' /\ AloneInv'
    BY <1>1, Lands
<1>8. PanelsInv' /\ RealInv'
    BY <1>1, <1>4, <1>6, <1>7 DEF PanelsInv, RealInv
<1>9. MockInv'
    <2>1. useMock => ui.selected # Absent /\ e = ui.selected
        BY <1>7 DEF MockInv
    <2> QED
        BY <1>4, <1>6, <1>7, <2>1 DEF MockInv
<1>10. SameCalls("incident") /\ SameCalls("sessionReplay")
           /\ SameCalls("findIncident") /\ SameCalls("findReplay")
    BY <1>7
<1>11. DrawerInv' /\ SessionInv' /\ FoundInv'
    BY <1>5, <1>6, <1>7, <1>10, DrawerKept, SessionKept, AskedKept DEF Changes
<1> QED
    BY <1>3, <1>7, <1>8, <1>9, <1>11

LEMMA SessionReplayLands == ASSUME ConIInv, NEW i \in Calls, SessionReplayLanded(i) PROVE ConIInv'
<1> USE DEF ConIInv
<1> DEFINE s == flying[i].arg
           u == [ui EXCEPT !.timeline = genReplay(s)]
<1>1. Land(i, "sessionReplay") /\ Commit(u) /\ realShown' = realShown
    BY DEF SessionReplayLanded
<1>2. DOMAIN u = Fields
    BY DEF PageInv
<1>3. PageInv' /\ ui' = u
    BY <1>1, <1>2, Committed
<1>4. ui'.timeline = genReplay(s) /\ ~genReplay(s).real
    BY <1>3 DEF PageInv, Fields, genReplay
<1>5. Changes({"timeline"})
    BY <1>3 DEF PageInv, Changes
<1>6. /\ ui'.selected = ui.selected /\ ui'.incident = ui.incident /\ ui'.rows = ui.rows
      /\ ui'.found = ui.found /\ ui'.foundReplay = ui.foundReplay
      /\ ui'.replay = ui.replay /\ ui'.showReplay = ui.showReplay /\ ui'.picked = ui.picked
    BY <1>5 DEF Changes, Fields
<1>7. /\ FlyingInv' /\ flying[i].kind = "sessionReplay"
      /\ flying'[i].kind = "none" /\ \A j \in Calls : j # i => flying'[j] = flying[j]
      /\ \A k : k \notin {"none", "sessionReplay"} => SameCalls(k)
      /\ crossing' = crossing /\ useMock' = useMock /\ ApartInv' /\ AloneInv'
      /\ ~crossing => NoCallOf("sessionReplay")'
    BY <1>1, Lands
<1>8. PanelsInv' /\ RealInv'
    BY <1>1, <1>4, <1>6, <1>7 DEF PanelsInv, RealInv
<1>9. MockInv'
    BY <1>6, <1>7 DEF MockInv
<1>10. SessionInv'
    <2>1. ~crossing /\ ui.picked # Absent => s = ui.picked
        <3> SUFFICES ASSUME ~crossing, ui.picked # Absent PROVE s = ui.picked
            OBVIOUS
        <3>1. ~NoCallOf("sessionReplay")
            BY <1>7 DEF NoCallOf
        <3>2. PICK j \in Calls : flying[j] = Flight("sessionReplay", ui.picked)
            BY <3>1 DEF SessionInv, Answered
        <3>3. flying[j].kind = "sessionReplay" /\ flying[j].arg = ui.picked
            BY <3>2, FlightFields
        <3>4. j = i
            BY <1>7, <3>3 DEF ApartInv
        <3> QED
            BY <3>3, <3>4
    <2> QED
        BY <1>4, <1>6, <1>7, <2>1 DEF SessionInv, Answered
<1>11. DrawerInv' /\ FoundInv'
    BY <1>5, <1>6, <1>7, DrawerKept, AskedKept DEF Changes
<1> QED
    BY <1>3, <1>7, <1>8, <1>9, <1>10, <1>11

(* What a search finds is in its tab, whatever is asked meanwhile. *)
LEMMA FoundLands == ASSUME ConIInv, NEW i \in Calls, FoundLanded(i) PROVE ConIInv'
<1> USE DEF ConIInv
<1>1. PICK real \in wrap(TRUE) :
          /\ Commit([ui EXCEPT !.found = [genIncident(flying[i].arg, Absent) EXCEPT !.real = real]])
          /\ realShown' = (realShown \/ real)
    BY Zenon DEF FoundLanded
<1>2. Land(i, "findIncident")
    BY DEF FoundLanded
<1>3. /\ FlyingInv' /\ flying[i].arg = ShortId
      /\ flying'[i].kind = "none" /\ \A j \in Calls : j # i => flying'[j] = flying[j]
      /\ \A k : k \notin {"none", "findIncident"} => SameCalls(k)
      /\ crossing' = crossing /\ useMock' = useMock /\ ApartInv' /\ AloneInv'
    BY <1>2, Lands DEF FlightArg
<1> DEFINE inc == [genIncident(ShortId, Absent) EXCEPT !.real = real]
           u == [ui EXCEPT !.found = inc]
<1>4. Commit(u) /\ DOMAIN u = Fields
    BY <1>1, <1>3 DEF PageInv
<1>5. inc \in FoundIncidents /\ inc.real = real /\ inc # Absent
    <2>1. real \in BOOLEAN
        BY <1>1, Zenon DEF wrap
    <2>2. inc \in FoundIncidents
        BY <2>1, Zenon DEF FoundIncidents
    <2>3. inc.real = real
        BY DEF genIncident
    <2> QED
        BY <2>2, <2>3, FoundFacts
<1> HIDE DEF inc
<1>6. PageInv' /\ ui' = u
    BY <1>4, Committed
<1>7. ui'.found = inc
    BY <1>6 DEF PageInv, Fields
<1>8. Changes({"found"})
    BY <1>6 DEF PageInv, Changes
<1>9. /\ ui'.selected = ui.selected /\ ui'.incident = ui.incident /\ ui'.rows = ui.rows
      /\ ui'.foundReplay = ui.foundReplay /\ ui'.asked = ui.asked
      /\ ui'.replay = ui.replay /\ ui'.showReplay = ui.showReplay
      /\ ui'.picked = ui.picked /\ ui'.timeline = ui.timeline
    BY <1>8 DEF Changes, Fields
<1>10. PanelsInv' /\ MockInv'
    BY <1>3, <1>5, <1>7, <1>9 DEF PanelsInv, MockInv
<1>11. RealInv'
    <2>1. (real => realShown' /\ ~useMock) /\ (realShown => realShown')
        BY <1>1, RealAnswers
    <2> QED
        BY <1>3, <1>5, <1>7, <1>9, <2>1 DEF RealInv
<1>12. FoundInv'
    <2>1. NoCallOf("findReplay")' => NoCallOf("findReplay")
        BY <1>3 DEF SameCalls, NoCallOf
    <2> QED
        BY <1>5, <1>7, <1>9, <2>1 DEF FoundInv
<1>13. DrawerInv' /\ SessionInv'
    BY <1>3, <1>9, DrawerKept, SessionKept
<1> QED
    BY <1>3, <1>6, <1>10, <1>11, <1>12, <1>13

LEMMA FoundReplayLands == ASSUME ConIInv, NEW i \in Calls, FoundReplayLanded(i) PROVE ConIInv'
<1> USE DEF ConIInv
<1>1. PICK real \in wrap(TRUE) :
          /\ Commit([ui EXCEPT !.foundReplay = [genReplay(flying[i].arg) EXCEPT !.real = real]])
          /\ realShown' = (realShown \/ real)
    BY Zenon DEF FoundReplayLanded
<1>2. Land(i, "findReplay")
    BY DEF FoundReplayLanded
<1>3. /\ FlyingInv' /\ flying[i].arg = LongId
      /\ flying'[i].kind = "none" /\ \A j \in Calls : j # i => flying'[j] = flying[j]
      /\ \A k : k \notin {"none", "findReplay"} => SameCalls(k)
      /\ crossing' = crossing /\ useMock' = useMock /\ ApartInv' /\ AloneInv'
    BY <1>2, Lands DEF FlightArg
<1> DEFINE replay == [genReplay(LongId) EXCEPT !.real = real]
           u == [ui EXCEPT !.foundReplay = replay]
<1>4. Commit(u) /\ DOMAIN u = Fields
    BY <1>1, <1>3 DEF PageInv
<1>5. replay \in FoundReplays /\ replay.real = real /\ replay # Absent
    <2>1. real \in BOOLEAN
        BY <1>1, Zenon DEF wrap
    <2>2. replay \in FoundReplays
        BY <2>1, Zenon DEF FoundReplays
    <2>3. replay.real = real
        BY DEF genReplay
    <2> QED
        BY <2>2, <2>3, FoundFacts
<1> HIDE DEF replay
<1>6. PageInv' /\ ui' = u
    BY <1>4, Committed
<1>7. ui'.foundReplay = replay
    BY <1>6 DEF PageInv, Fields
<1>8. Changes({"foundReplay"})
    BY <1>6 DEF PageInv, Changes
<1>9. /\ ui'.selected = ui.selected /\ ui'.incident = ui.incident /\ ui'.rows = ui.rows
      /\ ui'.found = ui.found /\ ui'.asked = ui.asked
      /\ ui'.replay = ui.replay /\ ui'.showReplay = ui.showReplay
      /\ ui'.picked = ui.picked /\ ui'.timeline = ui.timeline
    BY <1>8 DEF Changes, Fields
<1>10. PanelsInv' /\ MockInv'
    BY <1>3, <1>5, <1>7, <1>9 DEF PanelsInv, MockInv
<1>11. RealInv'
    <2>1. (real => realShown' /\ ~useMock) /\ (realShown => realShown')
        BY <1>1, RealAnswers
    <2> QED
        BY <1>3, <1>5, <1>7, <1>9, <2>1 DEF RealInv
<1>12. FoundInv'
    <2>1. NoCallOf("findIncident")' => NoCallOf("findIncident")
        BY <1>3 DEF SameCalls, NoCallOf
    <2> QED
        BY <1>5, <1>7, <1>9, <2>1 DEF FoundInv
<1>13. DrawerInv' /\ SessionInv'
    BY <1>3, <1>9, DrawerKept, SessionKept
<1> QED
    BY <1>3, <1>6, <1>10, <1>11, <1>12, <1>13

LEMMA ConIInvStep == ASSUME ConIInv, [ConNext]_conVars PROVE ConIInv'
<1>1. ASSUME NEW p \in PATHS, NavigateTo(p) PROVE ConIInv'
    BY <1>1, Navigates
<1>2. ASSUME NEW i \in Calls, FeedTick(i) PROVE ConIInv'
    BY <1>2, CallsOnly DEF FeedTick
<1>3. ASSUME NEW i \in Calls, loadReplay(i) PROVE ConIInv'
    BY <1>3, CallsOnly DEF loadReplay
<1>4. ASSUME NEW i \in Calls, onSearch(i) PROVE ConIInv'
    BY <1>4, SearchBegins
<1>5. ASSUME NEW i \in Calls, Landing(i) PROVE ConIInv'
    BY <1>5, RowsLand, IncidentLands, DrawerReplayLands, SessionReplayLands, FoundLands,
       FoundReplayLands
    DEF Landing
<1>6. ASSUME NEW k \in DOMAIN Generated, NEW i \in Calls, SelectEvent(genEvents[k], i)
      PROVE  ConIInv'
    BY <1>6, DrawerOpens DEF MadeEvents
<1>7. ASSUME NEW k \in DOMAIN SessionIds, NEW i \in Calls, PickSession(SessionIds[k], i)
      PROVE  ConIInv'
    BY <1>7, Picks DEF Sessions
<1>8. CASE \/ TogglePause \/ DrawerGone \/ (\E f : SetFilter(f))
           \/ (\E text : TypeQuery(text)) \/ (\E t : ChooseTab(t))
    BY <1>8, Inputs
<1>9. CASE onClose
    BY <1>9, DrawerCloses
<1>10. CASE UNCHANGED conVars
    <2>1. useMock' = useMock /\ realShown' = realShown /\ flying' = flying /\ crossing' = crossing
              /\ ui' = ui /\ blank' = blank
        BY <1>10, Zenon DEF conVars
    <2>2. PageInv'
        <3>1. DOMAIN ui' = Fields /\ (Renders(ui') <=> Renders(ui))
            BY <2>1 DEF ConIInv, PageInv
        <3>2. blank <=> ~Renders(ui)
            BY Zenon DEF ConIInv, PageInv
        <3> QED
            BY <2>1, <3>1, <3>2, Zenon DEF PageInv
    <2>3. FlyingInv' /\ PanelsInv' /\ RealInv'
        BY <2>1 DEF ConIInv, FlyingInv, PanelsInv, RealInv
    <2>4. AloneInv' /\ MockInv' /\ ApartInv'
        BY <2>1 DEF ConIInv, AloneInv, MockInv, ApartInv
    <2>5. DrawerInv' /\ SessionInv' /\ FoundInv'
        BY <2>1 DEF ConIInv, DrawerInv, SessionInv, FoundInv, Answered, NoCallOf
    <2> QED
        BY <2>2, <2>3, <2>4, <2>5 DEF ConIInv
<1> QED
    BY <1>1, <1>2, <1>3, <1>4, <1>5, <1>6, <1>7, <1>8, <1>9, <1>10 DEF ConNext

(* What holds of every page between two steps: the call each page waits for,   *)
(* what the answers that landed left in it, and which of them were real        *)
(* (api.ts:7-35, IncidentDrawer.tsx:17-86, Sessions.tsx:28-88,                 *)
(* Forensics.tsx:16-137, LiveFeed.tsx:14-22).                                  *)
THEOREM ConsoleInvariant == ConSpec => []ConIInv
BY ConInitInv, ConIInvStep, PTL DEF ConSpec

(* A console that still renders shows only what mock.ts made up: an answer of  *)
(* the services has other fields than the pages read, so it blanks the page,   *)
(* rows and incidents as soon as they arrive, a replay when its tab is open    *)
(* (api.ts:7-35, LiveFeed.tsx:14-22, Forensics.tsx:16-137).                    *)
THEOREM NothingRealIsShown == ConSpec => []OnlyFabricated
<1>1. ConIInv => OnlyFabricated
    <2> SUFFICES ASSUME ConIInv, ~blank PROVE OnlyFabricated
        BY DEF OnlyFabricated
    <2>1. Renders(ui)
        BY Zenon DEF ConIInv, PageInv
    <2>2. ui.incident = Absent \/ ~ui.incident.real
        BY MadeFacts DEF ConIInv, PanelsInv
    <2>3. ui.rows = Absent \/ ~ui.rows.real
        BY <2>1 DEF Renders, ListWorks
    <2>4. ui.found = Absent \/ ~ui.found.real
        BY <2>1 DEF Renders
    <2>5. ui.tab = "session" => ui.foundReplay = Absent \/ ~ui.foundReplay.real
        BY <2>1 DEF Renders, ListWorks
    <2>6. (ui.replay = Absent \/ ~ui.replay.real) /\ (ui.timeline = Absent \/ ~ui.timeline.real)
        BY DEF ConIInv, PanelsInv
    <2> QED
        BY <2>2, <2>3, <2>4, <2>5, <2>6, Zenon DEF OnlyFabricated
<1> QED
    BY ConsoleInvariant, <1>1, PTL

(* A blank console has rendered an answer of the services, or its drawer, open  *)
(* or in a build without USE_MOCK still sliding out, an incident of an event    *)
(* that has no decision (IncidentDrawer.tsx:17-86, sheet.tsx:32); no order of   *)
(* clicks and answers blanks it otherwise.                                    *)
THEOREM TwoWaysToBlank == ConSpec => []BlankHasACause
<1>1. ConIInv => BlankHasACause
    <2> SUFFICES ASSUME ConIInv, blank, ~(realShown /\ ~useMock)
                 PROVE  /\ ui.incident.decision = Absent
                        /\ ui.selected # Absent \/ (ui.fading /\ ~useMock)
                        /\ useMock => ui.selected.decision = Absent
        BY Zenon DEF BlankHasACause
    <2>1. ~Renders(ui)
        BY Zenon DEF ConIInv, PageInv
    <2>2. ~ui.rows.real /\ ~(ui.found # Absent /\ ui.found.real)
              /\ ~(ui.foundReplay # Absent /\ ui.foundReplay.real)
        BY DEF ConIInv, RealInv
    <2>3. (ui.replay = Absent \/ ~ui.replay.real) /\ (ui.timeline = Absent \/ ~ui.timeline.real)
        BY DEF ConIInv, PanelsInv
    <2>4. BadgeWorks(ui.found)
        BY <2>2, FoundFacts DEF ConIInv, PanelsInv, BadgeWorks, DECISIONS
    <2>5. /\ ui.selected # Absent \/ ui.fading
          /\ ~BadgeWorks(ui.incident)
        BY <2>1, <2>2, <2>3, <2>4 DEF Renders, DrawerRenders, ListWorks
    <2>6. PICK e \in MadeEvents : ui.incident = IncidentOf(e)
        BY <2>5 DEF ConIInv, PanelsInv, BadgeWorks
    <2>7. ui.incident.decision = Absent /\ ui.incident # Absent
        BY <2>5, <2>6, MadeFacts DEF BadgeWorks
    <2>8. useMock => ui.selected # Absent /\ ui.incident = IncidentOf(ui.selected)
        BY <2>7 DEF ConIInv, MockInv
    <2>9. useMock => ui.selected.decision = Absent
        BY <2>7, <2>8, MadeFacts DEF ConIInv, PanelsInv
    <2> QED
        BY <2>5, <2>7, <2>8, <2>9, Zenon
<1> QED
    BY ConsoleInvariant, <1>1, PTL

(* With no call under way and none that crossed another, every panel shows what *)
(* is selected or was asked for; with USE_MOCK no two calls ever cross         *)
(* (IncidentDrawer.tsx:17-86, Sessions.tsx:28-88, Forensics.tsx:16-137).       *)
THEOREM PanelsFollowSelection == ConSpec => []PanelsMatchSelection
<1>1. ConIInv => PanelsMatchSelection
    <2> SUFFICES ASSUME ConIInv PROVE PanelsMatchSelection
        OBVIOUS
    <2>1. useMock => ~crossing
        BY DEF ConIInv, AloneInv
    <2>2. useMock /\ ui.showReplay =>
              ui.selected # Absent /\ ui.replay.session = ui.selected.session
        BY DEF ConIInv, MockInv
    <2>3. ASSUME ~crossing, Flying({"none"}) = Calls
          PROVE  /\ ui.selected # Absent =>
                       /\ ui.incident # Absent /\ ui.incident.request = ui.selected.request
                       /\ ui.incident.decision = EventRow(ui.selected).decision
                 /\ ui.picked # Absent => ui.timeline # Absent /\ ui.timeline.session = ui.picked
                 /\ ui.asked = ShortId => ui.found # Absent /\ ui.found.request = ui.asked
                 /\ ui.asked = LongId => ui.foundReplay # Absent /\ ui.foundReplay.session = ui.asked
        <3>1. \A i \in Calls : flying[i].kind = "none"
            BY <2>3 DEF Flying
        <3>2. \A k, a : k # "none" => ~\E i \in Calls : flying[i] = Flight(k, a)
            BY <3>1, FlightFields
        <3>3. ui.selected # Absent =>
                  /\ ui.incident # Absent /\ ui.incident.request = ui.selected.request
                  /\ ui.incident.decision = EventRow(ui.selected).decision
            <4>1. ui.selected # Absent =>
                      ui.selected \in MadeEvents /\ ui.incident = IncidentOf(ui.selected)
                BY <2>3, <3>2 DEF ConIInv, PanelsInv, DrawerInv, Answered
            <4> QED
                BY <4>1, MadeFacts DEF EventRow
        <3>4. ui.picked # Absent => ui.timeline # Absent /\ ui.timeline.session = ui.picked
            <4>1. ui.picked # Absent => ui.picked \in Sessions /\ ui.timeline = genReplay(ui.picked)
                BY <2>3, <3>2 DEF ConIInv, PanelsInv, SessionInv, Answered
            <4>2. \A s \in Sessions : genReplay(s) # Absent /\ genReplay(s).session = s
                BY AbsentIsNoValue DEF Sessions, genReplay
            <4> QED
                BY <4>1, <4>2
        <3>5. NoCallOf("findIncident") /\ NoCallOf("findReplay")
            BY <3>1 DEF NoCallOf
        <3>6. /\ ui.asked = ShortId => ui.found # Absent /\ ui.found.request = ui.asked
              /\ ui.asked = LongId => ui.foundReplay # Absent /\ ui.foundReplay.session = ui.asked
            BY <3>5, FoundFacts DEF ConIInv, FoundInv, PanelsInv
        <3> QED
            BY <3>3, <3>4, <3>6
    <2> QED
        BY <2>1, <2>2, <2>3, Zenon DEF PanelsMatchSelection
<1> QED
    BY ConsoleInvariant, <1>1, PTL
(* Types of the console. *)
Kinds == {"none", "events", "refresh", "incident", "replay", "sessionReplay", "findIncident",
          "findReplay"}
FeedOK(rows) == rows.list \in Seq(MadeEvents) /\ Len(rows.list) <= FEED_LIMIT
ViewOK ==
    /\ ui.paused \in BOOLEAN /\ ui.showReplay \in BOOLEAN /\ ui.fading \in BOOLEAN
    /\ ui.tab \in {"events", "incident", "session"} /\ FeedOK(ui.rows)
BuildOK ==
    /\ path \in PATHS /\ mounts \in 0 .. MaxMounts
    /\ useMock \in BOOLEAN /\ blank \in BOOLEAN /\ realShown \in BOOLEAN /\ crossing \in BOOLEAN
KindsOK == \A i \in Calls : flying[i].kind \in Kinds

(* The feed is cut after every answer. *)
LEMMA FeedIsCut ==
    ASSUME NEW s \in Seq(MadeEvents), NEW real
    PROVE  FeedOK([real |-> real, list |-> Top(s, FEED_LIMIT)])
<1>1. FEED_LIMIT \in Nat
    BY ConBounds
<1>2. Top(s, FEED_LIMIT) \in Seq(MadeEvents) /\ Len(Top(s, FEED_LIMIT)) <= FEED_LIMIT
    <2> DEFINE m == Min({FEED_LIMIT, Len(s)})
    <2>1. m = IF FEED_LIMIT <= Len(s) THEN FEED_LIMIT ELSE Len(s)
        <3>1. FEED_LIMIT \in Int /\ Len(s) \in Int
            BY <1>1
        <3> HIDE DEF m
        <3> QED
            BY <3>1, SmallerOfTwo, Zenon DEF m
    <2> HIDE DEF m
    <2>2. m \in 0 .. Len(s) /\ m <= FEED_LIMIT
        BY <1>1, <2>1
    <2>3. Top(s, FEED_LIMIT) = SubSeq(s, 1, m)
        BY Zenon DEF Top, m
    <2>4. 1 \in 1 .. Len(s) + 1 /\ (m - 1) + 1 = m /\ (~ (1 <= m) => m = 0)
        BY <2>2
    <2>5. SubSeq(s, 1, m) \in Seq(MadeEvents) /\ Len(SubSeq(s, 1, m)) = m
        BY <2>2, <2>4, SubSeqProperties
    <2> QED
        BY <2>2, <2>3, <2>5
<1> QED
    BY <1>2 DEF FeedOK

LEMMA ViewStep == ASSUME ConIInv, ViewOK, [ConNext]_conVars PROVE ViewOK'
<1> USE DEF ViewOK
<1> DOMAIN ui = Fields
    BY DEF ConIInv, PageInv
<1> USE DEF Fields
<1>1. ASSUME NEW u, u = FreshPage \/ \E l, p : u = [FreshPage EXCEPT !.listed = l, !.picked = p],
             ui' = u
      PROVE  ViewOK'
    <2>1. u.paused = FALSE /\ u.showReplay = FALSE /\ u.fading = FALSE /\ u.tab = "events" /\ u.rows = NoRows
        <3>1. DOMAIN FreshPage = Fields
            BY DEF FreshPage
        <3>2. FreshPage.paused = FALSE /\ FreshPage.showReplay = FALSE /\ FreshPage.fading = FALSE
                  /\ FreshPage.tab = "events" /\ FreshPage.rows = NoRows
            BY DEF FreshPage
        <3> QED
            BY <1>1, <3>1, <3>2
    <2>2. FeedOK(NoRows)
        BY EmptySeq, ConBounds DEF FeedOK, NoRows
    <2> QED
        BY <1>1, <2>1, <2>2
<1>2. ASSUME NEW p, NavigateTo(p) PROVE ViewOK'
    <2>1. CASE p = "/sessions"
        <3>1. \E l, q : ui' = [FreshPage EXCEPT !.listed = l, !.picked = q]
            BY <1>2, <2>1, Zenon DEF NavigateTo, Commit
        <3> QED
            BY <1>1, <3>1
    <2>2. CASE p # "/sessions"
        <3>1. ui' = FreshPage
            BY <1>2, <2>2, Zenon DEF NavigateTo, Commit
        <3> QED
            BY <1>1, <3>1
    <2> QED
        BY <2>1, <2>2
<1>3. ASSUME NEW e, NEW i, SelectEvent(e, i) PROVE ViewOK'
    <2>1. ui' = [ui EXCEPT !.selected = e, !.showReplay = FALSE, !.replay = Absent,
                           !.fading = FALSE]
        BY <1>3, Zenon DEF SelectEvent, Commit
    <2> QED
        BY <2>1
<1>4. ASSUME onClose PROVE ViewOK'
    <2>1. ui' = [ui EXCEPT !.selected = Absent, !.showReplay = FALSE, !.replay = Absent,
                           !.incident = Absent, !.fading = TRUE]
        BY <1>4, Zenon DEF onClose, Commit
    <2> QED
        BY <2>1
<1>5. ASSUME TogglePause PROVE ViewOK'
    <2>1. ui' = [ui EXCEPT !.paused = ~ui.paused]
        BY <1>5, Zenon DEF TogglePause, Commit
    <2>2. ui'.paused \in BOOLEAN
        <3>1. ui'.paused = ~ui.paused
            BY <2>1
        <3> QED
            BY <3>1, Zenon
    <2> QED
        BY <2>1, <2>2
<1>25. ASSUME DrawerGone PROVE ViewOK'
    <2>1. ui' = [ui EXCEPT !.fading = FALSE]
        BY <1>25, Zenon DEF DrawerGone, Commit
    <2> QED
        BY <2>1
<1>6. ASSUME NEW f, SetFilter(f) PROVE ViewOK'
    <2>1. ui' = [ui EXCEPT !.filter = f]
        BY <1>6, Zenon DEF SetFilter, Commit
    <2> QED
        BY <2>1
<1>7. ASSUME NEW s, NEW i, PickSession(s, i) PROVE ViewOK'
    <2>1. ui' = [ui EXCEPT !.picked = s, !.timeline = Absent]
        BY <1>7, Zenon DEF PickSession, Commit
    <2> QED
        BY <2>1
<1>8. \A text : detectKind(text) \in {"events", "incident", "session"}
    BY DEF detectKind
<1>9. ASSUME NEW text, TypeQuery(text) PROVE ViewOK'
    <2>1. ui' = [ui EXCEPT !.q = text, !.tab = detectKind(text)]
        BY <1>9, Zenon DEF TypeQuery, Commit
    <2> QED
        BY <1>8, <2>1
<1>10. ASSUME NEW t \in {"events", "incident", "session"}, ChooseTab(t) PROVE ViewOK'
    <2>1. ui' = [ui EXCEPT !.tab = t]
        BY <1>10, Zenon DEF ChooseTab, Commit
    <2> QED
        BY <2>1
<1>11. ASSUME NEW i, onSearch(i) PROVE ViewOK'
    <2>1. \E a : ui' = [ui EXCEPT !.tab = detectKind(ui.q), !.asked = a]
        BY <1>11, Zenon DEF onSearch, Commit
    <2> QED
        BY <1>8, <2>1
<1>12. ASSUME UNCHANGED ui PROVE ViewOK'
    BY <1>12
<1>13. ASSUME NEW i, NEW real, NEW s \in Seq(MadeEvents),
              ui' = [ui EXCEPT !.rows = [real |-> real, list |-> Top(s, FEED_LIMIT)]]
       PROVE  ViewOK'
    <2>1. FeedOK([real |-> real, list |-> Top(s, FEED_LIMIT)])
        BY FeedIsCut
    <2> QED
        BY <1>13, <2>1
<1>14. genEvents \in Seq(MadeEvents) /\ \A k \in DOMAIN Generated : genEvents[k] \in MadeEvents
    BY GeneratedTypes DEF MadeEvents, genEvents
<1>15. ASSUME NEW i, EventsLanded(i) PROVE ViewOK'
    <2>1. \E real : ui' = [ui EXCEPT !.rows = [real |-> real, list |-> Top(genEvents, FEED_LIMIT)]]
        BY <1>15, Zenon DEF EventsLanded, Commit
    <2> QED
        BY <1>13, <1>14, <2>1
<1>16. ASSUME NEW i, RefreshLanded(i) PROVE ViewOK'
    <2>1. \E real \in wrap(TRUE), k \in DOMAIN Generated :
              ui' = [ui EXCEPT !.rows = [real |-> real,
                                 list |-> Top(<<genEvents[k]>> \o ui.rows.list, FEED_LIMIT)]]
        BY <1>16, Zenon DEF RefreshLanded, Commit
    <2>2. \A k \in DOMAIN Generated : <<genEvents[k]>> \o ui.rows.list \in Seq(MadeEvents)
        BY <1>14 DEF FeedOK
    <2> QED
        BY <1>13, <2>1, <2>2
<1>17. ASSUME NEW i, IncidentLanded(i) PROVE ViewOK'
    <2>1. \E x : ui' = [ui EXCEPT !.incident = x]
        BY <1>17, Zenon DEF IncidentLanded, Commit
    <2> QED
        BY <2>1
<1>18. ASSUME NEW i, DrawerReplayLanded(i) PROVE ViewOK'
    <2>1. \E x : ui' = [ui EXCEPT !.replay = x, !.showReplay = TRUE]
        BY <1>18, Zenon DEF DrawerReplayLanded, Commit
    <2> QED
        BY <2>1
<1>19. ASSUME NEW i, SessionReplayLanded(i) PROVE ViewOK'
    <2>1. \E x : ui' = [ui EXCEPT !.timeline = x]
        BY <1>19, Zenon DEF SessionReplayLanded, Commit
    <2> QED
        BY <2>1
<1>20. ASSUME NEW i, FoundLanded(i) PROVE ViewOK'
    <2>1. \E x : ui' = [ui EXCEPT !.found = x]
        BY <1>20, Zenon DEF FoundLanded, Commit
    <2> QED
        BY <2>1
<1>21. ASSUME NEW i, FoundReplayLanded(i) PROVE ViewOK'
    <2>1. \E x : ui' = [ui EXCEPT !.foundReplay = x]
        BY <1>21, Zenon DEF FoundReplayLanded, Commit
    <2> QED
        BY <2>1
<1> HIDE DEF ViewOK
<1>22. ASSUME NEW i \in Calls, Landing(i) PROVE ViewOK'
    BY <1>15, <1>16, <1>17, <1>18, <1>19, <1>20, <1>21, <1>22 DEF Landing
<1>23. ASSUME NEW i \in Calls, FeedTick(i) \/ loadReplay(i) PROVE ViewOK'
    BY <1>12, <1>23 DEF FeedTick, loadReplay
<1>24. ASSUME UNCHANGED conVars PROVE ViewOK'
    BY <1>12, <1>24 DEF conVars
<1> QED
    BY <1>2, <1>3, <1>4, <1>5, <1>6, <1>7, <1>9, <1>10, <1>11, <1>22, <1>23, <1>24, <1>25 DEF ConNext

LEMMA BuildStep == ASSUME ConIInv, BuildOK, [ConNext]_conVars PROVE BuildOK'
<1> USE DEF BuildOK
<1>1. ASSUME path' = path, mounts' = mounts, useMock' = useMock, realShown' \in BOOLEAN,
             crossing' \in BOOLEAN, blank' \in BOOLEAN
      PROVE  BuildOK'
    BY <1>1, Zenon
<1>2. \A a, b : (a \/ b) \in BOOLEAN /\ (~a) \in BOOLEAN
    BY Zenon
<1>3. ASSUME NEW u, Commit(u) PROVE blank' \in BOOLEAN
    BY <1>3, Zenon DEF Commit
<1>4. ASSUME NEW i, NEW kind, NEW arg, BeginCall(i, kind, arg) PROVE crossing' \in BOOLEAN
    BY <1>4, Zenon DEF BeginCall
<1>5. ASSUME NEW p \in PATHS, NavigateTo(p) PROVE BuildOK'
    <2>1. path' = p /\ mounts' = mounts + 1 /\ mounts < MaxMounts
        BY <1>5, Zenon DEF NavigateTo
    <2>2. mounts' \in 0 .. MaxMounts
        <3>1. mounts \in 0 .. MaxMounts
            BY Zenon
        <3> QED
            BY <2>1, <3>1, ConBounds
    <2>3. useMock' = useMock /\ realShown' = realShown /\ crossing' = FALSE /\ blank' \in BOOLEAN
        BY <1>5, Zenon DEF NavigateTo, Commit
    <2> QED
        BY <2>1, <2>2, <2>3, Zenon
<1>6. ASSUME NEW i, FeedTick(i) \/ loadReplay(i) PROVE BuildOK'
    <2>1. UNCHANGED <<useMock, path, mounts, ui, blank, realShown>>
        BY <1>6, Zenon DEF FeedTick, loadReplay
    <2>2. crossing' \in BOOLEAN
        BY <1>6, <1>4, Zenon DEF FeedTick, loadReplay
    <2> QED
        BY <2>1, <2>2, Zenon
<1>7. ASSUME NEW i, onSearch(i) PROVE BuildOK'
    <2>1. UNCHANGED <<useMock, path, mounts, realShown>> /\ blank' \in BOOLEAN
        BY <1>7, Zenon DEF onSearch, Commit
    <2>2. \/ \E kind, arg : BeginCall(i, kind, arg)
          \/ UNCHANGED <<flying, crossing>>
        BY <1>7 DEF onSearch
    <2>3. crossing' \in BOOLEAN
        BY <1>4, <2>2, Zenon
    <2> QED
        BY <2>1, <2>3, Zenon
<1>8. ASSUME NEW i, Landing(i) PROVE BuildOK'
    <2>1. \E kind : Land(i, kind)
        BY <1>8, Zenon DEF Landing, EventsLanded, RefreshLanded, IncidentLanded,
           DrawerReplayLanded, SessionReplayLanded, FoundLanded, FoundReplayLanded
    <2>2. UNCHANGED <<useMock, path, mounts, crossing>>
        BY <2>1, Zenon DEF Land
    <2>3. \E u : Commit(u)
        BY <1>8, Zenon DEF Landing, EventsLanded, RefreshLanded, IncidentLanded,
           DrawerReplayLanded, SessionReplayLanded, FoundLanded, FoundReplayLanded
    <2>4. realShown' = realShown \/ \E real : realShown' = (realShown \/ real)
        BY <1>8, Zenon DEF Landing, EventsLanded, RefreshLanded, IncidentLanded,
           DrawerReplayLanded, SessionReplayLanded, FoundLanded, FoundReplayLanded
    <2>5. realShown' \in BOOLEAN /\ blank' \in BOOLEAN
        BY <1>2, <1>3, <2>3, <2>4, Zenon
    <2> QED
        BY <2>2, <2>5, Zenon
<1>9. ASSUME \/ TogglePause \/ onClose \/ DrawerGone \/ (\E f : SetFilter(f))
             \/ (\E text : TypeQuery(text)) \/ (\E t : ChooseTab(t))
      PROVE  BuildOK'
    <2>1. UNCHANGED <<useMock, path, mounts, realShown, crossing>> /\ \E u : Commit(u)
        BY <1>9, Zenon DEF TogglePause, onClose, DrawerGone, SetFilter, TypeQuery, ChooseTab
    <2> QED
        BY <1>3, <2>1, Zenon
<1>10. ASSUME NEW a, NEW i, SelectEvent(a, i) \/ PickSession(a, i) PROVE BuildOK'
    <2>1. UNCHANGED <<useMock, path, mounts, realShown>> /\ \E u : Commit(u)
        BY <1>10, Zenon DEF SelectEvent, PickSession
    <2>2. \E kind, arg : BeginCall(i, kind, arg)
        BY <1>10, Zenon DEF SelectEvent, PickSession
    <2> QED
        BY <1>3, <1>4, <2>1, <2>2, Zenon
<1>11. ASSUME UNCHANGED conVars PROVE BuildOK'
    BY <1>11, Zenon DEF conVars
<1> HIDE DEF BuildOK
<1> QED
    BY <1>5, <1>6, <1>7, <1>8, <1>9, <1>10, <1>11, Zenon DEF ConNext

LEMMA KindsStep == ASSUME ConIInv, KindsOK, [ConNext]_conVars PROVE KindsOK'
<1> USE DEF KindsOK
<1>1. flying = [i \in Calls |-> flying[i]]
    BY DEF ConIInv, FlyingInv
<1>2. ASSUME NEW i, NEW kind \in Kinds, NEW arg, flying' = [flying EXCEPT ![i] = Flight(kind, arg)]
      PROVE  KindsOK'
    <2>1. Flight(kind, arg).kind \in Kinds
        BY FlightFields
    <2>2. \A j \in Calls : flying'[j] = flying[j] \/ flying'[j] = Flight(kind, arg)
        BY <1>1, <1>2
    <2> QED
        BY <2>1, <2>2
<1>3. ASSUME NEW i, NEW kind \in Kinds, NEW arg, BeginCall(i, kind, arg) PROVE KindsOK'
    BY <1>2, <1>3, Zenon DEF BeginCall
<1>4. "none" \in Kinds /\ "events" \in Kinds /\ "refresh" \in Kinds /\ "incident" \in Kinds
          /\ "replay" \in Kinds /\ "sessionReplay" \in Kinds /\ "findIncident" \in Kinds
          /\ "findReplay" \in Kinds
    BY DEF Kinds
<1>5. ASSUME NEW i, Landing(i) PROVE KindsOK'
    <2>1. flying' = [flying EXCEPT ![i] = NoFlight]
        BY <1>5, Zenon DEF Landing, EventsLanded, RefreshLanded, IncidentLanded,
           DrawerReplayLanded, SessionReplayLanded, FoundLanded, FoundReplayLanded, Land
    <2>2. flying' = [flying EXCEPT ![i] = Flight("none", Absent)]
        BY <2>1, Zenon DEF NoFlight, Flight
    <2> QED
        BY <1>2, <1>4, <2>2, Zenon
<1>6. ASSUME NEW p, NavigateTo(p) PROVE KindsOK'
    <2>1. flying' = [j \in Calls |-> IF j = 1 THEN Loads(p) ELSE NoFlight]
        BY <1>6, Zenon DEF NavigateTo
    <2>2. Loads(p).kind \in Kinds
        BY <1>4, FlightFields DEF Loads
    <2>3. NoFlight.kind \in Kinds
        BY <1>4, FlightFields
    <2> QED
        BY <2>1, <2>2, <2>3
<1>7. ASSUME NEW i, FeedTick(i) \/ loadReplay(i) PROVE KindsOK'
    BY <1>3, <1>4, <1>7, Zenon DEF FeedTick, loadReplay
<1>8. ASSUME NEW i, onSearch(i) PROVE KindsOK'
    <2>1. \/ \E arg : BeginCall(i, "findIncident", arg) \/ BeginCall(i, "findReplay", arg)
          \/ UNCHANGED <<flying, crossing>>
        BY <1>8 DEF onSearch
    <2>2. CASE UNCHANGED <<flying, crossing>>
        BY <2>2
    <2> QED
        BY <1>3, <1>4, <2>1, <2>2, Zenon
<1>9. ASSUME NEW a, NEW i, SelectEvent(a, i) \/ PickSession(a, i) PROVE KindsOK'
    BY <1>3, <1>4, <1>9, Zenon DEF SelectEvent, PickSession
<1>10. ASSUME UNCHANGED flying PROVE KindsOK'
    BY <1>10
<1>11. ASSUME \/ TogglePause \/ onClose \/ DrawerGone \/ (\E f : SetFilter(f))
              \/ (\E text : TypeQuery(text)) \/ (\E t : ChooseTab(t)) \/ UNCHANGED conVars
       PROVE  KindsOK'
    <2>1. UNCHANGED flying
        BY <1>11, Zenon DEF TogglePause, onClose, DrawerGone, SetFilter, TypeQuery, ChooseTab, conVars
    <2> QED
        BY <1>10, <2>1
<1> HIDE DEF KindsOK
<1> QED
    BY <1>5, <1>6, <1>7, <1>8, <1>9, <1>11, Zenon DEF ConNext

(* The console's variables keep their types: the feed is cut after every       *)
(* answer, a tab is one of the three, a call is of a kind the api module knows *)
(* (LiveFeed.tsx:14-22, Forensics.tsx:16-60, api.ts:7-35).                     *)
THEOREM ConTypeCorrect == ConSpec => []ConTypeOK
<1>1. ConInit => ViewOK /\ BuildOK /\ KindsOK
    <2> SUFFICES ASSUME ConInit PROVE ViewOK /\ BuildOK /\ KindsOK
        OBVIOUS
    <2>1. ViewOK
        <3>1. ui = FreshPage
            BY Zenon DEF ConInit
        <3>2. FreshPage.paused = FALSE /\ FreshPage.showReplay = FALSE /\ FreshPage.fading = FALSE
                  /\ FreshPage.tab = "events" /\ FreshPage.rows = NoRows
            BY DEF FreshPage
        <3>3. FeedOK(NoRows)
            BY EmptySeq, ConBounds DEF FeedOK, NoRows
        <3> QED
            BY <3>1, <3>2, <3>3 DEF ViewOK
    <2>2. BuildOK
        <3>1. path \in PATHS /\ mounts \in 0 .. MaxMounts
            BY ConBounds DEF ConInit, PATHS
        <3>2. useMock \in BOOLEAN /\ blank \in BOOLEAN /\ realShown \in BOOLEAN
                  /\ crossing \in BOOLEAN
            BY Zenon DEF ConInit
        <3> QED
            BY <3>1, <3>2, Zenon DEF BuildOK
    <2>3. KindsOK
        BY FlightFields DEF ConInit, KindsOK, Kinds
    <2> QED
        BY <2>1, <2>2, <2>3, Zenon
<1>2. ConIInv /\ ViewOK /\ BuildOK /\ KindsOK /\ [ConNext]_conVars
          => ViewOK' /\ BuildOK' /\ KindsOK'
    BY ViewStep, BuildStep, KindsStep, Zenon
<1>3. ViewOK /\ BuildOK /\ KindsOK => ConTypeOK
    <2> SUFFICES ASSUME ViewOK, BuildOK, KindsOK PROVE ConTypeOK
        OBVIOUS
    <2>1. path \in PATHS /\ mounts \in 0 .. MaxMounts
        BY Zenon DEF BuildOK
    <2>2. {useMock, blank, realShown, crossing, ui.paused, ui.showReplay, ui.fading} \subseteq BOOLEAN
        BY Zenon DEF BuildOK, ViewOK
    <2>3. Len(ui.rows.list) <= FEED_LIMIT /\ ui.tab \in {"events", "incident", "session"}
        BY DEF ViewOK, FeedOK
    <2>4. Flying({"none", "events", "refresh", "incident", "replay", "sessionReplay",
                  "findIncident", "findReplay"}) = Calls
        BY DEF KindsOK, Kinds, Flying
    <2> QED
        BY <2>1, <2>2, <2>3, <2>4, Zenon DEF ConTypeOK
<1> QED
    BY <1>1, <1>2, <1>3, ConsoleInvariant, PTL DEF ConSpec
=============================================================================
