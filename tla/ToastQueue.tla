------------------------------ MODULE ToastQueue ------------------------------
(* The notifications of the Sentinel console                                    *)
(* (src/sentinel-command-main/src/hooks/use-toast.ts): a queue in memory that    *)
(* any component may change, the timers that remove what has been dismissed,    *)
(* and the components that show it, each with a copy of its own.  Toasts are    *)
(* updated in their text only.                                                 *)
EXTENDS Integers, Sequences, FiniteSets, Lists

CONSTANTS
    TOAST_LIMIT,    \* toasts kept (1)
    Hosts,          \* components that call useToast
    MaxToasts       \* bound: toasts made (genId wraps after 2^53 - 1 of them)

ASSUME ToastConstants == TOAST_LIMIT \in Nat \ {0} /\ MaxToasts \in Nat

VARIABLES
    lastId,         \* count
    toasts,         \* memoryState.toasts, newest first
    toastTimeouts,  \* ids that have a timer
    host,           \* per host: unmounted, rendered, or subscribed (it is in listeners)
    view,           \* per host: the toasts it shows
    missed          \* history, per host: a dispatch came between render and subscription

toastVars == <<lastId, toasts, toastTimeouts, host, view, missed>>

Ids == 1 .. MaxToasts
Shown == {toasts[i].id : i \in DOMAIN toasts}

ToastInit ==
    /\ lastId = 0 /\ toasts = << >> /\ toastTimeouts = {}
    /\ host = [h \in Hosts |-> "unmounted"] /\ view = [h \in Hosts |-> << >>]
    /\ missed = [h \in Hosts |-> FALSE]

(* Every subscribed component gets the state that results. *)
dispatch(new) ==
    /\ toasts' = new
    /\ view' = [h \in Hosts |-> IF host[h] = "subscribed" THEN new ELSE view[h]]
    /\ missed' = [h \in Hosts |-> missed[h] \/ host[h] = "rendered"]
    /\ UNCHANGED host

Kept(s) == SubSeq(s, 1, IF Len(s) < TOAST_LIMIT THEN Len(s) ELSE TOAST_LIMIT)

toast ==
    /\ lastId < MaxToasts
    /\ lastId' = lastId + 1
    /\ dispatch(Kept(<<[id |-> lastId + 1, open |-> TRUE, text |-> 0]>> \o toasts))
    /\ UNCHANGED toastTimeouts

update(id) ==
    /\ id \in 1 .. lastId
    /\ dispatch([i \in DOMAIN toasts |->
                    IF toasts[i].id = id THEN [toasts[i] EXCEPT !.text = 1] ELSE toasts[i]])
    /\ UNCHANGED <<lastId, toastTimeouts>>

Closed(ids) ==
    [i \in DOMAIN toasts |-> IF toasts[i].id \in ids THEN [toasts[i] EXCEPT !.open = FALSE] ELSE toasts[i]]

(* A toast that is no longer in the queue may be dismissed too. *)
dismiss(id) ==
    /\ id \in 1 .. lastId
    /\ toastTimeouts' = toastTimeouts \cup {id}
    /\ dispatch(Closed({id}))
    /\ UNCHANGED lastId

(* Broken variant: only a dismissal by id starts a timer. *)
dismissAllWithoutTimers ==
    /\ dispatch(Closed(Shown))
    /\ UNCHANGED <<lastId, toastTimeouts>>

dismissAll ==
    /\ toastTimeouts' = toastTimeouts \cup Shown
    /\ dispatch(Closed(Shown))
    /\ UNCHANGED lastId

(* REMOVE_TOAST, TOAST_REMOVE_DELAY after the dismissal. *)
TimerFires(id) ==
    /\ id \in toastTimeouts
    /\ toastTimeouts' = toastTimeouts \ {id}
    /\ dispatch(filter(toasts, LAMBDA t : t.id # id))
    /\ UNCHANGED lastId

(* useToast: the first render copies the state, an effect after it subscribes.  *)
Render(h) ==
    /\ host[h] = "unmounted"
    /\ host' = [host EXCEPT ![h] = "rendered"]
    /\ view' = [view EXCEPT ![h] = toasts]
    /\ missed' = [missed EXCEPT ![h] = FALSE]
    /\ UNCHANGED <<lastId, toasts, toastTimeouts>>

Subscribe(h) ==
    /\ host[h] = "rendered"
    /\ host' = [host EXCEPT ![h] = "subscribed"]
    /\ UNCHANGED <<lastId, toasts, toastTimeouts, view, missed>>

Unmount(h) ==
    /\ host[h] # "unmounted"
    /\ host' = [host EXCEPT ![h] = "unmounted"]
    /\ view' = [view EXCEPT ![h] = << >>]
    /\ UNCHANGED <<lastId, toasts, toastTimeouts, missed>>

ToastNext ==
    \/ toast
    \/ \E id \in Ids : update(id) \/ dismiss(id) \/ TimerFires(id)
    \/ dismissAll
    \/ \E h \in Hosts : Render(h) \/ Subscribe(h) \/ Unmount(h)

ToastSpec == ToastInit /\ [][ToastNext]_toastVars

-----------------------------------------------------------------------------
(* What the Toaster puts on the screen. *)
Toaster(h) == [i \in DOMAIN view[h] |-> [key |-> view[h][i].id, open |-> view[h][i].open]]

(* The queue keeps its type. *)
ToastTypeOK ==
    /\ lastId \in 0 .. MaxToasts
    /\ toasts \in Seq([id : Ids, open : BOOLEAN, text : {0, 1}])
    /\ toastTimeouts \subseteq Ids
    /\ host \in [Hosts -> {"unmounted", "rendered", "subscribed"}]
    /\ missed \in [Hosts -> BOOLEAN]

(* A toast that has been closed has a timer that will take it out of the queue, *)
(* however it was closed and whatever timers have fired; and no timer is for a  *)
(* toast that does not exist yet, so that none removes a newer one.            *)
DismissedWillGo ==
    /\ \A i \in DOMAIN toasts : ~toasts[i].open => toasts[i].id \in toastTimeouts
    /\ toastTimeouts \subseteq 1 .. lastId

(* A component that is subscribed shows the queue as it is, unless the queue    *)
(* changed after its first render and before its effect had run: then it stays  *)
(* behind until the next change.                                              *)
HostsAgree ==
    \A h \in Hosts : host[h] = "subscribed" /\ ~missed[h] => view[h] = toasts
=============================================================================
