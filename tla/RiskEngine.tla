----------------------------- MODULE RiskEngine -----------------------------
(***************************************************************************)
(* The risk engine (services/risk-engine): POST /v1/risk/evaluate scores a *)
(* request against what was last seen of its access token, refuses it as a *)
(* replay when the address changed within the replay window, and remembers *)
(* it otherwise.                                                           *)
(*                                                                         *)
(* The memory is one Redis key per token, shared by the worker processes.  *)
(* An evaluation is a GET, a score that reads the clock, a call to the     *)
(* anomaly service and a SETEX; evaluations of one token interleave.       *)
(*                                                                         *)
(* `now' counts in the resolution of time.time().  Scores are in           *)
(* ten-thousandths.                                                        *)
(***************************************************************************)
EXTENDS Integers

CONSTANTS
    Request,            \* threads that evaluate
    Token,              \* token_jti_hash values (the empty hash keeps no memory)
    Ip, Geo, Agent,     \* what a request shows of its client
    Unknown,            \* an absent or empty ip, geo or user_agent_hash
    Shown,              \* the clients that send requests, of Client
    Sensitivity,        \* endpoint sensitivities
    Anomaly,            \* anomaly scores; 0 also stands for a failed call
    Base, SensitivityWeight, IpDriftWeight, UaDriftWeight, GeoDriftWeight,
    ReplayWindow,       \* REPLAY_WINDOW_SECONDS
    TokenTTL,           \* TOKEN_TTL_SECONDS
    MaxTime,            \* bound: the clock stops here
    MaxFaults           \* bound: faults injected in a behaviour

(* The memory of a token outlives the replay window (1800 s against 60 s). *)
ASSUME WindowAssumption ==
    /\ ReplayWindow \in Nat /\ TokenTTL \in Nat
    /\ MaxTime \in Nat /\ MaxFaults \in Nat
    /\ ReplayWindow <= TokenTTL

ASSUME WeightAssumption ==
    /\ {Base, SensitivityWeight, IpDriftWeight, UaDriftWeight, GeoDriftWeight} \subseteq Nat
    /\ Anomaly \subseteq 0..10000
    /\ Sensitivity \subseteq Nat

Client == [ip : Ip \cup {Unknown}, geo : Geo \cup {Unknown}, ua : Agent \cup {Unknown}]
Nowhere == [ip |-> Unknown, geo |-> Unknown, ua |-> Unknown]

ASSUME ClientAssumption == Shown \subseteq Client

VARIABLES
    now,
    seen,       \* seen[t]: the token:last_seen key of t, or Forgotten
    eval,       \* eval[r]: the evaluation in progress
    accepted,   \* evaluations answered 200: their token, address and time
    blurred,    \* tokens whose memory had a gap (see GetLastSeen)
    faults

engineVars == <<seen, eval, accepted, blurred>>
vars == <<now, engineVars, faults>>

Forgotten == [client |-> Nowhere, ts |-> 0, ends |-> 0]
Known(t) == seen[t] # Forgotten

Entry == [client : Client, ts : Nat, ends : Nat]
Scores == 0..10000

Free == [pc |-> "free"]
Running == [pc : {"get", "score", "set"}, token : Token, client : Client,
            sensitivity : Sensitivity, last : Entry, risk : Scores]

TypeOK ==
    /\ now \in Nat
    /\ seen \in [Token -> Entry]
    /\ eval \in [Request -> {Free} \cup Running]
    /\ accepted \subseteq [token : Token, ip : Ip \cup {Unknown}, at : Nat]
    /\ blurred \subseteq Token
    /\ faults \in Nat

Init ==
    /\ now = 0
    /\ seen = [t \in Token |-> Forgotten]
    /\ eval = [r \in Request |-> Free]
    /\ accepted = {}
    /\ blurred = {}
    /\ faults = 0

-----------------------------------------------------------------------------
(* Scoring *)

(* Broken variant: the sum is not capped. *)
Uncapped(score) == score

Capped(score) == IF score > 10000 THEN 10000 ELSE score

(* A value drifts only when both sides have one. *)
Drifted(a, b) == a # Unknown /\ b # Unknown /\ a # b

Weight(applies, weight) == IF applies THEN weight ELSE 0

(* score_risk, without the replay verdict.  Without an entry nothing       *)
(* drifts: every field of Forgotten is Unknown.                            *)
ScoreRisk(client, sensitivity, last) ==
    Capped(Base + Weight(sensitivity >= 4, SensitivityWeight)
                + Weight(Drifted(client.ip, last.client.ip), IpDriftWeight)
                + Weight(Drifted(client.ua, last.client.ua), UaDriftWeight)
                + Weight(Drifted(client.geo, last.client.geo), GeoDriftWeight))

(* min(1, risk + anomaly * 0.2), rounded to four digits. *)
WithAnomaly(risk, anomaly) == Capped((5 * risk + anomaly + 2) \div 5)

(* The verdict of score_risk: the address changed within the window. *)
ReplayDetected(client, last, clk) ==
    Drifted(client.ip, last.client.ip) /\ clk - last.ts < ReplayWindow

-----------------------------------------------------------------------------
(* evaluate_risk *)

Evaluate(r, t, client, s) ==
    /\ eval[r] = Free
    /\ eval' = [eval EXCEPT ![r] = [pc |-> "get", token |-> t, client |-> client,
                                    sensitivity |-> s, last |-> Forgotten, risk |-> 0]]
    /\ UNCHANGED <<now, seen, accepted, blurred, faults>>

(* Another evaluation of the token has read and not yet written, and the   *)
(* two would not take each other for the same client.                      *)
Crosses(r, r2) ==
    /\ r2 # r
    /\ eval[r2].pc \in {"score", "set"}
    /\ eval[r2].token = eval[r].token
    /\ eval[r2].client.ip # eval[r].client.ip

(* store.get_last_seen *)
GetLastSeen(r) ==
    /\ eval[r].pc = "get"
    /\ eval' = [eval EXCEPT ![r].pc = "score", ![r].last = seen[eval[r].token]]
    /\ blurred' = IF \E r2 \in Request : Crosses(r, r2) THEN blurred \cup {eval[r].token}
                  ELSE blurred
    /\ UNCHANGED <<now, seen, accepted, faults>>

IsReplay(r) == ReplayDetected(eval[r].client, eval[r].last, now)

(* score_risk, then score_anomaly. *)
Score(r) ==
    /\ eval[r].pc = "score"
    /\ ~IsReplay(r)
    /\ \E a \in Anomaly :
          eval' = [eval EXCEPT ![r].pc = "set", ![r].last = Forgotten, ![r].risk =
                     WithAnomaly(ScoreRisk(eval[r].client, eval[r].sensitivity, eval[r].last), a)]
    /\ UNCHANGED <<now, seen, accepted, blurred, faults>>

Remember(t, client) ==
    seen' = [seen EXCEPT ![t] = [client |-> client, ts |-> now, ends |-> now + TokenTTL]]

(* Broken variant: the refused client is remembered. *)
RefuseRemembers(r) ==
    /\ eval[r].pc = "score"
    /\ IsReplay(r)
    /\ Remember(eval[r].token, eval[r].client)
    /\ eval' = [eval EXCEPT ![r] = Free]
    /\ UNCHANGED <<now, accepted, blurred, faults>>

(* 409 replay_detected: nothing is remembered. *)
Refuse(r) ==
    /\ eval[r].pc = "score"
    /\ IsReplay(r)
    /\ eval' = [eval EXCEPT ![r] = Free]
    /\ UNCHANGED <<now, seen, accepted, blurred, faults>>

(* store.set_last_seen, and 200 with the score.  The clock is read (app.py:75)  *)
(* a moment before the key is written (storage.py:48); here both are one step.  *)
SetLastSeen(r) ==
    /\ eval[r].pc = "set"
    /\ LET t == eval[r].token
           client == eval[r].client
       IN /\ Remember(t, client)
          /\ accepted' = accepted \cup {[token |-> t, ip |-> client.ip, at |-> now]}
          /\ blurred' = IF client.ip = Unknown THEN blurred \cup {t} ELSE blurred
    /\ eval' = [eval EXCEPT ![r] = Free]
    /\ UNCHANGED <<now, faults>>

(* Redis raises or the worker dies: 500, or no answer. *)
Fail(r) ==
    /\ eval[r] # Free
    /\ faults < MaxFaults
    /\ eval' = [eval EXCEPT ![r] = Free]
    /\ faults' = faults + 1
    /\ UNCHANGED <<now, seen, accepted, blurred>>

(* The same after Redis took the SETEX. *)
FailAfterSet(r) ==
    /\ eval[r].pc = "set"
    /\ faults < MaxFaults
    /\ Remember(eval[r].token, eval[r].client)
    /\ blurred' = IF eval[r].client.ip = Unknown THEN blurred \cup {eval[r].token} ELSE blurred
    /\ eval' = [eval EXCEPT ![r] = Free]
    /\ faults' = faults + 1
    /\ UNCHANGED <<now, accepted>>

-----------------------------------------------------------------------------
(* Time and faults *)

(* Redis drops the keys whose TTL ends. *)
Tick ==
    /\ now < MaxTime
    /\ now' = now + 1
    /\ seen' = [t \in Token |-> IF seen[t].ends <= now + 1 THEN Forgotten ELSE seen[t]]
    /\ UNCHANGED <<eval, accepted, blurred, faults>>

(* Redis loses keys. *)
Lose(lost) ==
    /\ faults < MaxFaults
    /\ \E t \in lost : Known(t)
    /\ seen' = [t \in Token |-> IF t \in lost THEN Forgotten ELSE seen[t]]
    /\ blurred' = blurred \cup lost
    /\ faults' = faults + 1
    /\ UNCHANGED <<now, eval, accepted>>

-----------------------------------------------------------------------------
Step(r) ==
    \/ \E t \in Token, client \in Shown, s \in Sensitivity : Evaluate(r, t, client, s)
    \/ GetLastSeen(r) \/ Score(r) \/ Refuse(r) \/ SetLastSeen(r)
    \/ Fail(r) \/ FailAfterSet(r)

Next ==
    \/ \E r \in Request : Step(r)
    \/ Tick
    \/ \E lost \in SUBSET Token : Lose(lost)

Spec == Init /\ [][Next]_vars
-----------------------------------------------------------------------------
(* Properties *)

Conflict(a, b) ==
    /\ a.token = b.token /\ a.ip # b.ip
    /\ a.at <= b.at /\ b.at - a.at < ReplayWindow

(* Two clients of a token at different addresses are both accepted within  *)
(* the replay window only if the memory of the token had a gap: their      *)
(* evaluations were in flight together, Redis lost the key, or a request   *)
(* showed no address.  A refused or failed evaluation in between, or the   *)
(* end of the key's TTL, never opens the way (app.py:55-80).               *)
ReplayNeedsGap ==
    \A a, b \in accepted : Conflict(a, b) => a.token \in blurred

(* "if the same token's IP changes within 60 s, the request is             *)
(* hard-denied" (README.md:39), of two requests that both show an address. *)
IpChangeIsDenied ==
    \A a, b \in accepted : Unknown \notin {a.ip, b.ip} => ~Conflict(a, b)
-----------------------------------------------------------------------------
(* The inductive invariant behind ReplayNeedsGap *)

(* `a' was accepted at least a window before time `at'. *)
Before(a, at) == a.at + ReplayWindow <= at

(* An entry lives TokenTTL and shows an address, unless the token blurred. *)
MemoryInv ==
    \A t \in Token : Known(t) =>
        /\ seen[t].ts <= now
        /\ seen[t].ends = seen[t].ts + TokenTTL
        /\ t \notin blurred => seen[t].client.ip # Unknown

(* What is remembered, and when, separates a sharp token's acceptances at  *)
(* the remembered address from those elsewhere.                            *)
LogInv ==
    \A a \in accepted :
        /\ a.at <= now
        /\ a.token \notin blurred =>
               IF Known(a.token)
               THEN a.at <= seen[a.token].ts
                    /\ (a.ip # seen[a.token].client.ip => Before(a, seen[a.token].ts))
               ELSE Before(a, now)

(* Evaluations in flight together from two addresses blur their token. *)
Reading(r) == eval[r].pc \in {"score", "set"}

CrossInv ==
    \A r, r2 \in Request :
        Reading(r) /\ Reading(r2) /\ eval[r].token = eval[r2].token
        /\ eval[r].client.ip # eval[r2].client.ip => eval[r].token \in blurred

(* The snapshot of a sharp token's evaluation separates as the memory does, *)
(* and an evaluation about to be accepted conflicts with none.              *)
EvalInv ==
    \A r \in Request : Reading(r) =>
        /\ eval[r].last.ts <= now
        /\ \A a \in accepted :
              a.token = eval[r].token /\ a.token \notin blurred /\ a.ip # eval[r].client.ip =>
                 IF eval[r].pc = "set" THEN eval[r].client.ip # Unknown => Before(a, now)
                 ELSE IF eval[r].last = Forgotten THEN Before(a, now)
                 ELSE /\ eval[r].last.client.ip # Unknown
                      /\ a.at <= eval[r].last.ts
                      /\ a.ip # eval[r].last.client.ip => Before(a, eval[r].last.ts)

IInv == TypeOK /\ MemoryInv /\ LogInv /\ CrossInv /\ EvalInv /\ ReplayNeedsGap
=============================================================================
