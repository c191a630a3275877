-------------------------- MODULE EnforcementChain --------------------------
(***************************************************************************)
(* One protected request from end to end: the Django middleware            *)
(* (services/django-app/core/middleware.py) or the Spring filter           *)
(* (RiskEnforcementFilter.java), the risk engine (module RiskEngine), the  *)
(* gateway's decision and revoke handlers (services/gateway/app.py) and    *)
(* the policy (module PolicyLadder).                                       *)
(*                                                                         *)
(* The application calls one service at a time and gives up after its      *)
(* timeout; the service it gave up on goes on by itself.  The revocation   *)
(* store is used here through what RevocationStore implements, the         *)
(* RevocationLedger: recorded, answered and visible tokens.  Step-up       *)
(* verification (module StepUp) is the one step StepUpVerified.            *)
(***************************************************************************)
EXTENDS RiskEngine, PolicyLadder

CONSTANTS
    Route,       \* [app, sensitivity, adminPath] of the endpoints
    Admins,      \* tokens whose roles hold "admin"
    TokenExp,    \* TokenExp[t]: the last second the JWT of t verifies
    StepUpTTL,   \* _STEP_UP_TOKEN_TTL
    FailOpens    \* deployments: which of the applications and the gateway fail open

App == {"django", "spring"}

ASSUME RouteAssumption ==
    /\ Route \subseteq [app : App, sensitivity : Sensitivity, adminPath : BOOLEAN]
    /\ Admins \subseteq Token
    /\ TokenExp \in [Token -> Nat]
    /\ StepUpTTL \in Nat
    /\ FailOpens \subseteq SUBSET (App \cup {"gateway"})

VARIABLES
    failOpen,    \* the deployment's setting, one of FailOpens
    app,         \* app[r]: the request in the application, or what ended the last
    gw,          \* gw[r]: the gateway's work for it
    recorded, answered, visible,    \* the revocation ledger
    missed,      \* recorded tokens whose key was lost or not written
    challenged,  \* <<token, client>> pairs told to step up
    stepUntil    \* stepUntil[t]: when the step-up token of t expires, 0 without one

ledgerVars == <<recorded, answered, visible, missed>>
stepVars == <<challenged, stepUntil>>
chainVars == <<failOpen, app, gw, ledgerVars, stepVars>>
allVars == <<vars, chainVars>>

Idle == [pc |-> "idle"]
Served == [pc : {"served"}, late : BOOLEAN, by : {"policy", "stepup", "failopen"}]
Waiting == [pc : {"risk", "policy", "revoke"}, token : Token, client : Client,
            route : Route, late : BOOLEAN]

NoCall == [pc |-> "free"]
GatewayCall == [pc : {"check", "opa", "persist", "cache", "answer"}, risk : Scores,
                token : Token, route : Route]

ChainTypeOK ==
    /\ TypeOK
    /\ failOpen \in FailOpens
    /\ app \in [Request -> {Idle} \cup Served \cup Waiting]
    /\ gw \in [Request -> {NoCall} \cup GatewayCall]
    /\ answered \subseteq recorded /\ recorded \subseteq Token
    /\ visible \subseteq recorded /\ missed \subseteq recorded
    /\ challenged \subseteq Token \X Client
    /\ stepUntil \in [Token -> Nat]

ChainInit ==
    /\ Init
    /\ failOpen \in FailOpens
    /\ app = [r \in Request |-> Idle]
    /\ gw = [r \in Request |-> NoCall]
    /\ recorded = {} /\ answered = {} /\ visible = {} /\ missed = {}
    /\ challenged = {}
    /\ stepUntil = [t \in Token |-> 0]

-----------------------------------------------------------------------------
(* The application's side *)

Awaits(r, service) == app[r].pc = service

InFlight(r) == app[r].pc \notin {"idle", "served"}

(* The handler runs, or an error is answered; the request is over. *)
Serve(r, by) ==
    app' = [app EXCEPT ![r] = [pc |-> "served", late |-> app[r].late, by |-> by]]

Deny(r) == app' = [app EXCEPT ![r] = Idle]

(* A service did not answer: FAIL_OPEN decides. *)
Unavailable(r) ==
    IF app[r].route.app \in failOpen THEN Serve(r, "failopen") ELSE Deny(r)

(* A request with a token that still verifies.  `late' says that the token *)
(* was revoked, and visibly so, before the request came.                   *)
Arrive(r, t, client, route) ==
    /\ ~InFlight(r) /\ gw[r] = NoCall
    /\ now <= TokenExp[t]
    /\ Evaluate(r, t, client, route.sensitivity)
    /\ app' = [app EXCEPT ![r] = [pc |-> "risk", token |-> t, client |-> client,
                                  route |-> route, late |-> t \in answered \ missed]]
    /\ UNCHANGED <<failOpen, gw, ledgerVars, stepVars>>

(* The timeout of the call in progress; its late answer is dropped. *)
Timeout(r) ==
    /\ InFlight(r)
    /\ faults < MaxFaults
    /\ faults' = faults + 1
    /\ IF Awaits(r, "revoke") THEN Deny(r) ELSE Unavailable(r)
    /\ UNCHANGED <<now, engineVars, failOpen, gw, ledgerVars, stepVars>>

-----------------------------------------------------------------------------
(* The risk engine's answers *)

RiskStep(r) == (GetLastSeen(r) \/ Score(r)) /\ UNCHANGED chainVars

(* 200: the policy call follows. *)
RiskAnswered(r) ==
    /\ SetLastSeen(r)
    /\ IF Awaits(r, "risk")
       THEN /\ app' = [app EXCEPT ![r].pc = "policy"]
            /\ gw' = [gw EXCEPT ![r] = [pc |-> "check", risk |-> eval[r].risk,
                                        token |-> app[r].token, route |-> app[r].route]]
       ELSE UNCHANGED <<app, gw>>
    /\ UNCHANGED <<failOpen, ledgerVars, stepVars>>

(* 409: denied whatever FAIL_OPEN says. *)
RiskRefused(r) ==
    /\ Refuse(r)
    /\ IF Awaits(r, "risk") THEN Deny(r) ELSE UNCHANGED app
    /\ UNCHANGED <<failOpen, gw, ledgerVars, stepVars>>

RiskFailed(r) ==
    /\ Fail(r) \/ FailAfterSet(r)
    /\ IF Awaits(r, "risk") THEN Unavailable(r) ELSE UNCHANGED app
    /\ UNCHANGED <<failOpen, gw, ledgerVars, stepVars>>

-----------------------------------------------------------------------------
(* The gateway's decision, and what the application does with it *)

HangUp(r) == gw' = [gw EXCEPT ![r] = NoCall]

(* Django honours a step-up token that is bound to this access token and   *)
(* not expired; the client may or may not send one.  Spring knows none.    *)
SteppedUp(r) ==
    /\ app[r].route.app = "django"
    /\ stepUntil[app[r].token] # 0 /\ now <= stepUntil[app[r].token]

(* 401 STEP_UP_REQUIRED.  Django has stored the challenge, the id that     *)
(* Spring answers is stored nowhere.                                       *)
RequireStepUp(r) ==
    /\ challenged' = IF app[r].route.app = "django"
                     THEN challenged \cup {<<app[r].token, app[r].client>>} ELSE challenged
    /\ Deny(r)

(* Every decision but revoke ends the request. *)
Enforce(r, decision) ==
    \/ decision = "allow" /\ Serve(r, "policy") /\ UNCHANGED challenged
    \/ decision = "deny" /\ Deny(r) /\ UNCHANGED challenged
    \/ decision = "stepup" /\ SteppedUp(r) /\ Serve(r, "stepup") /\ UNCHANGED challenged
    \/ decision = "stepup" /\ RequireStepUp(r)

(* The application, still there, revokes the token at the gateway.         *)
CallRevoke(r) ==
    /\ app' = [app EXCEPT ![r].pc = "revoke"]
    /\ gw' = [gw EXCEPT ![r].pc = "persist"]
    /\ UNCHANGED challenged

Decided(r, decision) ==
    IF ~Awaits(r, "policy") THEN HangUp(r) /\ UNCHANGED <<app, challenged>>
    ELSE IF decision = "revoke" THEN CallRevoke(r)
    ELSE HangUp(r) /\ Enforce(r, decision)

(* is_revoked *)
ShortCircuits(t) == t \in visible

CheckRevoked(r) ==
    /\ gw[r].pc = "check"
    /\ IF ShortCircuits(gw[r].token) THEN Decided(r, "revoke")
       ELSE gw' = [gw EXCEPT ![r].pc = "opa"] /\ UNCHANGED <<app, challenged>>
    /\ UNCHANGED <<vars, failOpen, ledgerVars, stepUntil>>

Policy(r) == Decide(gw[r].route.adminPath, gw[r].token \in Admins, gw[r].risk)

OpaAnswers(r) ==
    /\ gw[r].pc = "opa"
    /\ Decided(r, Policy(r))
    /\ UNCHANGED <<vars, failOpen, ledgerVars, stepUntil>>

(* Redis did not take the challenge: 503. *)
ChallengeFails(r) ==
    /\ gw[r].pc = "opa" /\ Awaits(r, "policy")
    /\ app[r].route.app = "django" /\ Policy(r) = "stepup"
    /\ faults < MaxFaults
    /\ faults' = faults + 1
    /\ HangUp(r) /\ Deny(r)
    /\ UNCHANGED <<now, engineVars, failOpen, ledgerVars, stepVars>>

PolicyUnavailable(r) ==
    /\ HangUp(r)
    /\ IF Awaits(r, "policy") THEN Unavailable(r) ELSE UNCHANGED app
    /\ UNCHANGED challenged

(* Broken variant: the gateway's FAIL_OPEN covers the revocation check too. *)
PolicyFailsOpen(r) ==
    /\ gw[r].pc \in {"check", "opa"}
    /\ faults < MaxFaults
    /\ faults' = faults + 1
    /\ IF "gateway" \in failOpen THEN Decided(r, "allow") ELSE PolicyUnavailable(r)
    /\ UNCHANGED <<now, engineVars, failOpen, ledgerVars, stepUntil>>

(* Redis raises: 500.  OPA does: 503, unless the gateway fails open. *)
PolicyFails(r) ==
    /\ faults < MaxFaults
    /\ faults' = faults + 1
    /\ \/ gw[r].pc = "check" /\ PolicyUnavailable(r)
       \/ /\ gw[r].pc = "opa"
          /\ IF "gateway" \in failOpen THEN Decided(r, "allow") ELSE PolicyUnavailable(r)
    /\ UNCHANGED <<now, engineVars, failOpen, ledgerVars, stepUntil>>

-----------------------------------------------------------------------------
(* The gateway's revoke handler *)

(* The call ends: the application denies either way. *)
RevokeEnds(r) ==
    /\ HangUp(r)
    /\ IF Awaits(r, "revoke") THEN Deny(r) ELSE UNCHANGED app

Persist(r) ==
    /\ gw[r].pc = "persist"
    /\ recorded' = recorded \cup {gw[r].token}
    /\ gw' = [gw EXCEPT ![r].pc = "cache"]
    /\ UNCHANGED <<vars, failOpen, app, answered, visible, missed, stepVars>>

(* Broken variant: a failed insert goes on to the cache. *)
PersistSwallowed(r) ==
    /\ gw[r].pc = "persist"
    /\ faults < MaxFaults
    /\ faults' = faults + 1
    /\ gw' = [gw EXCEPT ![r].pc = "cache"]
    /\ UNCHANGED <<now, engineVars, failOpen, app, ledgerVars, stepVars>>

(* 503 revocation_not_persisted, with or without the row. *)
PersistFails(r) ==
    /\ gw[r].pc = "persist"
    /\ faults < MaxFaults
    /\ faults' = faults + 1
    /\ recorded' \in {recorded, recorded \cup {gw[r].token}}
    /\ missed' = missed \cup (recorded' \ recorded)
    /\ RevokeEnds(r)
    /\ UNCHANGED <<now, engineVars, failOpen, answered, visible, stepVars>>

Publish(r) ==
    /\ gw[r].pc = "cache"
    /\ visible' = visible \cup {gw[r].token}
    /\ missed' = missed \ {gw[r].token}
    /\ gw' = [gw EXCEPT ![r].pc = "answer"]
    /\ UNCHANGED <<vars, failOpen, app, recorded, answered, stepVars>>

(* The cache write fails and is only logged. *)
PublishFails(r) ==
    /\ gw[r].pc = "cache"
    /\ faults < MaxFaults
    /\ faults' = faults + 1
    /\ missed' = missed \cup ({gw[r].token} \ visible)
    /\ gw' = [gw EXCEPT ![r].pc = "answer"]
    /\ UNCHANGED <<now, engineVars, failOpen, app, recorded, answered, visible, stepVars>>

(* 200 {"status": "revoked"} *)
AnswerRevoked(r) ==
    /\ gw[r].pc = "answer"
    /\ answered' = answered \cup {gw[r].token}
    /\ RevokeEnds(r)
    /\ UNCHANGED <<vars, failOpen, recorded, visible, missed, stepVars>>

-----------------------------------------------------------------------------
(* The rest of the world *)

(* The user answers the challenge of a token's client with the right code. *)
StepUpVerified(t, client) ==
    /\ <<t, client>> \in challenged
    /\ challenged' = challenged \ {<<t, client>>}
    /\ stepUntil' = [stepUntil EXCEPT ![t] = now + StepUpTTL]
    /\ UNCHANGED <<vars, failOpen, app, gw, ledgerVars>>

(* A resync of the revocation store. *)
Restore(t) ==
    /\ t \in recorded \ visible
    /\ visible' = visible \cup {t}
    /\ missed' = missed \ {t}
    /\ UNCHANGED <<vars, failOpen, app, gw, recorded, answered, stepVars>>

(* Redis loses revocation keys: a request on its way may now pass. *)
LoseKeys(lost) ==
    /\ faults < MaxFaults
    /\ lost # {} /\ lost \subseteq visible
    /\ faults' = faults + 1
    /\ visible' = visible \ lost
    /\ missed' = missed \cup lost
    /\ app' = [r \in Request |-> IF InFlight(r) /\ app[r].token \in lost
                                 THEN [app[r] EXCEPT !.late = FALSE] ELSE app[r]]
    /\ UNCHANGED <<now, engineVars, failOpen, gw, recorded, answered, stepVars>>

(* ... and last-seen entries. *)
LoseMemory(lost) == Lose(lost) /\ UNCHANGED chainVars

Clock == Tick /\ UNCHANGED chainVars

-----------------------------------------------------------------------------
ChainStep(r) ==
    \/ \E t \in Token, client \in Shown, route \in Route : Arrive(r, t, client, route)
    \/ Timeout(r)
    \/ RiskStep(r) \/ RiskAnswered(r) \/ RiskRefused(r) \/ RiskFailed(r)
    \/ CheckRevoked(r) \/ OpaAnswers(r) \/ ChallengeFails(r) \/ PolicyFails(r)
    \/ Persist(r) \/ PersistFails(r) \/ Publish(r) \/ PublishFails(r) \/ AnswerRevoked(r)

ChainNext ==
    \/ \E r \in Request : ChainStep(r)
    \/ \E t \in Token, client \in Client : StepUpVerified(t, client)
    \/ \E t \in Token : Restore(t)
    \/ \E lost \in SUBSET Token : LoseKeys(lost) \/ LoseMemory(lost)
    \/ Clock

ChainSpec == ChainInit /\ [][ChainNext]_allVars
-----------------------------------------------------------------------------
(* Properties *)

(* A request that comes after its token was answered "revoked" is passed   *)
(* to the handler only by an application that fails open without a         *)
(* decision, or once Redis lost the key: no interleaving with decisions,   *)
(* late answers, other revocations or the gateway's own FAIL_OPEN lets it  *)
(* in (gateway/app.py:64-67 checks before OPA is asked).                   *)
RevokedIsRefused ==
    \A r \in Request : app[r].pc = "served" /\ app[r].late => app[r].by = "failopen"

(* The chain only drives the revocation ledger as the store does. *)
ChainLedger == INSTANCE RevocationLedger

ChainLedgerSpec == ChainLedger!Spec

(* "Additional authentication required" (middleware.py:232): a client told *)
(* to step up is not served before its user did.                           *)
StepUpIsRequired ==
    [][\A r \in Request :
          InFlight(r) /\ app'[r].pc = "served"
          /\ <<app[r].token, app[r].client>> \in challenged \cap challenged' =>
             app'[r].by = "stepup"]_allVars
-----------------------------------------------------------------------------
(* The inductive invariant behind RevokedIsRefused and ChainLedgerSpec *)

(* A request x in the application and the gateway's work y for it: the     *)
(* revoke handler is ahead of the ledger by what it still has to write; a  *)
(* decision that the application waits for is about its own token; and a   *)
(* request that came after its token was visibly revoked finds it so, up   *)
(* to the check, and is never let past it.                                 *)
Consistent(x, y) ==
    /\ y.pc \in {"cache", "answer"} => y.token \in recorded
    /\ y.pc = "answer" => y.token \in visible \cup missed
    /\ y.pc \in {"check", "opa"} /\ x.pc = "policy" => y.token = x.token
    /\ y.pc = "opa" /\ x.pc = "policy" => ~x.late
    /\ x.pc \in {"risk", "policy", "revoke"} /\ x.late => x.token \in visible

(* An answered token whose key is gone is known to be missed.              *)
ChainIInv ==
    /\ ChainTypeOK
    /\ answered \subseteq visible \cup missed
    /\ \A r \in Request : Consistent(app[r], gw[r])
    /\ RevokedIsRefused
=============================================================================
