---------------------------- MODULE PolicyLadder ----------------------------
(***************************************************************************)
(* The authorization policy (policies/opa/rules/authz.rego): a ladder of   *)
(* rules over the path, the roles and the risk score, the first one that   *)
(* applies decides.  Scores are in ten-thousandths, the precision the risk *)
(* engine rounds to.                                                       *)
(***************************************************************************)
EXTENDS Integers

Decisions == {"allow", "stepup", "revoke", "deny"}

VeryHighRisk(risk) == risk >= 9000
HighRisk(risk) == risk >= 6500

(* The rules that split high risk by sensitivity decide the same.          *)
Decide(adminPath, hasAdminRole, risk) ==
    IF adminPath /\ ~hasAdminRole THEN "deny"
    ELSE IF VeryHighRisk(risk) THEN "revoke"
    ELSE IF HighRisk(risk) THEN "stepup"
    ELSE "allow"
=============================================================================
