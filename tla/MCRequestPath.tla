---------------------------- MODULE MCRequestPath ----------------------------
(***************************************************************************)
(* The TLC instance of what a protected request passes: the risk engine,   *)
(* the chain around it, and step-up authentication.  Four questions share  *)
(* one run: `focus' says which of them a behaviour is about, and only the  *)
(* part it is about moves, within the cuts stated here.                    *)
(***************************************************************************)
EXTENDS EnforcementChain, StepUp, TLC

CONSTANTS r1, r2, t1, i1, i2, a1, a2, g1, g2, h1, h2, u1, j1, j2, ip1, ip2

VARIABLE focus

(* Two clients that differ in everything. *)
Home == [ip |-> i1, geo |-> g1, ua |-> a1]
Away == [ip |-> i2, geo |-> g2, ua |-> a2]
HomeAway == {Home, Away}

(* A read in Django, where full drift asks for step-up, and a payment in   *)
(* Spring, where it revokes.                                               *)
Read == [app |-> "django", sensitivity |-> 2, adminPath |-> FALSE]
Pay == [app |-> "spring", sensitivity |-> 4, adminPath |-> FALSE]
(* GET /v1/admin has no sensitivity of its own. *)
Admin == [app |-> "django", sensitivity |-> 2, adminPath |-> TRUE]
ReadPayAdmin == {Read, Pay, Admin}

ClosedOrOpen == {{}, {"django", "gateway"}}

Long == t1 :> 3

(* The requests are interchangeable, and the two clients, taken as a whole. *)
SameClients == [x \in {i1, i2, a1, a2, g1, g2} |-> x]
SwapClients == i1 :> i2 @@ i2 :> i1 @@ a1 :> a2 @@ a2 :> a1 @@ g1 :> g2 @@ g2 :> g1
Symmetric == {p @@ q : p \in Permutations({r1, r2}), q \in {SameClients, SwapClients}}

-----------------------------------------------------------------------------
(* "risk": evaluations alone, with two faults, over the window and the TTL. *)
RiskPart ==
    /\ Next
    /\ \A r \in Request : eval'[r] # Free => eval'[r].sensitivity = 4
    /\ UNCHANGED chainVars

(* "chain": one fault, and nothing happens between time 0 and time 2, when *)
(* the window has ended and the memory has not.                            *)
ChainPart ==
    /\ ChainNext
    /\ faults' <= 1 /\ now' <= 2
    /\ now = 1 => now' = 2

(* One code that is right and one that is wrong: the right one is the counter  *)
(* of step 2, which lives, from its first match to its last, in steps 1 to 4.  *)
TwoCodes == \A r \in Verifier : req'[r].code \in {Wrong, 2}

(* Challenges and access tokens are interchangeable too: h1 and j1 come first. *)
FirstThings ==
    /\ issued'[h1] = Absent => issued'[h2] = Absent
    /\ issued'[h1].jti # j2

(* "codes": two submissions over the whole life of the code, none of which dies. *)
OverItsLife ==
    /\ submits' <= 2 /\ abandons' = 0
    /\ issued'[h2].jti # j2

(* "guesses": three submissions that die, run out of attempts or expire; only *)
(* the last of them may come from the other address.                         *)
BeyondLimits ==
    /\ step' <= 2
    /\ submits' <= 2 => \A r \in Verifier : req'[r].pc # "idle" => req'[r].ip = ip1

StepUpPart == StepUpNext /\ TwoCodes /\ FirstThings

-----------------------------------------------------------------------------
MCInit ==
    /\ focus \in {"risk", "chain", "codes", "guesses"}
    /\ ChainInit /\ StepUpInit
    /\ focus # "chain" => failOpen = {}

MCNext ==
    /\ UNCHANGED focus
    /\ \/ focus = "risk" /\ RiskPart /\ UNCHANGED stepUpVars
       \/ focus = "chain" /\ ChainPart /\ UNCHANGED stepUpVars
       \/ focus = "codes" /\ StepUpPart /\ OverItsLife /\ UNCHANGED allVars
       \/ focus = "guesses" /\ StepUpPart /\ BeyondLimits /\ UNCHANGED allVars

MCSpec == MCInit /\ [][MCNext]_<<focus, allVars, stepUpVars>>
=============================================================================
