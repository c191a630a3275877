--------------------------- MODULE ConsolesProofs ---------------------------
(* What works beside the request path, all of it together: what a run checks of *)
(* one part at a time follows from what is proved of each, as the parts share no *)
(* variable and a part that is not in focus stutters.                          *)
EXTENDS MCConsoles, SocProofs, SentinelProofs, BackgroundProofs

(* A part begins in an initial state of its own, and moves by its own actions.  *)
LEMMA PartsBegin ==
  MCInit => /\ PollInit /\ WorkInit /\ InspInit /\ SimInit /\ ConInit
            /\ ExInit /\ ToastInit /\ TelInit /\ AnInit
BY Zenon DEF MCInit

LEMMA PartsMove ==
  ASSUME [MCNext]_allVars
  PROVE  /\ [PollNext]_pollVars /\ [WorkNext]_workVars /\ [InspNext]_inspVars
         /\ [SimNext]_simVars /\ [ConNext]_conVars /\ [ExNext]_exVars
         /\ [ToastNext]_toastVars /\ [TelNext]_telVars /\ [AnNext]_anVars
<1>1. (WorkPart => WorkNext) /\ (InspPart => InspNext) /\ (ConPart => ConNext)
  BY Zenon DEF WorkPart, WorkNext, InspPart, InspNext, ConPart, ConNext
<1>2. (SimPart => SimNext) /\ (TelPart => TelNext) /\ (AnPart => AnNext)
  BY Zenon DEF SimPart, TelPart, AnPart
<1>3. CASE UNCHANGED allVars
  BY <1>3, Zenon DEF allVars
<1>4. CASE PollNext /\ (Overlapping \/ OnePoll)
  BY <1>4, Zenon DEF Overlapping, OnePoll, OnlyPoll
<1>5. CASE WorkPart /\ OnlyWork
  BY <1>1, <1>5, Zenon DEF OnlyWork
<1>6. CASE InspPart /\ OnlyInsp
  BY <1>1, <1>6, Zenon DEF OnlyInsp
<1>7. CASE SimPart /\ OnlySim
  BY <1>2, <1>7, Zenon DEF OnlySim
<1>8. CASE ConPart /\ OnlyCon
  BY <1>1, <1>8, Zenon DEF OnlyCon
<1>9. CASE ExNext /\ OnlyEx
  BY <1>9, Zenon DEF OnlyEx
<1>10. CASE ToastNext /\ OnlyTst
  BY <1>10, Zenon DEF OnlyTst
<1>11. CASE TelPart /\ OnlyTel
  BY <1>2, <1>11, Zenon DEF OnlyTel
<1>12. CASE AnPart /\ OnlyAn
  BY <1>2, <1>12, Zenon DEF OnlyAn
<1>13. QED
  BY <1>3, <1>4, <1>5, <1>6, <1>7, <1>8, <1>9, <1>10, <1>11, <1>12, Zenon DEF MCNext

(* Every variable of the consoles, the simulator, the audit trail and the       *)
(* anomaly model keeps its type, whichever of them moves.                      *)
THEOREM ConsolesTypeCorrect == MCSpec => []ConsolesTypeOK
<1>1. MCSpec => []PollTypeOK
  BY PartsBegin, PartsMove, PollTypesHold, PTL DEF MCSpec
<1>2. MCSpec => []WorkTypeOK
  BY PartsBegin, PartsMove, WorkTypeCorrect, PTL DEF MCSpec, WorkSpec
<1>3. MCSpec => []InspTypeOK
  BY PartsBegin, PartsMove, InspTypeCorrect, PTL DEF MCSpec, InspSpec
<1>4. MCSpec => []SimTypeOK
  BY PartsBegin, PartsMove, SimTypesHold, PTL DEF MCSpec
<1>5. MCSpec => []ConTypeOK
  BY PartsBegin, PartsMove, ConTypeCorrect, PTL DEF MCSpec, ConSpec
<1>6. MCSpec => []ExTypeOK
  BY PartsBegin, PartsMove, ExTypeCorrect, PTL DEF MCSpec, ExSpec
<1>7. MCSpec => []ToastTypeOK
  BY PartsBegin, PartsMove, ToastTypeCorrect, PTL DEF MCSpec, ToastSpec
<1>8. MCSpec => []TelTypeOK
  <2>1. TelIInv => TelTypeOK
    BY DEF TelIInv
  <2>2. QED
    BY PartsBegin, PartsMove, TelInitInv, InvNext, <2>1, PTL DEF MCSpec
<1>9. MCSpec => []AnTypeOK
  BY PartsBegin, PartsMove, AnTypeCorrect, PTL DEF MCSpec, AnSpec
<1>10. ConsolesTypeOK <=> /\ PollTypeOK /\ WorkTypeOK /\ InspTypeOK /\ SimTypeOK
                          /\ ConTypeOK /\ ExTypeOK /\ ToastTypeOK /\ TelTypeOK /\ AnTypeOK
  BY Zenon DEF ConsolesTypeOK
<1>11. QED
  BY <1>1, <1>2, <1>3, <1>4, <1>5, <1>6, <1>7, <1>8, <1>9, <1>10, PTL
=============================================================================
