------------------------- MODULE MCRevocationStore -------------------------
(***************************************************************************)
(* TLC instances of RevocationStore and the properties their runs check.   *)
(***************************************************************************)
EXTENDS RevocationProperties, TLC

CONSTANTS c1, c2, t1, t2, w1

(* The one token of the small instance is accepted for two seconds. *)
ExpOne == t1 :> 1
(* Two tokens that expire at different times. *)
ExpTwo == t1 :> 0 @@ t2 :> 1

(* Both threads in one worker. *)
HostOne == c1 :> w1 @@ c2 :> w1

(* A single thread. *)
HostOneThread == c1 :> w1
=============================================================================
