----------------------------- MODULE MCWakeLoop -----------------------------
(***************************************************************************)
(* Values for the constants of WakeLoop.                                   *)
(***************************************************************************)
EXTENDS WakeLoopProperties

CONSTANTS key

SomeRequests == {[tool |-> "shell", names |-> {key}],
                 [tool |-> "sleep", names |-> {}]}

SomeModes == {"supervised", "corrupt"}
OneMode   == {"supervised"}
=============================================================================
