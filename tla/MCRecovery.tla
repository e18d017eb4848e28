------------------------------ MODULE MCRecovery ------------------------------
(***************************************************************************)
(* An agent whose wakes are cut short: what becomes of its row, also when  *)
(* a wake outlives the sweep's window, and what becomes of its accounts.   *)
(* WakeTasks and Spending share no state here, and no property speaks of   *)
(* both: it is enough to run each while the other has not begun.           *)
(***************************************************************************)
EXTENDS MCWake, SpendingProperties

CONSTANTS t1, t2

TwoTasks == {t1, t2}
NoneOrOne == {0, 1}

\* The agent listens, which is all that fairness asks of it before the first message.
NoMessages == listening /\ sent = 0 /\ is_enabled
NoAccounts == issued = 0 /\ budget_limit = 0 /\ at = Each("idle")

RecoveryInit == Init /\ SpendingInit /\ budget_limit = 0

RecoveryNext ==
    \/ NoAccounts /\ Next /\ UNCHANGED spendingVars
    \/ NoMessages /\ SpendingNext /\ UNCHANGED vars

RecoverySpec ==
    /\ RecoveryInit
    /\ [][RecoveryNext]_<<vars, spendingVars>>
    /\ Fairness
=============================================================================
