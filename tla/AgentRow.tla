------------------------------ MODULE AgentRow ------------------------------
(***************************************************************************)
(* One row of the `agents` table as the wake machinery sees it, and the    *)
(* UPDATE statements of models/agent.rs that write it.  Each statement is  *)
(* one atomic step; a compare-and-swap that matches no row leaves it alone *)
(* and its caller gets None.                                               *)
(*                                                                         *)
(* No statement touches the row of two agents, so one row is enough.       *)
(***************************************************************************)
EXTENDS Naturals

CONSTANT Budgeted   \* may the operator give the agent a budget limit?

ASSUME BudgetedAssumption == Budgeted \in BOOLEAN

VARIABLES
    status,         \* agents.status
    wake_id,        \* agents.wake_id: a number for the uuid, NoWake for NULL
    count,          \* agents.wake_iteration_count
    stale,          \* wake_started_at < NOW() - stale_wake_hours
    is_enabled,     \* agents.is_enabled
    over_budget,    \* budget_limit_usd > 0 /\ budget_used_usd >= budget_limit_usd
    minted          \* how many wake ids gen_random_uuid() has handed out

row == <<status, wake_id, count, stale, is_enabled, over_budget, minted>>

NoWake == 0

LiveStatuses ==
    {"wake_acquiring", "prompt_assembling", "awake", "tool_dispatching",
     "tool_executing", "tool_result_processing", "mid_wake_event_polling",
     "wake_ending", "maintenance"}

AgentStatus == LiveStatuses \cup {"asleep"}

RowTypeOK ==
    /\ status \in AgentStatus
    /\ wake_id \in Nat
    /\ count \in Nat
    /\ stale \in BOOLEAN
    /\ is_enabled \in BOOLEAN
    /\ over_budget \in BOOLEAN
    /\ minted \in Nat

\* create_agent: the column defaults.
RowInit ==
    /\ status = "asleep"
    /\ wake_id = NoWake
    /\ count = 0
    /\ stale = FALSE
    /\ is_enabled = TRUE
    /\ over_budget = FALSE
    /\ minted = 0

-----------------------------------------------------------------------------
(* The hops inside a wake: UPDATE ... SET status = to WHERE status IN from. *)

wake_acquire_succeeds ==
    [from |-> {"wake_acquiring"}, to |-> "prompt_assembling"]
prompt_assembly_completes ==
    [from |-> {"prompt_assembling"}, to |-> "awake"]
enter_tool_dispatching ==
    [from |-> {"awake"}, to |-> "tool_dispatching"]
enter_tool_executing ==
    [from |-> {"tool_dispatching"}, to |-> "tool_executing"]
enter_tool_result_processing ==
    [from |-> {"tool_executing"}, to |-> "tool_result_processing"]
\* Mutant: the text column takes a status that no AgentStatus parses.
enter_event_polling_misspelt ==
    [from |-> {"tool_result_processing"}, to |-> "event_polling"]
enter_mid_wake_event_polling ==
    [from |-> {"tool_result_processing"}, to |-> "mid_wake_event_polling"]
mid_wake_poll_finds_nothing ==
    [from |-> {"mid_wake_event_polling"}, to |-> "awake"]
\* Mutant: a wake that never assembled its prompt may end too.
enter_wake_ending_early ==
    [from |-> LiveStatuses \ {"wake_ending", "maintenance"}, to |-> "wake_ending"]
enter_wake_ending ==
    [from |-> {"awake", "tool_dispatching", "tool_executing",
               "tool_result_processing", "mid_wake_event_polling"},
     to |-> "wake_ending"]
wake_end_transitions_to_maintenance ==
    [from |-> {"wake_ending"}, to |-> "maintenance"]

\* The statement of a hop, when its WHERE clause matches.
Move(hop) ==
    /\ status \in hop.from
    /\ status' = hop.to
    /\ UNCHANGED <<wake_id, count, stale, is_enabled, over_budget, minted>>

-----------------------------------------------------------------------------
(* The statements that start and end a wake.                               *)

\* Mutant: the acquisition forgets to reset the count of the wake before.
StartWakeKeepingCount(prev) ==
    /\ status = prev
    /\ is_enabled
    /\ status' = "wake_acquiring"
    /\ minted' = minted + 1
    /\ wake_id' = minted'
    /\ stale' = FALSE
    /\ UNCHANGED <<count, is_enabled, over_budget>>

\* SET wake_id = gen_random_uuid(), wake_started_at = NOW(), count = 0.
StartWakeFrom(prev) ==
    /\ status = prev
    /\ is_enabled
    /\ status' = "wake_acquiring"
    /\ minted' = minted + 1
    /\ wake_id' = minted'
    /\ count' = 0
    /\ stale' = FALSE
    /\ UNCHANGED <<is_enabled, over_budget>>

\* Mutant: both entries in one statement, WHERE status IN ('asleep', 'maintenance').
acquire_from_either == StartWakeFrom("asleep") \/ StartWakeFrom("maintenance")

\* Mutant: the drain goes straight back to awake, as drain_reacquire does.
drain_to_awake ==
    /\ status = "maintenance"
    /\ is_enabled
    /\ status' = "awake"
    /\ minted' = minted + 1
    /\ wake_id' = minted'
    /\ count' = 0
    /\ stale' = FALSE
    /\ UNCHANGED <<is_enabled, over_budget>>

attempt_wake_acquire == StartWakeFrom("asleep")
drain_attempt_wake_acquire == StartWakeFrom("maintenance")

\* SET wake_id = NULL, wake_started_at = NULL, count = 0.
EndWakeFrom(prev) ==
    /\ status \in prev
    /\ status' = "asleep"
    /\ wake_id' = NoWake
    /\ count' = 0
    /\ stale' = FALSE
    /\ UNCHANGED <<is_enabled, over_budget, minted>>

release_to_asleep == EndWakeFrom({"maintenance"})
force_release == EndWakeFrom(LiveStatuses)

\* Not guarded by the status or by the wake.
increment_iteration ==
    /\ count' = count + 1
    /\ UNCHANGED <<status, wake_id, stale, is_enabled, over_budget, minted>>

-----------------------------------------------------------------------------
(* Statements of other actors.                                             *)

\* Mutants: without the age test; and with the two statuses it once looked for.
find_live_agents == status \in LiveStatuses
find_stale_awake_agents == status \in {"awake", "maintenance"} /\ stale

\* WHERE clause of find_stale_agents.
find_stale_agents == status \in LiveStatuses /\ stale

\* insert_llm_call adds the cost to budget_used_usd in its transaction.
SpendBudget ==
    /\ over_budget' \in {over_budget, Budgeted}
    /\ UNCHANGED <<status, wake_id, count, stale, is_enabled, minted>>

\* PATCH may change is_enabled and the budget limit; only an agent that has had a
\* wake can have spent anything.
update_agent ==
    /\ is_enabled' \in BOOLEAN
    /\ over_budget' \in {FALSE, Budgeted /\ minted > 0}
    /\ UNCHANGED <<status, wake_id, count, stale, minted>>

soft_delete_agent ==
    /\ is_enabled' = FALSE
    /\ UNCHANGED <<status, wake_id, count, stale, over_budget, minted>>

\* The wake outlives stale_wake_hours.
Age ==
    /\ status \in LiveStatuses
    /\ ~stale
    /\ stale' = TRUE
    /\ UNCHANGED <<status, wake_id, count, is_enabled, over_budget, minted>>
=============================================================================
