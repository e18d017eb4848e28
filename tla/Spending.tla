------------------------------ MODULE Spending ------------------------------
(***************************************************************************)
(* What the wakes of one agent cost, and who stops them.  A task reads the *)
(* budget before it acquires a wake; inside the wake it calls the LLM, up  *)
(* to three attempts per chat, and accounts what was answered; maintenance *)
(* does so once more and writes the next version of the projection.        *)
(*                                                                         *)
(* The wakes are the lease of ExclusiveWake, which WakeTasks implements as *)
(* long as no running wake is slower than the sweep's window.  Costs are   *)
(* small numbers.                                                          *)
(***************************************************************************)
EXTENDS ExclusiveWake, Sequences

CONSTANTS
    Limits,         \* the limits an operator sets; 0 is none
    Prices,         \* what a provider charges for an attempt
    MaxRounds,      \* bound: chats per wake loop
    MaxWakes,       \* bound: wakes ever issued
    MaxBilled       \* bound: what providers ever charge

ASSUME SpendingAssumption ==
    /\ Limits \subseteq Nat /\ 0 \in Limits
    /\ Prices \subseteq Nat /\ 0 \in Prices
    /\ MaxRounds \in Nat \ {0} /\ MaxWakes \in Nat /\ MaxBilled \in Nat
    /\ Nobody \notin Workers

VARIABLES
    budget_limit,   \* agents.budget_limit_usd
    budget_used,    \* agents.budget_used_usd
    llm_calls,      \* SUM(cost_usd) of the rows of llm_calls
    projections,    \* the rows of agent_projections in the order of their inserts
    summaries,      \* the wakes that have a row in wake_summaries
    billed,         \* what providers have charged
    at,             \* the statement a task is about to execute
    call_type,      \* whose call it is: "wake_loop" or "maintenance"
    rounds,         \* chats of this wake loop
    attempt,        \* attempts of this chat that failed
    cost,           \* cost_usd of the response at hand
    staged,         \* what its open transaction has inserted into llm_calls
    version,        \* current_version, as maintenance read it
    renewed,        \* the task is in its second, drained wake
    late            \* history: wakes a task has entered since the budget was spent

money == <<budget_limit, budget_used, llm_calls, billed>>
written == <<projections, summaries>>
call == <<call_type, rounds, attempt, cost, staged, version>>
spendingVars == <<leaseVars, money, written, at, call, renewed, late>>

Each(value) == [t \in Workers |-> value]

SpendingInit ==
    /\ LeaseInit
    /\ budget_limit \in Limits /\ budget_used = 0 /\ llm_calls = 0 /\ billed = 0
    /\ projections = << >> /\ summaries = {}
    /\ at = Each("idle") /\ call_type = Each("wake_loop")
    /\ rounds = Each(0) /\ attempt = Each(0) /\ cost = Each(0) /\ staged = Each(0)
    /\ version = Each(0) /\ renewed = Each(FALSE)
    /\ late = Each(0)

Set(f, t, value) == f' = [f EXCEPT ![t] = value]

GoTo(t, step) == Set(at, t, step)

Spent == budget_limit > 0 /\ budget_used >= budget_limit

-----------------------------------------------------------------------------
(* Entering a wake. *)

\* Mutant: the limit itself may still be spent.
SpentBeyond == budget_limit > 0 /\ budget_used > budget_limit

Exceeded == budget_limit > 0 /\ budget_used >= budget_limit

\* A notification: handle_wake reads the row, appends budget_exceeded or goes on.
check_budget(t) ==
    /\ at[t] = "idle"
    /\ ~Exceeded
    /\ GoTo(t, "attempt_wake_acquire")
    /\ UNCHANGED <<leaseVars, money, written, call, renewed, late>>

\* A wake of this task starts: its loop has had no round.
Enter(t) ==
    /\ issued < MaxWakes
    /\ GoTo(t, "round")
    /\ Set(call_type, t, "wake_loop")
    /\ Set(rounds, t, 0)
    /\ Set(version, t, 0)
    /\ late' = IF Spent THEN [late EXCEPT ![t] = @ + 1] ELSE late
    /\ UNCHANGED <<money, written, attempt, cost, staged>>

BeginWake(t) ==
    /\ at[t] = "attempt_wake_acquire"
    /\ \/ Begin(t) /\ Enter(t) /\ Set(renewed, t, FALSE)
       \/ /\ wake # 0
          /\ GoTo(t, "idle")
          /\ UNCHANGED <<leaseVars, money, written, call, renewed, late>>

-----------------------------------------------------------------------------
(* A call to the LLM. *)

\* chat, from the loop's next round or from maintenance.
AskModel(t, type) == GoTo(t, "chat") /\ Set(call_type, t, type)

\* The head of the loop: another round, or a cap, which ends the wake.
Round(t) ==
    /\ at[t] = "round"
    /\ \/ /\ rounds[t] < MaxRounds
          /\ Set(rounds, t, rounds[t] + 1)
          /\ AskModel(t, "wake_loop")
       \/ GoTo(t, "run_maintenance") /\ UNCHANGED <<rounds, call_type>>
    /\ UNCHANGED <<leaseVars, money, written, attempt, cost, staged, version, renewed, late>>

\* The task ends where it stands, with an open transaction rolled back.
EndTask(t) ==
    /\ GoTo(t, "idle")
    /\ Set(call_type, t, "wake_loop")
    /\ Set(rounds, t, 0)
    /\ Set(attempt, t, 0)
    /\ Set(cost, t, 0)
    /\ Set(staged, t, 0)
    /\ Set(version, t, 0)
    /\ Set(renewed, t, FALSE)

\* The provider's charge for an attempt.
Charge(price) == billed + price <= MaxBilled /\ billed' = billed + price

\* A chat that failed ends the wake loop, but it fails maintenance and the task.
ChatFails(t) ==
    \/ /\ call_type[t] = "wake_loop"
       /\ GoTo(t, "run_maintenance")
       /\ Set(attempt, t, 0)
       /\ UNCHANGED <<leaseVars, call_type, rounds, cost, staged, version, renewed>>
    \/ call_type[t] = "maintenance" /\ EndTask(t) /\ Vanish(t)

\* An attempt that got no answer with a 2xx status; the provider may have charged it.
AttemptFails(t) ==
    /\ at[t] = "chat"
    /\ \E price \in Prices : Charge(price)
    /\ \/ /\ attempt[t] < 2
          /\ Set(attempt, t, attempt[t] + 1)
          /\ UNCHANGED <<leaseVars, at, call_type, rounds, cost, staged, version, renewed>>
       \/ attempt[t] = 2 /\ ChatFails(t)
    /\ UNCHANGED <<budget_limit, budget_used, llm_calls, written, late>>

\* A 2xx answer whose body does not parse is not tried again.
Unparsable(t) ==
    /\ at[t] = "chat"
    /\ \E price \in Prices : Charge(price)
    /\ ChatFails(t)
    /\ UNCHANGED <<budget_limit, budget_used, llm_calls, written, late>>

\* The answer: without `usage` its cost is NULL, which counts nothing.  In the wake loop
\* an echo of the canary ends the wake before the call is accounted.
Answered(t) ==
    /\ at[t] = "chat"
    /\ \E price \in Prices :
          /\ Charge(price)
          /\ \/ /\ \E known \in {0, price} : Set(cost, t, known)
                /\ GoTo(t, "insert_llm_call")
             \/ /\ call_type[t] = "wake_loop"
                /\ GoTo(t, "run_maintenance")
                /\ UNCHANGED cost
    /\ Set(attempt, t, 0)
    /\ UNCHANGED <<leaseVars, budget_limit, budget_used, llm_calls, written, call_type, rounds,
                   staged, version, renewed, late>>

\* Mutant: the row is inserted outside the transaction.
InsertOutside(t) ==
    /\ at[t] = "insert_llm_call"
    /\ llm_calls' = llm_calls + cost[t]
    /\ GoTo(t, "commit_call")
    /\ UNCHANGED <<leaseVars, budget_limit, budget_used, billed, written, call, renewed, late>>

\* insert_llm_call: the transaction inserts the row and updates the agent.
InsertCall(t) ==
    /\ at[t] = "insert_llm_call"
    /\ Set(staged, t, cost[t])
    /\ GoTo(t, "commit_call")
    /\ UNCHANGED <<leaseVars, money, written, call_type, rounds, attempt, cost, version, renewed,
                   late>>

\* Its commit.  Then the loop goes round or ends; maintenance writes what it was
\* told, if there is a text.
CommitCall(t) ==
    /\ at[t] = "commit_call"
    /\ llm_calls' = llm_calls + staged[t]
    /\ budget_used' = budget_used + cost[t]
    /\ Set(staged, t, 0)
    /\ Set(cost, t, 0)
    /\ \/ call_type[t] = "wake_loop" /\ \E step \in {"round", "run_maintenance"} : GoTo(t, step)
       \/ call_type[t] = "maintenance"
          /\ \E step \in {"insert_projection", "check_drain"} : GoTo(t, step)
    /\ UNCHANGED <<leaseVars, budget_limit, billed, written, call_type, rounds, attempt, version,
                   renewed, late>>

-----------------------------------------------------------------------------
(* Maintenance. *)

\* Mutant: ORDER BY version without DESC.
first_projection == IF projections = << >> THEN 0 ELSE 1

\* The version of the newest row, or 0.
latest_projection ==
    IF projections = << >> THEN 0 ELSE projections[Len(projections)].version

run_maintenance(t) ==
    /\ at[t] = "run_maintenance"
    /\ Set(version, t, latest_projection)
    /\ AskModel(t, "maintenance")
    /\ UNCHANGED <<leaseVars, money, written, rounds, attempt, cost, staged, renewed, late>>

\* With the text's identity and work list if it is JSON, with the old ones if not.
insert_projection(t) ==
    /\ at[t] = "insert_projection"
    /\ projections' = Append(projections, [version |-> version[t] + 1, wake |-> wake])
    /\ GoTo(t, "insert_wake_summary")
    /\ UNCHANGED <<leaseVars, money, summaries, call, renewed, late>>

insert_wake_summary(t) ==
    /\ at[t] = "insert_wake_summary"
    /\ summaries' = summaries \union {wake}
    /\ GoTo(t, "check_drain")
    /\ UNCHANGED <<leaseVars, money, projections, call, renewed, late>>

-----------------------------------------------------------------------------
(* Leaving a wake. *)

\* check_drain: a wake for what has come in meanwhile, whatever the budget.
Drain(t) ==
    /\ at[t] = "check_drain"
    /\ ~renewed[t]
    /\ Renew(t)
    /\ Enter(t)
    /\ Set(renewed, t, TRUE)

\* Nothing has, or this was the drained wake.
Release(t) ==
    /\ at[t] = "check_drain"
    /\ Finish(t)
    /\ EndTask(t)
    /\ UNCHANGED <<money, written, late>>

\* A statement fails, which ends the task; or the agent was disabled at the drain.
StatementFails(t) ==
    /\ at[t] # "idle"
    /\ EndTask(t)
    /\ IF holder = t THEN Vanish(t) ELSE UNCHANGED leaseVars
    /\ UNCHANGED <<money, written, late>>

ServerCrashes ==
    /\ at' = Each("idle") /\ call_type' = Each("wake_loop")
    /\ rounds' = Each(0) /\ attempt' = Each(0) /\ cost' = Each(0) /\ staged' = Each(0)
    /\ version' = Each(0) /\ renewed' = Each(FALSE)
    /\ IF holder = Nobody THEN UNCHANGED leaseVars ELSE Vanish(holder)
    /\ UNCHANGED <<money, written, late>>

\* The stale-wake sweep.
Sweep == Reclaim /\ UNCHANGED <<money, written, at, call, renewed, late>>

\* update_agent, the budget's column.  The count of late wakes starts again when money is left.
SetBudgetLimit ==
    /\ budget_limit' \in Limits \ {budget_limit}
    /\ UNCHANGED <<leaseVars, budget_used, llm_calls, billed, written, at, call, renewed>>
    /\ late' = IF Spent' THEN late ELSE Each(0)

-----------------------------------------------------------------------------
SpendingNext ==
    \/ \E t \in Workers :
          \/ check_budget(t) \/ BeginWake(t)
          \/ Round(t) \/ AttemptFails(t) \/ Unparsable(t) \/ Answered(t)
          \/ InsertCall(t) \/ CommitCall(t)
          \/ run_maintenance(t) \/ insert_projection(t) \/ insert_wake_summary(t)
          \/ Drain(t) \/ Release(t) \/ StatementFails(t)
    \/ ServerCrashes \/ Sweep \/ SetBudgetLimit

SpendingSpec == SpendingInit /\ [][SpendingNext]_spendingVars
=============================================================================
