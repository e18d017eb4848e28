------------------------------ MODULE WakeTasks ------------------------------
(***************************************************************************)
(* The tasks that fight over one agent's row.  The listener spawns one     *)
(* handle_wake task per notification; a task acquires the row by           *)
(* compare-and-swap, runs the wake loop, runs maintenance, drains or       *)
(* releases.  Beside them run the API, the operator, the stale-wake sweep  *)
(* and whatever can go wrong.                                              *)
(*                                                                         *)
(* Every step is one SQL statement (or one external call): the code holds  *)
(* no lock and no transaction across two of them, so any other actor may   *)
(* step in between.  pc[t] names the statement task t is about to execute; *)
(* a pc log_S is the append of the lifecycle_transition event for the hop  *)
(* into S that the task has just made.                                     *)
(***************************************************************************)
EXTENDS AgentRow, FiniteSets

CONSTANTS
    Tasks,          \* slots for concurrent handle_wake tasks
    IterationCap,   \* config.iteration_cap
    RateLimit,      \* config.tool_call_rate_limit_per_wake
    MaxSends,       \* bound: messages and webhooks that arrive
    Arrivals,       \* the kinds of those, a subset of EventKinds
    SlowWakes,      \* may a wake whose task still runs outlive stale_wake_hours?
    Faults          \* subset of {"task", "crash", "listener"}

ASSUME CapsAssumption == IterationCap \in Nat /\ RateLimit \in Nat \ {0}
EventKinds == {"message_received", "webhook_received"}

ASSUME EnvironmentAssumption ==
    /\ MaxSends \in Nat
    /\ Arrivals \subseteq EventKinds
    /\ SlowWakes \in BOOLEAN
    /\ Faults \subseteq {"task", "crash", "listener"}

VARIABLES
    pc,             \* the statement each task is about to execute
    my_wake,        \* the wake_id the task carries
    prior,          \* prior_status, read before the terminal hop
    calls,          \* tool_calls_this_wake
    drained,        \* the task is in its second, drained wake
    logged,         \* the newest lifecycle_transition event
    last_msg,       \* newest message_received: wakes minted before its created_at
    unread,         \* kinds of events that no prompt has shown to the agent yet
    sent,           \* messages and webhooks so far
    admitted,       \* a webhook has passed its checks and is not yet in the log
    to_notify,      \* requests between their append and their pg_notify
    notifications,  \* notifications on their way to the listener
    listening,      \* LISTEN is in force
    found           \* the sweep has selected the row and not yet released it

locals == <<my_wake, prior, calls, drained>>
inbox  == <<last_msg, unread, sent, admitted>>
host   == <<to_notify, notifications, listening, found>>
vars   == <<row, pc, locals, logged, inbox, host>>

-----------------------------------------------------------------------------
(* Where a task stands: the pcs by the status it believes the row to have. *)

AcquiringPcs  == {"log_wake_acquiring", "log_drain", "reread_wake", "wake_acquire_succeeds"}
AssemblingPcs == {"log_prompt_assembling", "prompt_assembly_completes"}
AwakePcs      == {"log_awake", "iterate", "assemble_prompt", "chat",
                  "enter_tool_dispatching", "log_awake_again"}
DispatchPcs   == {"log_tool_dispatching", "rate_limit"}
ExecutePcs    == {"log_tool_executing", "dispatch_tool"}
ResultPcs     == {"log_tool_result_processing", "tool_result", "increment_iteration",
                  "enter_mid_wake_event_polling"}
PollPcs       == {"log_mid_wake_event_polling", "mid_wake_poll_finds_nothing"}
TerminalPcs   == {"read_prior", "enter_wake_ending"}
EndingPcs     == {"log_wake_ending", "wake_end_transitions_to_maintenance"}
MaintainPcs   == {"log_maintenance", "run_maintenance", "has_pending_events",
                  "drain_attempt_wake_acquire", "release_to_asleep"}

OwnerPcs == AcquiringPcs \cup AssemblingPcs \cup AwakePcs \cup DispatchPcs
            \cup ExecutePcs \cup ResultPcs \cup PollPcs \cup TerminalPcs
            \cup EndingPcs \cup MaintainPcs

FreePcs == {"idle", "check_budget", "attempt_wake_acquire"}

LogPcs == {"log_wake_acquiring", "log_drain", "log_prompt_assembling", "log_awake",
           "log_awake_again", "log_tool_dispatching", "log_tool_executing",
           "log_tool_result_processing", "log_mid_wake_event_polling",
           "log_wake_ending", "log_maintenance"}

Owns(t) == pc[t] \in OwnerPcs

TypeOK ==
    /\ RowTypeOK
    /\ pc \in [Tasks -> OwnerPcs \cup FreePcs]
    /\ my_wake \in [Tasks -> Nat]
    /\ prior \in [Tasks -> AgentStatus]
    /\ calls \in [Tasks -> Nat]
    /\ drained \in [Tasks -> BOOLEAN]
    /\ logged \in [from : AgentStatus, to : AgentStatus, wake : Nat]
    /\ last_msg \in Nat
    /\ unread \in SUBSET EventKinds
    /\ sent \in 0 .. MaxSends
    /\ admitted \in BOOLEAN
    /\ to_notify \in Nat
    /\ notifications \in Nat
    /\ listening \in BOOLEAN
    /\ found \in BOOLEAN

Init ==
    /\ RowInit
    /\ pc = [t \in Tasks |-> "idle"]
    /\ my_wake = [t \in Tasks |-> NoWake]
    /\ prior = [t \in Tasks |-> "asleep"]
    /\ calls = [t \in Tasks |-> 0]
    /\ drained = [t \in Tasks |-> FALSE]
    /\ logged = [from |-> "asleep", to |-> "asleep", wake |-> NoWake]
    /\ last_msg = 0
    /\ unread = {}
    /\ sent = 0
    /\ admitted = FALSE
    /\ to_notify = 0
    /\ notifications = 0
    /\ listening = FALSE
    /\ found = FALSE

-----------------------------------------------------------------------------
(* Shapes that several steps share.                                        *)

Go(t, next) == pc' = [pc EXCEPT ![t] = next]

\* The task returns, and its local variables are gone.
Return(t) ==
    /\ Go(t, "idle")
    /\ my_wake' = [my_wake EXCEPT ![t] = NoWake]
    /\ prior' = [prior EXCEPT ![t] = "asleep"]
    /\ calls' = [calls EXCEPT ![t] = 0]
    /\ drained' = [drained EXCEPT ![t] = FALSE]

\* A step of control that reads the row and writes nothing shared.
Local(t, at, next) ==
    /\ pc[t] = at
    /\ Go(t, next)
    /\ UNCHANGED <<row, locals, logged, inbox, host>>

LocalReturn(t, at) ==
    /\ pc[t] = at
    /\ Return(t)
    /\ UNCHANGED <<row, logged, inbox, host>>

\* A hop of the wake loop: on None the `?` ends the task with NotFound.
Hop(t, at, hop, next) ==
    /\ pc[t] = at
    /\ \/ Move(hop) /\ Go(t, next) /\ UNCHANGED locals
       \/ status \notin hop.from /\ Return(t) /\ UNCHANGED row
    /\ UNCHANGED <<logged, inbox, host>>

\* lifecycle::emit, a statement of its own after the hop.
Emit(t, at, from, to, next) ==
    /\ pc[t] = at
    /\ logged' = [from |-> from, to |-> to, wake |-> my_wake[t]]
    /\ Go(t, next)
    /\ UNCHANGED <<row, locals, inbox, host>>

-----------------------------------------------------------------------------
(* handle_wake up to the acquisition.                                      *)

\* The listener's recv: one notification, one task.
SpawnHandleWake(t) ==
    /\ listening
    /\ notifications > 0
    /\ pc[t] = "idle"
    /\ notifications' = notifications - 1
    /\ Go(t, "check_budget")
    /\ UNCHANGED <<row, locals, logged, inbox, to_notify, listening, found>>

\* The budget is read from a row of its own, before the acquisition.
CheckBudget(t) ==
    \/ over_budget /\ LocalReturn(t, "check_budget")
    \/ ~over_budget /\ Local(t, "check_budget", "attempt_wake_acquire")

TakeWake(t, next) ==
    /\ my_wake' = [my_wake EXCEPT ![t] = wake_id']
    /\ calls' = [calls EXCEPT ![t] = 0]
    /\ Go(t, next)
    /\ UNCHANGED <<prior, logged, inbox, host>>

AttemptWakeAcquire(t) ==
    /\ pc[t] = "attempt_wake_acquire"
    /\ attempt_wake_acquire
    /\ drained' = [drained EXCEPT ![t] = FALSE]
    /\ TakeWake(t, "log_wake_acquiring")

AcquireRefused(t) ==
    /\ ~(status = "asleep" /\ is_enabled)
    /\ LocalReturn(t, "attempt_wake_acquire")

-----------------------------------------------------------------------------
(* run_wake_loop.                                                          *)

WakeAcquireSucceeds(t) ==
    Hop(t, "wake_acquire_succeeds", wake_acquire_succeeds, "log_prompt_assembling")

PromptAssemblyCompletes(t) ==
    Hop(t, "prompt_assembly_completes", prompt_assembly_completes, "log_awake")

IterationCapReached == count >= IterationCap

CheckIterationCap(t) ==
    \/ IterationCapReached /\ Local(t, "iterate", "read_prior")
    \/ ~IterationCapReached /\ Local(t, "iterate", "assemble_prompt")

\* The prompt carries the recent message_received events, so whatever of those has
\* committed is read; `_ => {} // Skip other event types` takes the webhooks.
AssemblePrompt(t) ==
    /\ pc[t] = "assemble_prompt"
    /\ unread' = unread \ {"message_received"}
    /\ Go(t, "chat")
    /\ UNCHANGED <<row, locals, logged, last_msg, sent, admitted, host>>

\* llm.chat and what its response leads to: an end of the wake, another round
\* (a schema-invalid call, or text without finish_reason "stop"), or tool calls.
Chat(t) ==
    /\ pc[t] = "chat"
    /\ SpendBudget
    /\ \E next \in {"read_prior", "iterate", "enter_tool_dispatching"} : Go(t, next)
    /\ UNCHANGED <<locals, logged, inbox, host>>

\* Mutant: the hop without its lifecycle event.
EnterToolDispatchingSilently(t) ==
    Hop(t, "enter_tool_dispatching", enter_tool_dispatching, "rate_limit")

EnterToolDispatching(t) ==
    Hop(t, "enter_tool_dispatching", enter_tool_dispatching, "log_tool_dispatching")

RateLimitExceeded(t) ==
    /\ calls[t] >= RateLimit
    /\ Local(t, "rate_limit", "read_prior")

EnterToolExecuting(t) ==
    /\ calls[t] < RateLimit
    /\ Hop(t, "rate_limit", enter_tool_executing, "log_tool_executing")

\* dispatch_tool runs the tool, then the hop.
EnterToolResultProcessing(t) ==
    Hop(t, "dispatch_tool", enter_tool_result_processing, "log_tool_result_processing")

ToolReturns(t) == Local(t, "tool_result", "increment_iteration")

\* ToolResult::Sleep ends the wake with a hard-coded `from`.
ToolSleeps(t) ==
    /\ pc[t] = "tool_result"
    /\ prior' = [prior EXCEPT ![t] = "tool_result_processing"]
    /\ Go(t, "enter_wake_ending")
    /\ UNCHANGED <<row, my_wake, calls, drained, logged, inbox, host>>

IncrementIteration(t) ==
    /\ pc[t] = "increment_iteration"
    /\ increment_iteration
    /\ calls' = [calls EXCEPT ![t] = @ + 1]
    /\ Go(t, "enter_mid_wake_event_polling")
    /\ UNCHANGED <<my_wake, prior, drained, logged, inbox, host>>

EnterMidWakeEventPolling(t) ==
    Hop(t, "enter_mid_wake_event_polling", enter_mid_wake_event_polling,
        "log_mid_wake_event_polling")

MidWakePollFindsNothing(t) ==
    Hop(t, "mid_wake_poll_finds_nothing", mid_wake_poll_finds_nothing, "log_awake_again")

\* Mutant: the terminal event's `from` hard-coded, as ToolResult::Sleep has it.
AssumePriorAwake(t) ==
    /\ pc[t] = "read_prior"
    /\ prior' = [prior EXCEPT ![t] = "awake"]
    /\ Go(t, "enter_wake_ending")
    /\ UNCHANGED <<row, my_wake, calls, drained, logged, inbox, host>>

ReadPriorStatus(t) ==
    /\ pc[t] = "read_prior"
    /\ prior' = [prior EXCEPT ![t] = status]
    /\ Go(t, "enter_wake_ending")
    /\ UNCHANGED <<row, my_wake, calls, drained, logged, inbox, host>>

EnterWakeEnding(t) ==
    Hop(t, "enter_wake_ending", enter_wake_ending, "log_wake_ending")

WakeEndTransitionsToMaintenance(t) ==
    Hop(t, "wake_end_transitions_to_maintenance",
        wake_end_transitions_to_maintenance, "log_maintenance")

\* The lifecycle events, each after its hop; after the last tool of a batch the
\* loop goes round, otherwise the next tool call is dispatched.
EmitLifecycle(t) ==
    \/ Emit(t, "log_wake_acquiring", "asleep", "wake_acquiring", "wake_acquire_succeeds")
    \/ Emit(t, "log_drain", "maintenance", "wake_acquiring", "reread_wake")
    \/ Emit(t, "log_prompt_assembling", "wake_acquiring", "prompt_assembling",
            "prompt_assembly_completes")
    \/ Emit(t, "log_awake", "prompt_assembling", "awake", "iterate")
    \/ Emit(t, "log_tool_dispatching", "awake", "tool_dispatching", "rate_limit")
    \/ Emit(t, "log_tool_executing", "tool_dispatching", "tool_executing", "dispatch_tool")
    \/ Emit(t, "log_tool_result_processing", "tool_executing", "tool_result_processing",
            "tool_result")
    \/ Emit(t, "log_mid_wake_event_polling", "tool_result_processing",
            "mid_wake_event_polling", "mid_wake_poll_finds_nothing")
    \/ \E next \in {"iterate", "enter_tool_dispatching"} :
           Emit(t, "log_awake_again", "mid_wake_event_polling", "awake", next)
    \/ Emit(t, "log_wake_ending", prior[t], "wake_ending",
            "wake_end_transitions_to_maintenance")
    \/ Emit(t, "log_maintenance", "wake_ending", "maintenance", "run_maintenance")

-----------------------------------------------------------------------------
(* After the loop: maintenance, drain, release.                            *)

\* The second wake of a task is released without a drain check.
RunMaintenance(t) ==
    /\ pc[t] = "run_maintenance"
    /\ SpendBudget
    /\ Go(t, IF drained[t] THEN "release_to_asleep" ELSE "has_pending_events")
    /\ UNCHANGED <<locals, logged, inbox, host>>

\* Mutant: the high-water mark of the wake after.
PendingAfter(wake) == last_msg > wake

\* created_at > wake_started_at AND event_type = 'message_received'.
PendingSince(wake) == last_msg >= wake

CheckDrain(t) ==
    \/ /\ PendingSince(my_wake[t])
       /\ Local(t, "has_pending_events", "drain_attempt_wake_acquire")
    \/ /\ ~PendingSince(my_wake[t])
       /\ Local(t, "has_pending_events", "release_to_asleep")

DrainAcquire(t) ==
    /\ pc[t] = "drain_attempt_wake_acquire"
    /\ drain_attempt_wake_acquire
    /\ drained' = [drained EXCEPT ![t] = TRUE]
    /\ TakeWake(t, "log_drain")

\* check_drain returns false and handle_wake returns: the row stays as it is.
DrainRefused(t) ==
    /\ ~(status = "maintenance" /\ is_enabled)
    /\ LocalReturn(t, "drain_attempt_wake_acquire")

\* handle_wake reads the id of its second wake back from the row.
RereadWake(t) ==
    /\ pc[t] = "reread_wake"
    /\ \/ /\ wake_id # NoWake
          /\ my_wake' = [my_wake EXCEPT ![t] = wake_id]
          /\ Go(t, "wake_acquire_succeeds")
          /\ UNCHANGED <<prior, calls, drained>>
       \/ wake_id = NoWake /\ Return(t)
    /\ UNCHANGED <<row, logged, inbox, host>>

ReleaseToAsleep(t) ==
    /\ pc[t] = "release_to_asleep"
    /\ \/ release_to_asleep
       \/ status # "maintenance" /\ UNCHANGED row
    /\ Return(t)
    /\ UNCHANGED <<logged, inbox, host>>

TaskStep(t) ==
    \/ CheckBudget(t) \/ AttemptWakeAcquire(t) \/ AcquireRefused(t)
    \/ WakeAcquireSucceeds(t) \/ PromptAssemblyCompletes(t)
    \/ CheckIterationCap(t) \/ AssemblePrompt(t) \/ Chat(t)
    \/ EnterToolDispatching(t) \/ RateLimitExceeded(t) \/ EnterToolExecuting(t)
    \/ EnterToolResultProcessing(t) \/ ToolReturns(t) \/ ToolSleeps(t)
    \/ IncrementIteration(t) \/ EnterMidWakeEventPolling(t)
    \/ MidWakePollFindsNothing(t) \/ ReadPriorStatus(t) \/ EnterWakeEnding(t)
    \/ WakeEndTransitionsToMaintenance(t) \/ EmitLifecycle(t)
    \/ RunMaintenance(t) \/ CheckDrain(t) \/ DrainAcquire(t) \/ DrainRefused(t)
    \/ RereadWake(t) \/ ReleaseToAsleep(t)

-----------------------------------------------------------------------------
(* The API and the operator.                                               *)

\* An insert whose transaction began before the UPDATE that started the wake and
\* that commits before the first event of that wake keeps its older created_at;
\* from that event on, the chain trigger moves it past the events it follows.
MessageStamps ==
    {minted} \cup
        {minted - 1 : t \in {u \in Tasks : pc[u] \in {"log_wake_acquiring", "log_drain"}}}

NewerOf(a, b) == IF a < b THEN b ELSE a

\* send_message: the event, then (Notify) the pg_notify.
SendMessage ==
    /\ "message_received" \in Arrivals
    /\ sent < MaxSends
    /\ sent' = sent + 1
    /\ \E stamp \in MessageStamps : last_msg' = NewerOf(last_msg, stamp)
    /\ unread' = unread \cup {"message_received"}
    /\ to_notify' = to_notify + 1
    /\ UNCHANGED <<row, pc, locals, logged, admitted, notifications, listening, found>>

\* receive_webhook reads the agent, answers 403 to a disabled one, and appends the
\* event on the strength of what it read.
AdmitWebhook ==
    /\ "webhook_received" \in Arrivals
    /\ sent < MaxSends
    /\ is_enabled
    /\ ~admitted
    /\ admitted' = TRUE
    /\ sent' = sent + 1
    /\ UNCHANGED <<row, pc, locals, logged, last_msg, unread, host>>

ReceiveWebhook ==
    /\ admitted
    /\ admitted' = FALSE
    /\ unread' = unread \cup {"webhook_received"}
    /\ to_notify' = to_notify + 1
    /\ UNCHANGED <<row, pc, locals, logged, last_msg, sent, notifications, listening, found>>

\* A notification nobody listens for is gone.
Notify ==
    /\ to_notify > 0
    /\ to_notify' = to_notify - 1
    /\ notifications' = notifications + (IF listening THEN 1 ELSE 0)
    /\ UNCHANGED <<row, pc, locals, logged, inbox, listening, found>>

UpdateAgent ==
    /\ update_agent
    /\ UNCHANGED <<pc, locals, logged, inbox, host>>

SoftDeleteAgent ==
    /\ soft_delete_agent
    /\ UNCHANGED <<pc, locals, logged, inbox, host>>

-----------------------------------------------------------------------------
(* The listener's connection, the stale-wake sweep, time and faults.       *)

StartListener ==
    /\ ~listening
    /\ listening' = TRUE
    /\ UNCHANGED <<row, pc, locals, logged, inbox, to_notify, notifications, found>>

\* Time passes; without SlowWakes a running task is always faster.
WakeAges ==
    /\ SlowWakes \/ ~\E t \in Tasks : Owns(t)
    /\ Age
    /\ UNCHANGED <<pc, locals, logged, inbox, host>>

SweepSelects ==
    /\ ~found
    /\ find_stale_agents
    /\ found' = TRUE
    /\ UNCHANGED <<row, pc, locals, logged, inbox, to_notify, notifications, listening>>

\* The UPDATE repeats neither the age test nor the wake_id of the SELECT.
SweepReleases ==
    /\ found
    /\ found' = FALSE
    /\ \/ force_release
       \/ status \notin LiveStatuses /\ UNCHANGED row
    /\ UNCHANGED <<pc, locals, logged, inbox, to_notify, notifications, listening>>

\* A failed statement, or a failed LLM call in maintenance: the `?` ends the task.
TaskFails(t) ==
    /\ "task" \in Faults
    /\ pc[t] # "idle"
    /\ Return(t)
    /\ UNCHANGED <<row, logged, inbox, host>>

\* A request that fails between its append and its pg_notify.
NotifyFails ==
    /\ "task" \in Faults
    /\ to_notify > 0
    /\ to_notify' = to_notify - 1
    /\ UNCHANGED <<row, pc, locals, logged, inbox, notifications, listening, found>>

ListenerDrops ==
    /\ "listener" \in Faults
    /\ listening
    /\ listening' = FALSE
    /\ notifications' = 0
    /\ UNCHANGED <<row, pc, locals, logged, inbox, to_notify, found>>

\* The process dies and starts again: only the database is left.
Crash ==
    /\ "crash" \in Faults
    /\ pc' = [t \in Tasks |-> "idle"]
    /\ my_wake' = [t \in Tasks |-> NoWake]
    /\ prior' = [t \in Tasks |-> "asleep"]
    /\ calls' = [t \in Tasks |-> 0]
    /\ drained' = [t \in Tasks |-> FALSE]
    /\ to_notify' = 0
    /\ notifications' = 0
    /\ listening' = FALSE
    /\ found' = FALSE
    /\ admitted' = FALSE
    /\ UNCHANGED <<row, logged, last_msg, unread, sent>>

Next ==
    \/ \E t \in Tasks : SpawnHandleWake(t) \/ TaskStep(t) \/ TaskFails(t)
    \/ SendMessage \/ AdmitWebhook \/ ReceiveWebhook \/ Notify \/ NotifyFails
    \/ UpdateAgent \/ SoftDeleteAgent
    \/ StartListener \/ ListenerDrops \/ WakeAges \/ SweepSelects \/ SweepReleases
    \/ Crash

Spec == Init /\ [][Next]_vars

\* The runtime schedules every task, the listener and the sweep; a request that
\* has appended its event goes on to notify; and time passes.
Fairness ==
    /\ \A t \in Tasks : WF_vars(SpawnHandleWake(t)) /\ WF_vars(TaskStep(t))
    /\ WF_vars(Notify) /\ WF_vars(StartListener)
    /\ WF_vars(WakeAges) /\ WF_vars(SweepSelects) /\ WF_vars(SweepReleases)

FairSpec == Spec /\ Fairness
=============================================================================
