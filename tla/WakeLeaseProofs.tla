--------------------------- MODULE WakeLeaseProofs ---------------------------
(***************************************************************************)
(* What follows from exclusiveness: the event log and the iteration count  *)
(* agree with the row, and the wake machinery implements the lease.        *)
(***************************************************************************)
EXTENDS WakeProofs

\* What a task inside a wake records of it.
RecordsAgree == LogFollowsRow /\ CountIsThisWakes /\ PriorStatusIsCurrent

\* A step of the only owner: what matters is where that owner arrives.
LEMMA OwnerRecords ==
  ASSUME ExclusiveTypeInv, NEW t \in Tasks, \A u \in Tasks : Owns(u) => u = t,
         NEW next \in OwnerPcs, Go(t, next), count' = calls'[t],
         next \notin LogPcs => logged'.to = status' /\ logged'.wake = wake_id',
         next = "enter_wake_ending" => prior'[t] = status'
  PROVE  RecordsAgree'
<1>1. pc'[t] = next /\ \A u \in Tasks : u # t => pc'[u] = pc[u]
  BY DEF Go, ExclusiveTypeInv, TypeOK
<1>2. \A u \in Tasks : Owns(u)' => u = t BY <1>1 DEF Owns
<1>3. \A u \in Tasks : pc'[u] = "enter_wake_ending" => u = t
  BY <1>2 DEF Owns, OwnerPcs, TerminalPcs
<1>4. LogFollowsRow' BY <1>1, <1>2 DEF LogFollowsRow
<1>5. CountIsThisWakes' BY <1>2 DEF CountIsThisWakes
<1>6. PriorStatusIsCurrent' BY <1>1, <1>3 DEF PriorStatusIsCurrent
<1> QED BY <1>4, <1>5, <1>6 DEF RecordsAgree

\* An owner that goes on and leaves the row and its records alone.
LEMMA OwnerKeepsRecords ==
  ASSUME ExclusiveTypeInv, RecordsAgree, NEW t \in Tasks, Owns(t), pc[t] \notin LogPcs,
         NEW next \in OwnerPcs, next # "enter_wake_ending", Go(t, next),
         UNCHANGED <<status, wake_id, count, calls, logged>>
  PROVE  RecordsAgree'
<1>1. \A u \in Tasks : Owns(u) => u = t
  BY DEF ExclusiveTypeInv, ExclusiveInv, OneWakeAtATime
<1>2. count = calls[t] /\ logged.to = status /\ logged.wake = wake_id
  BY DEF RecordsAgree, CountIsThisWakes, LogFollowsRow
<1> QED BY <1>1, <1>2, OwnerRecords

\* Nobody enters a wake, and whoever stays in one keeps its records.
LEMMA RecordsKept ==
  ASSUME RecordsAgree, UNCHANGED <<status, wake_id, count, logged>>,
         \A u \in Tasks : Owns(u)' => /\ Owns(u) /\ pc'[u] = pc[u]
                                      /\ calls'[u] = calls[u] /\ prior'[u] = prior[u]
  PROVE  RecordsAgree'
<1>1. \A u \in Tasks : pc'[u] = "enter_wake_ending" => Owns(u)'
  BY DEF Owns, OwnerPcs, TerminalPcs
<1>2. LogFollowsRow' BY DEF RecordsAgree, LogFollowsRow
<1>3. CountIsThisWakes' BY DEF RecordsAgree, CountIsThisWakes
<1>4. PriorStatusIsCurrent' BY <1>1 DEF RecordsAgree, PriorStatusIsCurrent
<1> QED BY <1>2, <1>3, <1>4 DEF RecordsAgree

\* With nobody in a wake there is nothing to agree with.
LEMMA NoOwnerRecords ==
  ASSUME \A u \in Tasks : ~Owns(u)'
  PROVE  RecordsAgree'
<1>1. \A u \in Tasks : pc'[u] # "enter_wake_ending" BY DEF Owns, OwnerPcs, TerminalPcs
<1> QED BY <1>1 DEF RecordsAgree, LogFollowsRow, CountIsThisWakes, PriorStatusIsCurrent

\* A returning task is inside no wake, and the others stay where they are.
LEMMA ReturnLeaves ==
  ASSUME ExclusiveTypeInv, NEW t \in Tasks, Return(t)
  PROVE  \A u \in Tasks : Owns(u)' => /\ u # t /\ Owns(u) /\ pc'[u] = pc[u]
                                      /\ calls'[u] = calls[u] /\ prior'[u] = prior[u]
<1>1. ~Owns(t)' BY FreeIsNotOwner DEF Return, Go, Owns, ExclusiveTypeInv, TypeOK, FreePcs
<1>2. \A u \in Tasks : u # t =>
        pc'[u] = pc[u] /\ calls'[u] = calls[u] /\ prior'[u] = prior[u]
  BY DEF Return, Go, ExclusiveTypeInv, TypeOK
<1> QED BY <1>1, <1>2 DEF Owns

LEMMA ReturnRecords ==
  ASSUME ExclusiveTypeInv, RecordsAgree, NEW t \in Tasks, Return(t), UNCHANGED <<row, logged>>
  PROVE  RecordsAgree'
BY ReturnLeaves, RecordsKept DEF row

\* After a hop the task is about to append its event, or has left the wake.
LEMMA HopRecords ==
  ASSUME ExclusiveTypeInv, RecordsAgree, NEW t \in Tasks, NEW at \in OwnerPcs, NEW hop,
         NEW next \in OwnerPcs \cap LogPcs, Hop(t, at, hop, next)
  PROVE  RecordsAgree'
<1>1. CASE Move(hop) /\ Go(t, next) /\ UNCHANGED locals
  <2>1. \A u \in Tasks : Owns(u) => u = t
    BY DEF Hop, Owns, ExclusiveTypeInv, ExclusiveInv, OneWakeAtATime
  <2>2. count' = calls'[t]
    BY <1>1 DEF Hop, Owns, Move, locals, RecordsAgree, CountIsThisWakes
  <2>3. next # "enter_wake_ending" BY DEF LogPcs
  <2> QED BY <1>1, <2>1, <2>2, <2>3, OwnerRecords
<1>2. CASE Return(t) /\ UNCHANGED row
  BY <1>2, ReturnRecords DEF Hop
<1> QED BY <1>1, <1>2 DEF Hop

\* The event of the last hop brings the log up to the row.
LEMMA EmitRecords ==
  ASSUME ExclusiveTypeInv, RecordsAgree, NEW t \in Tasks, NEW at \in OwnerPcs,
         NEW from, NEW to, status = to,
         NEW next \in OwnerPcs, next # "enter_wake_ending", Emit(t, at, from, to, next)
  PROVE  RecordsAgree'
<1>1. Owns(t) BY DEF Emit, Owns
<1>2. (\A u \in Tasks : Owns(u) => u = t) /\ wake_id = my_wake[t]
  BY <1>1 DEF ExclusiveTypeInv, ExclusiveInv, OneWakeAtATime, RowIsWhereTaskThinks
<1>3. count' = calls'[t]
  BY <1>1 DEF Emit, row, locals, RecordsAgree, CountIsThisWakes
<1>4. logged'.to = status' /\ logged'.wake = wake_id'
  BY <1>2 DEF Emit, row
<1> QED BY <1>2, <1>3, <1>4, OwnerRecords DEF Emit

\* The eleven events of a wake.
LEMMA EmitLifecycleRecords ==
  ASSUME ExclusiveTypeInv, RecordsAgree, NEW t \in Tasks, EmitLifecycle(t)
  PROVE  RecordsAgree'
<1> USE DEF OwnerPcs, AcquiringPcs, AssemblingPcs, AwakePcs, DispatchPcs, ExecutePcs,
            ResultPcs, PollPcs, TerminalPcs, EndingPcs, MaintainPcs
<1>1. ASSUME NEW at \in LogPcs, NEW from, NEW to, NEW next \in OwnerPcs,
             next # "enter_wake_ending", Emit(t, at, from, to, next),
             \A s : Believes(at, s) => s = to
      PROVE  RecordsAgree'
  <2>1. at \in OwnerPcs BY <1>1 DEF LogPcs
  <2>2. status = to
    BY <1>1, <2>1 DEF Emit, Owns, ExclusiveTypeInv, ExclusiveInv, RowIsWhereTaskThinks
  <2> QED BY <1>1, <2>1, <2>2, EmitRecords
<1>2. CASE Emit(t, "log_wake_acquiring", "asleep", "wake_acquiring", "wake_acquire_succeeds")
  BY <1>1, <1>2 DEF Believes, LogPcs
<1>3. CASE Emit(t, "log_drain", "maintenance", "wake_acquiring", "reread_wake")
  BY <1>1, <1>3 DEF Believes, LogPcs
<1>4. CASE Emit(t, "log_prompt_assembling", "wake_acquiring", "prompt_assembling",
                "prompt_assembly_completes")
  BY <1>1, <1>4 DEF Believes, LogPcs
<1>5. CASE Emit(t, "log_awake", "prompt_assembling", "awake", "iterate")
  BY <1>1, <1>5 DEF Believes, LogPcs
<1>6. CASE Emit(t, "log_tool_dispatching", "awake", "tool_dispatching", "rate_limit")
  BY <1>1, <1>6 DEF Believes, LogPcs
<1>7. CASE Emit(t, "log_tool_executing", "tool_dispatching", "tool_executing",
                "dispatch_tool")
  BY <1>1, <1>7 DEF Believes, LogPcs
<1>8. CASE Emit(t, "log_tool_result_processing", "tool_executing",
                "tool_result_processing", "tool_result")
  BY <1>1, <1>8 DEF Believes, LogPcs
<1>9. CASE Emit(t, "log_mid_wake_event_polling", "tool_result_processing",
                "mid_wake_event_polling", "mid_wake_poll_finds_nothing")
  BY <1>1, <1>9 DEF Believes, LogPcs
<1>10. ASSUME NEW next \in {"iterate", "enter_tool_dispatching"},
              Emit(t, "log_awake_again", "mid_wake_event_polling", "awake", next)
       PROVE  RecordsAgree'
  BY <1>1, <1>10 DEF Believes, LogPcs
<1>11. CASE Emit(t, "log_wake_ending", prior[t], "wake_ending",
                 "wake_end_transitions_to_maintenance")
  BY <1>1, <1>11 DEF Believes, LogPcs
<1>12. CASE Emit(t, "log_maintenance", "wake_ending", "maintenance", "run_maintenance")
  BY <1>1, <1>12 DEF Believes, LogPcs
<1> QED
  BY <1>2, <1>3, <1>4, <1>5, <1>6, <1>7, <1>8, <1>9, <1>10, <1>11, <1>12 DEF EmitLifecycle

\* Every step of a task keeps the records in agreement.
LEMMA TaskRecords ==
  ASSUME ExclusiveTypeInv, RecordsAgree, NEW t \in Tasks, TaskStep(t)
  PROVE  RecordsAgree'
<1> USE DEF OwnerPcs, AcquiringPcs, AssemblingPcs, AwakePcs, DispatchPcs, ExecutePcs,
            ResultPcs, PollPcs, TerminalPcs, EndingPcs, MaintainPcs
<1>1. \A u \in Tasks : Owns(t) /\ Owns(u) => u = t
  BY DEF ExclusiveTypeInv, ExclusiveInv, OneWakeAtATime
<1>2. Owns(t) => count = calls[t] BY DEF RecordsAgree, CountIsThisWakes
<1>3. CASE CheckBudget(t)
  <2>1. CASE LocalReturn(t, "check_budget")
    BY <2>1, ReturnRecords DEF LocalReturn
  <2>2. CASE Local(t, "check_budget", "attempt_wake_acquire")
    <3>1. \A u \in Tasks : Owns(u)' => Owns(u) /\ pc'[u] = pc[u]
      BY <2>2, FreeIsNotOwner DEF Local, Go, Owns, FreePcs, ExclusiveTypeInv, TypeOK
    <3> QED BY <2>2, <3>1, RecordsKept DEF Local, row, locals
  <2> QED BY <1>3, <2>1, <2>2 DEF CheckBudget
<1>4. CASE AttemptWakeAcquire(t)
  <2>1. \A u \in Tasks : ~Owns(u)
    BY <1>4, OwnerIsAwake DEF AttemptWakeAcquire, attempt_wake_acquire, StartWakeFrom
  <2>2. count' = calls'[t]
    BY <1>4 DEF AttemptWakeAcquire, attempt_wake_acquire, StartWakeFrom, TakeWake,
                ExclusiveTypeInv, TypeOK
  <2> QED BY <1>4, <2>1, <2>2, OwnerRecords DEF AttemptWakeAcquire, TakeWake, LogPcs
<1>5. CASE AcquireRefused(t) \/ DrainRefused(t)
  BY <1>5, ReturnRecords DEF AcquireRefused, DrainRefused, LocalReturn
<1>6. CASE WakeAcquireSucceeds(t) \/ PromptAssemblyCompletes(t) \/ EnterToolDispatching(t)
           \/ EnterToolExecuting(t) \/ EnterToolResultProcessing(t)
           \/ EnterMidWakeEventPolling(t) \/ MidWakePollFindsNothing(t)
           \/ EnterWakeEnding(t) \/ WakeEndTransitionsToMaintenance(t)
  BY <1>6, HopRecords
  DEF WakeAcquireSucceeds, PromptAssemblyCompletes, EnterToolDispatching, EnterToolExecuting,
      EnterToolResultProcessing, EnterMidWakeEventPolling, MidWakePollFindsNothing,
      EnterWakeEnding, WakeEndTransitionsToMaintenance, LogPcs
<1>7. CASE CheckIterationCap(t) \/ RateLimitExceeded(t) \/ ToolReturns(t) \/ CheckDrain(t)
  BY <1>7, OwnerKeepsRecords
  DEF CheckIterationCap, RateLimitExceeded, ToolReturns, CheckDrain, Local, Owns, LogPcs,
      row, locals
<1>8. CASE AssemblePrompt(t)
  BY <1>8, OwnerKeepsRecords DEF AssemblePrompt, Owns, LogPcs, row, locals
<1>9. CASE Chat(t) \/ RunMaintenance(t)
  BY <1>9, OwnerKeepsRecords DEF Chat, RunMaintenance, SpendBudget, Owns, LogPcs, locals
<1>10. CASE ToolSleeps(t) \/ ReadPriorStatus(t)
  <2>1. Owns(t) /\ pc[t] \notin LogPcs
    BY <1>10 DEF ToolSleeps, ReadPriorStatus, Owns, LogPcs
  <2>2. logged.to = status /\ logged.wake = wake_id
    BY <2>1 DEF RecordsAgree, LogFollowsRow
  <2>3. prior'[t] = status
    <3>1. CASE ReadPriorStatus(t) BY <3>1 DEF ReadPriorStatus, ExclusiveTypeInv, TypeOK
    <3>2. CASE ToolSleeps(t)
      <4>1. status = "tool_result_processing"
        BY <3>2, <2>1 DEF ToolSleeps, ExclusiveTypeInv, ExclusiveInv, RowIsWhereTaskThinks, Believes
      <4> QED BY <3>2, <4>1 DEF ToolSleeps, ExclusiveTypeInv, TypeOK
    <3> QED BY <1>10, <3>1, <3>2
  <2> QED BY <1>1, <1>2, <1>10, <2>1, <2>2, <2>3, OwnerRecords DEF ToolSleeps, ReadPriorStatus, row
<1>11. CASE IncrementIteration(t)
  <2>1. Owns(t) /\ pc[t] \notin LogPcs BY <1>11 DEF IncrementIteration, Owns, LogPcs
  <2>2. logged.to = status /\ logged.wake = wake_id
    BY <2>1 DEF RecordsAgree, LogFollowsRow
  <2>3. count' = calls'[t]
    BY <1>2, <1>11, <2>1 DEF IncrementIteration, increment_iteration, ExclusiveTypeInv, TypeOK
  <2> QED
    BY <1>1, <1>11, <2>1, <2>2, <2>3, OwnerRecords DEF IncrementIteration, increment_iteration
<1>12. CASE EmitLifecycle(t)
  BY <1>12, EmitLifecycleRecords
<1>13. CASE DrainAcquire(t)
  <2>1. Owns(t) BY <1>13 DEF DrainAcquire, Owns
  <2>2. count' = calls'[t]
    BY <1>13 DEF DrainAcquire, drain_attempt_wake_acquire, StartWakeFrom, TakeWake,
                 ExclusiveTypeInv, TypeOK
  <2> QED BY <1>1, <1>13, <2>1, <2>2, OwnerRecords DEF DrainAcquire, TakeWake, LogPcs
<1>14. CASE RereadWake(t)
  <2>1. CASE wake_id = NoWake /\ Return(t)
    BY <1>14, <2>1, ReturnRecords DEF RereadWake
  <2>2. CASE Go(t, "wake_acquire_succeeds") /\ UNCHANGED <<prior, calls, drained>>
    BY <1>14, <2>2, OwnerKeepsRecords DEF RereadWake, Owns, LogPcs, row
  <2> QED BY <1>14, <2>1, <2>2 DEF RereadWake
<1>15. CASE ReleaseToAsleep(t)
  <2>1. \A u \in Tasks : ~Owns(u)'
    BY <1>1, <1>15, ReturnLeaves DEF ReleaseToAsleep, Owns
  <2> QED BY <2>1, NoOwnerRecords
<1> QED
  BY <1>3, <1>4, <1>5, <1>6, <1>7, <1>8, <1>9, <1>10, <1>11, <1>12, <1>13, <1>14, <1>15
  DEF TaskStep

\* So does every step of the others.
LEMMA NextRecords ==
  ASSUME ExclusiveTypeInv, RecordsAgree, Next
  PROVE  RecordsAgree'
<1>1. ASSUME NEW t \in Tasks, SpawnHandleWake(t) PROVE RecordsAgree'
  <2>1. \A u \in Tasks : Owns(u)' => Owns(u) /\ pc'[u] = pc[u]
    BY <1>1, FreeIsNotOwner DEF SpawnHandleWake, Go, Owns, FreePcs, ExclusiveTypeInv, TypeOK
  <2> QED BY <1>1, <2>1, RecordsKept DEF SpawnHandleWake, row, locals
<1>2. ASSUME NEW t \in Tasks, TaskStep(t) PROVE RecordsAgree'
  BY <1>2, TaskRecords
<1>3. ASSUME NEW t \in Tasks, TaskFails(t) PROVE RecordsAgree'
  BY <1>3, ReturnRecords DEF TaskFails
<1>4. CASE SendMessage \/ AdmitWebhook \/ ReceiveWebhook \/ Notify \/ NotifyFails
           \/ StartListener \/ ListenerDrops \/ SweepSelects
  BY <1>4, RecordsKept
  DEF SendMessage, AdmitWebhook, ReceiveWebhook, Notify, NotifyFails, StartListener, ListenerDrops,
      SweepSelects, row, locals, Owns
<1>5. CASE UpdateAgent \/ SoftDeleteAgent \/ WakeAges
  BY <1>5, RecordsKept
  DEF UpdateAgent, update_agent, SoftDeleteAgent, soft_delete_agent, WakeAges, Age,
      locals, Owns
<1>6. CASE SweepReleases
  BY <1>6, NoOwnerRecords
  DEF SweepReleases, Owns, ExclusiveTypeInv, ExclusiveInv, SweepTakesAbandoned
<1>7. CASE Crash
  BY <1>7, FreeIsNotOwner, NoOwnerRecords DEF Crash, Owns, FreePcs
<1> QED BY <1>1, <1>2, <1>3, <1>4, <1>5, <1>6, <1>7 DEF Next

\* The records agree in every reachable state.
LEMMA RecordsHold ==
  ASSUME SlowWakes = FALSE
  PROVE  Spec => []RecordsAgree
<1>1. Init => RecordsAgree
  BY FreeIsNotOwner DEF Init, FreePcs, Owns, OwnerPcs, TerminalPcs, RecordsAgree,
     LogFollowsRow, CountIsThisWakes, PriorStatusIsCurrent
<1>2. ExclusiveTypeInv /\ RecordsAgree /\ [Next]_vars => RecordsAgree'
  <2>1. ASSUME RecordsAgree, UNCHANGED vars PROVE RecordsAgree'
    BY <2>1, RecordsKept DEF vars, row, locals, Owns
  <2> QED BY <2>1, NextRecords
<1> QED BY <1>1, <1>2, ExclusiveHolds, PTL DEF Spec

\* AC-82: between its hops, the newest lifecycle event of a wake is the row's status.
THEOREM LogAgrees ==
  ASSUME SlowWakes = FALSE
  PROVE  Spec => []LogFollowsRow
<1>1. RecordsAgree => LogFollowsRow BY DEF RecordsAgree
<1> QED BY <1>1, RecordsHold, PTL

\* AC-4: the count that the iteration cap looks at is this wake's tool calls.
THEOREM CountAgrees ==
  ASSUME SlowWakes = FALSE
  PROVE  Spec => []CountIsThisWakes
<1>1. RecordsAgree => CountIsThisWakes BY DEF RecordsAgree
<1> QED BY <1>1, RecordsHold, PTL

\* "There is no racing writer": the terminal event's `from` is the status the hop left.
THEOREM PriorAgrees ==
  ASSUME SlowWakes = FALSE
  PROVE  Spec => []PriorStatusIsCurrent
<1>1. RecordsAgree => PriorStatusIsCurrent BY DEF RecordsAgree
<1> QED BY <1>1, RecordsHold, PTL

(***************************************************************************)
(* The high-water mark: what no prompt of the wake has shown is newer than *)
(* the wake.                                                               *)
(***************************************************************************)

\* Where no prompt of the wake has been assembled yet, and where one has.
BeforePromptPcs == AcquiringPcs \cup AssemblingPcs \cup {"log_awake"}
AfterPromptPcs  == OwnerPcs \ (BeforePromptPcs \cup {"iterate", "assemble_prompt"})

\* Back at the head of the loop, a tool call tells that a prompt has been assembled.
HasPrompted(p, n) == p \in AfterPromptPcs \/ (p = "iterate" /\ n > 0)

\* A task is inside the newest wake, and a message that its prompts have left unread
\* was stamped in it: the stamps of an older wake end with the first event of this one.
MarkIsSound ==
    \A t \in Tasks : Owns(t) =>
        /\ my_wake[t] = minted
        /\ pc[t] \in BeforePromptPcs => count = 0
        /\ HasPrompted(pc[t], count) /\ "message_received" \in unread => last_msg >= minted

\* A step of the only owner: what matters is where that owner arrives.
LEMMA OwnerMark ==
  ASSUME ExclusiveTypeInv, NEW t \in Tasks, \A u \in Tasks : Owns(u) => u = t,
         NEW next \in OwnerPcs, Go(t, next), my_wake'[t] = minted',
         next \in BeforePromptPcs => count' = 0,
         HasPrompted(next, count') /\ "message_received" \in unread' => last_msg' >= minted'
  PROVE  MarkIsSound'
<1>1. pc'[t] = next /\ \A u \in Tasks : u # t => pc'[u] = pc[u]
  BY DEF Go, ExclusiveTypeInv, TypeOK
<1>2. \A u \in Tasks : Owns(u)' => u = t BY <1>1 DEF Owns
<1> QED BY <1>1, <1>2 DEF MarkIsSound, HasPrompted

\* An owner that goes on and writes neither the wake nor the inbox.
LEMMA OwnerKeepsMark ==
  ASSUME ExclusiveTypeInv, MarkIsSound, NEW t \in Tasks, Owns(t),
         NEW next \in OwnerPcs, Go(t, next),
         UNCHANGED <<my_wake, minted, count, last_msg, unread>>,
         next \in BeforePromptPcs => pc[t] \in BeforePromptPcs,
         HasPrompted(next, count) => HasPrompted(pc[t], count)
  PROVE  MarkIsSound'
<1>1. \A u \in Tasks : Owns(u) => u = t
  BY DEF ExclusiveTypeInv, ExclusiveInv, OneWakeAtATime
<1>2. /\ my_wake[t] = minted
      /\ pc[t] \in BeforePromptPcs => count = 0
      /\ HasPrompted(pc[t], count) /\ "message_received" \in unread => last_msg >= minted
  BY DEF MarkIsSound
<1> QED BY <1>1, <1>2, OwnerMark

\* Nobody enters a wake, and whoever stays in one stays where it is.
LEMMA MarkKept ==
  ASSUME MarkIsSound, UNCHANGED <<minted, count, last_msg, unread>>,
         \A u \in Tasks : Owns(u)' => Owns(u) /\ pc'[u] = pc[u] /\ my_wake'[u] = my_wake[u]
  PROVE  MarkIsSound'
BY DEF MarkIsSound

LEMMA ReturnMark ==
  ASSUME ExclusiveTypeInv, MarkIsSound, NEW t \in Tasks, Return(t), UNCHANGED <<row, inbox>>
  PROVE  MarkIsSound'
<1>1. \A u \in Tasks : Owns(u)' => Owns(u) /\ pc'[u] = pc[u] /\ my_wake'[u] = my_wake[u]
  BY ReturnLeaves DEF Return, ExclusiveTypeInv, TypeOK
<1> QED BY <1>1, MarkKept DEF row, inbox

\* A hop that leaves no prompt behind it or comes from where one is.
LEMMA HopMark ==
  ASSUME ExclusiveTypeInv, MarkIsSound, NEW t \in Tasks, NEW at \in OwnerPcs, NEW hop,
         NEW next \in OwnerPcs, Hop(t, at, hop, next),
         next \in BeforePromptPcs => at \in BeforePromptPcs,
         next # "iterate" /\ (next \in AfterPromptPcs => at \in AfterPromptPcs)
  PROVE  MarkIsSound'
<1>1. CASE Move(hop) /\ Go(t, next) /\ UNCHANGED locals
  BY <1>1, OwnerKeepsMark DEF Hop, Owns, Move, locals, inbox, HasPrompted
<1>2. CASE Return(t) /\ UNCHANGED row
  BY <1>2, ReturnMark DEF Hop
<1> QED BY <1>1, <1>2 DEF Hop

\* A wake that starts has assembled no prompt.
LEMMA StartMark ==
  ASSUME ExclusiveTypeInv, NEW t \in Tasks, NEW prev, StartWakeFrom(prev),
         \A u \in Tasks : Owns(u) => u = t,
         NEW next \in {"log_wake_acquiring", "log_drain"}, TakeWake(t, next)
  PROVE  MarkIsSound'
<1>1. my_wake'[t] = minted' /\ count' = 0
  BY DEF StartWakeFrom, TakeWake, ExclusiveTypeInv, TypeOK
<1>2. next \in OwnerPcs /\ next \in BeforePromptPcs
  BY DEF OwnerPcs, AcquiringPcs, BeforePromptPcs
<1>3. ~HasPrompted(next, count') BY <1>2 DEF HasPrompted, AfterPromptPcs
<1> QED BY <1>1, <1>2, <1>3, OwnerMark DEF TakeWake

LEMMA TaskMark ==
  ASSUME IterationCap > 0, ExclusiveTypeInv, MarkIsSound, NEW t \in Tasks, TaskStep(t)
  PROVE  MarkIsSound'
<1> USE DEF OwnerPcs, AcquiringPcs, AssemblingPcs, AwakePcs, DispatchPcs, ExecutePcs,
            ResultPcs, PollPcs, TerminalPcs, EndingPcs, MaintainPcs,
            BeforePromptPcs, AfterPromptPcs
<1>1. \A u \in Tasks : Owns(t) /\ Owns(u) => u = t
  BY DEF ExclusiveTypeInv, ExclusiveInv, OneWakeAtATime
<1>2. CASE CheckBudget(t)
  <2>1. CASE LocalReturn(t, "check_budget")
    BY <2>1, ReturnMark DEF LocalReturn
  <2>2. CASE Local(t, "check_budget", "attempt_wake_acquire")
    <3>1. \A u \in Tasks : Owns(u)' => Owns(u) /\ pc'[u] = pc[u]
      BY <2>2, FreeIsNotOwner DEF Local, Go, Owns, FreePcs, ExclusiveTypeInv, TypeOK
    <3> QED BY <2>2, <3>1, MarkKept DEF Local, row, locals, inbox
  <2> QED BY <1>2, <2>1, <2>2 DEF CheckBudget
<1>3. CASE AttemptWakeAcquire(t)
  <2>1. \A u \in Tasks : ~Owns(u)
    BY <1>3, OwnerIsAwake DEF AttemptWakeAcquire, attempt_wake_acquire, StartWakeFrom
  <2> QED BY <1>3, <2>1, StartMark DEF AttemptWakeAcquire, attempt_wake_acquire
<1>4. CASE AcquireRefused(t) \/ DrainRefused(t)
  BY <1>4, ReturnMark DEF AcquireRefused, DrainRefused, LocalReturn
<1>5. CASE WakeAcquireSucceeds(t) \/ PromptAssemblyCompletes(t)
  BY <1>5, HopMark DEF WakeAcquireSucceeds, PromptAssemblyCompletes
<1>6. CASE EnterToolDispatching(t) \/ EnterToolExecuting(t) \/ EnterToolResultProcessing(t)
           \/ EnterMidWakeEventPolling(t) \/ MidWakePollFindsNothing(t)
           \/ EnterWakeEnding(t) \/ WakeEndTransitionsToMaintenance(t)
  BY <1>6, HopMark
  DEF EnterToolDispatching, EnterToolExecuting, EnterToolResultProcessing,
      EnterMidWakeEventPolling, MidWakePollFindsNothing, EnterWakeEnding,
      WakeEndTransitionsToMaintenance
<1>7. CASE CheckIterationCap(t)
  <2>1. Owns(t) BY <1>7 DEF CheckIterationCap, Local, Owns
  <2>2. CASE IterationCapReached /\ Local(t, "iterate", "read_prior")
    <3>1. count > 0
      BY <2>2, CapsAssumption DEF IterationCapReached, ExclusiveTypeInv, TypeOK, RowTypeOK
    <3> QED BY <2>1, <2>2, <3>1, OwnerKeepsMark DEF Local, HasPrompted, row, locals, inbox
  <2>3. CASE Local(t, "iterate", "assemble_prompt")
    BY <2>1, <2>3, OwnerKeepsMark DEF Local, HasPrompted, row, locals, inbox
  <2> QED BY <1>7, <2>2, <2>3 DEF CheckIterationCap
<1>8. CASE AssemblePrompt(t)
  <2>1. Owns(t) BY <1>8 DEF AssemblePrompt, Owns
  <2>2. my_wake'[t] = minted' /\ "message_received" \notin unread'
    BY <1>8, <2>1 DEF AssemblePrompt, MarkIsSound, locals, row
  <2> QED BY <1>1, <1>8, <2>1, <2>2, OwnerMark DEF AssemblePrompt
<1>9. CASE RateLimitExceeded(t) \/ ToolReturns(t) \/ CheckDrain(t)
  BY <1>9, OwnerKeepsMark
  DEF RateLimitExceeded, ToolReturns, CheckDrain, Local, Owns, HasPrompted, row, locals, inbox
<1>10. CASE Chat(t) \/ RunMaintenance(t)
  BY <1>10, OwnerKeepsMark
  DEF Chat, RunMaintenance, SpendBudget, Owns, HasPrompted, locals, inbox
<1>11. CASE ToolSleeps(t) \/ ReadPriorStatus(t)
  BY <1>11, OwnerKeepsMark DEF ToolSleeps, ReadPriorStatus, Owns, HasPrompted, row, inbox
<1>12. CASE IncrementIteration(t)
  <2>1. Owns(t) /\ HasPrompted(pc[t], count)
    <3>1. pc[t] = "increment_iteration" BY <1>12 DEF IncrementIteration
    <3>2. "increment_iteration" \in AfterPromptPcs OBVIOUS
    <3> QED BY <3>1, <3>2 DEF Owns, HasPrompted
  <2>2. /\ my_wake'[t] = minted'
        /\ "message_received" \in unread' => last_msg' >= minted'
    BY <1>12, <2>1 DEF IncrementIteration, increment_iteration, MarkIsSound, inbox
  <2> QED BY <1>1, <1>12, <2>1, <2>2, OwnerMark DEF IncrementIteration
<1>13. CASE EmitLifecycle(t)
  <2>1. ASSUME NEW at, NEW from, NEW to, NEW next \in OwnerPcs, Emit(t, at, from, to, next),
               at \in OwnerPcs,
               next \in BeforePromptPcs => at \in BeforePromptPcs,
               next \in AfterPromptPcs => at \in AfterPromptPcs,
               next = "iterate" => at \in AfterPromptPcs \cup BeforePromptPcs
        PROVE  MarkIsSound'
    <3>1. Owns(t) /\ pc[t] = at BY <2>1 DEF Emit, Owns
    <3>2. at \in BeforePromptPcs => count = 0 BY <3>1 DEF MarkIsSound
    <3>3. HasPrompted(next, count) => HasPrompted(at, count)
      BY <2>1, <3>2 DEF HasPrompted
    <3> QED BY <2>1, <3>1, <3>3, OwnerKeepsMark DEF Emit, row, locals, inbox
  <2> QED BY <1>13, <2>1 DEF EmitLifecycle
<1>14. CASE DrainAcquire(t)
  <2>1. Owns(t) BY <1>14 DEF DrainAcquire, Owns
  <2> QED BY <1>1, <1>14, <2>1, StartMark DEF DrainAcquire, drain_attempt_wake_acquire
<1>15. CASE RereadWake(t)
  <2>1. CASE wake_id = NoWake /\ Return(t)
    BY <1>15, <2>1, ReturnMark DEF RereadWake
  <2>2. CASE my_wake' = [my_wake EXCEPT ![t] = wake_id] /\ Go(t, "wake_acquire_succeeds")
    <3>1. Owns(t) BY <1>15 DEF RereadWake, Owns
    <3>2. my_wake' = my_wake
      BY <2>2, <3>1 DEF ExclusiveTypeInv, ExclusiveInv, RowIsWhereTaskThinks, TypeOK
    <3> QED BY <1>15, <2>2, <3>1, <3>2, OwnerKeepsMark DEF RereadWake, HasPrompted, row, inbox
  <2> QED BY <1>15, <2>1, <2>2 DEF RereadWake
<1>16. CASE ReleaseToAsleep(t)
  <2>1. Owns(t) BY <1>16 DEF ReleaseToAsleep, Owns
  <2>2. \A u \in Tasks : ~Owns(u)'
    BY <1>1, <1>16, <2>1, ReturnLeaves DEF ReleaseToAsleep
  <2> QED BY <2>2 DEF MarkIsSound
<1> QED
  BY <1>2, <1>3, <1>4, <1>5, <1>6, <1>7, <1>8, <1>9, <1>10, <1>11, <1>12, <1>13, <1>14,
     <1>15, <1>16
  DEF TaskStep

\* A message that arrives once a prompt has been assembled is stamped in this wake.
LEMMA SendMark ==
  ASSUME ExclusiveTypeInv, MarkIsSound, SendMessage
  PROVE  MarkIsSound'
<1>1. SUFFICES ASSUME NEW t \in Tasks, Owns(t)
               PROVE  /\ my_wake[t] = minted
                      /\ pc[t] \in BeforePromptPcs => count = 0
                      /\ HasPrompted(pc[t], count) => last_msg' >= minted
  BY DEF SendMessage, MarkIsSound, Owns, row, locals
<1>2. ASSUME HasPrompted(pc[t], count) PROVE last_msg' >= minted
  <2>1. PICK stamp \in MessageStamps : last_msg' = NewerOf(last_msg, stamp)
    BY DEF SendMessage
  <2>2. pc[t] \notin {"log_wake_acquiring", "log_drain"}
    BY <1>2 DEF HasPrompted, AfterPromptPcs, BeforePromptPcs, AcquiringPcs
  <2>3. \A u \in Tasks : pc[u] \notin {"log_wake_acquiring", "log_drain"}
    BY <1>1, <2>2
    DEF ExclusiveTypeInv, ExclusiveInv, OneWakeAtATime, Owns, OwnerPcs, AcquiringPcs
  <2>4. stamp = minted BY <2>1, <2>3 DEF MessageStamps
  <2> QED BY <2>1, <2>4 DEF NewerOf, ExclusiveTypeInv, TypeOK, RowTypeOK
<1> QED BY <1>1, <1>2 DEF MarkIsSound

LEMMA NextMark ==
  ASSUME IterationCap > 0, ExclusiveTypeInv, MarkIsSound, Next
  PROVE  MarkIsSound'
<1>1. ASSUME NEW t \in Tasks, SpawnHandleWake(t) PROVE MarkIsSound'
  <2>1. \A u \in Tasks : Owns(u)' => Owns(u) /\ pc'[u] = pc[u]
    BY <1>1, FreeIsNotOwner DEF SpawnHandleWake, Go, Owns, FreePcs, ExclusiveTypeInv, TypeOK
  <2> QED BY <1>1, <2>1, MarkKept DEF SpawnHandleWake, row, locals, inbox
<1>2. ASSUME NEW t \in Tasks, TaskStep(t) PROVE MarkIsSound'
  BY <1>2, TaskMark
<1>3. ASSUME NEW t \in Tasks, TaskFails(t) PROVE MarkIsSound'
  BY <1>3, ReturnMark DEF TaskFails
<1>4. CASE SendMessage
  BY <1>4, SendMark
<1>5. CASE ReceiveWebhook
  BY <1>5 DEF ReceiveWebhook, MarkIsSound, Owns, row, locals
<1>6. CASE AdmitWebhook \/ Notify \/ NotifyFails \/ StartListener \/ ListenerDrops
           \/ SweepSelects
  BY <1>6, MarkKept
  DEF AdmitWebhook, Notify, NotifyFails, StartListener, ListenerDrops, SweepSelects,
      row, locals, inbox, Owns
<1>7. CASE UpdateAgent \/ SoftDeleteAgent \/ WakeAges
  BY <1>7, MarkKept
  DEF UpdateAgent, update_agent, SoftDeleteAgent, soft_delete_agent, WakeAges, Age,
      locals, inbox, Owns
<1>8. CASE SweepReleases
  BY <1>8 DEF SweepReleases, Owns, MarkIsSound, ExclusiveTypeInv, ExclusiveInv, SweepTakesAbandoned
<1>9. CASE Crash
  BY <1>9, FreeIsNotOwner DEF Crash, Owns, FreePcs, MarkIsSound
<1> QED BY <1>1, <1>2, <1>3, <1>4, <1>5, <1>6, <1>7, <1>8, <1>9 DEF Next

\* AC-9: a message between the last prompt and the drain check is found by its
\* created_at > wake_started_at, for every number of tasks and messages, whenever the
\* iteration cap lets a wake assemble a prompt at all.
THEOREM UnreadIsPending ==
  ASSUME SlowWakes = FALSE, IterationCap > 0
  PROVE  Spec => []UnreadMessageIsPending
<1>1. Init => MarkIsSound
  BY FreeIsNotOwner DEF Init, FreePcs, Owns, MarkIsSound
<1>2. ExclusiveTypeInv /\ MarkIsSound /\ [Next]_vars => MarkIsSound'
  <2>1. ASSUME MarkIsSound, UNCHANGED vars PROVE MarkIsSound'
    BY <2>1, MarkKept DEF vars, row, locals, inbox, Owns
  <2> QED BY <2>1, NextMark
<1>3. MarkIsSound => UnreadMessageIsPending
  <2>1. "has_pending_events" \in AfterPromptPcs /\ "has_pending_events" \in OwnerPcs
    BY DEF AfterPromptPcs, BeforePromptPcs, OwnerPcs, AcquiringPcs, AssemblingPcs, MaintainPcs
  <2>2. SUFFICES ASSUME MarkIsSound, NEW t \in Tasks, pc[t] = "has_pending_events",
                        "message_received" \in unread
                 PROVE  last_msg >= my_wake[t]
    BY DEF UnreadMessageIsPending, PendingSince
  <2>3. Owns(t) /\ HasPrompted(pc[t], count) BY <2>1, <2>2 DEF Owns, HasPrompted
  <2> QED BY <2>2, <2>3 DEF MarkIsSound
<1> QED BY <1>1, <1>2, <1>3, ExclusiveHolds, PTL DEF Spec

(***************************************************************************)
(* The lease.                                                              *)
(***************************************************************************)

\* The holder of the lease is the owner of the wake, when there is one.
LEMMA HolderOwns ==
  ASSUME OneWakeAtATime
  PROVE  /\ \A t \in Tasks : Owns(t) => Holder = t
         /\ (\A t \in Tasks : ~Owns(t)) => Holder = NoTask
BY DEF OneWakeAtATime, Holder

\* While the owners stay the same, so does the holder.
LEMMA HolderKept ==
  ASSUME \A u \in Tasks : Owns(u)' <=> Owns(u)
  PROVE  Holder' = Holder
BY DEF Holder

\* An owner that stays in its wake keeps the lease as it is.
LEMMA OwnerHolds ==
  ASSUME ExclusiveTypeInv, NEW t \in Tasks, Owns(t), NEW next \in OwnerPcs, Go(t, next)
  PROVE  \A u \in Tasks : Owns(u)' <=> Owns(u)
BY DEF Go, Owns, ExclusiveTypeInv, TypeOK

\* A task that returns before its release vanishes from the lease, if it held it.
LEMMA ReturnVanishes ==
  ASSUME ExclusiveTypeInv, ExclusiveTypeInv', NEW t \in Tasks, Return(t), UNCHANGED row
  PROVE  [Lease!LeaseNext]_(Lease!leaseVars)
<1>1. UNCHANGED <<wake_id, minted>> BY DEF row
<1>2. OneWakeAtATime /\ OneWakeAtATime' BY DEF ExclusiveTypeInv, ExclusiveInv
<1>3. CASE Owns(t)
  <2>1. \A u \in Tasks : ~Owns(u)' BY <1>2, <1>3, ReturnLeaves DEF OneWakeAtATime
  <2>2. Holder = t BY <1>2, <1>3, HolderOwns
  <2>3. Holder' = NoTask BY <2>1 DEF Holder
  <2>4. Lease!Vanish(t) BY <1>1, <2>2, <2>3 DEF Lease!Vanish
  <2> QED BY <2>4 DEF Lease!LeaseNext
<1>4. CASE ~Owns(t)
  <2>1. \A u \in Tasks : Owns(u)' <=> Owns(u)
    BY <1>4, ReturnLeaves DEF Return, Go, Owns, ExclusiveTypeInv, TypeOK
  <2> QED BY <1>1, <2>1, HolderKept DEF Lease!leaseVars
<1> QED BY <1>3, <1>4

\* A hop is no step of the lease, unless it is refused.
LEMMA HopLease ==
  ASSUME ExclusiveTypeInv, ExclusiveTypeInv', NEW t \in Tasks, NEW at \in OwnerPcs, NEW hop,
         NEW next \in OwnerPcs, Hop(t, at, hop, next)
  PROVE  [Lease!LeaseNext]_(Lease!leaseVars)
<1>1. CASE Move(hop) /\ Go(t, next)
  <2>1. Holder' = Holder BY <1>1, OwnerHolds, HolderKept DEF Hop, Owns
  <2> QED BY <1>1, <2>1 DEF Move, Lease!leaseVars
<1>2. CASE Return(t) /\ UNCHANGED row
  BY <1>2, ReturnVanishes
<1> QED BY <1>1, <1>2 DEF Hop

\* A step inside the wake is no step of the lease.
LEMMA StayLease ==
  ASSUME ExclusiveTypeInv, NEW t \in Tasks, Owns(t), NEW next \in OwnerPcs, Go(t, next),
         UNCHANGED <<wake_id, minted>>
  PROVE  UNCHANGED Lease!leaseVars
BY OwnerHolds, HolderKept DEF Lease!leaseVars

\* A task step is a step of the lease.
LEMMA TaskLease ==
  ASSUME ExclusiveTypeInv, ExclusiveTypeInv', NEW t \in Tasks, TaskStep(t)
  PROVE  [Lease!LeaseNext]_(Lease!leaseVars)
<1> USE DEF OwnerPcs, AcquiringPcs, AssemblingPcs, AwakePcs, DispatchPcs, ExecutePcs,
            ResultPcs, PollPcs, TerminalPcs, EndingPcs, MaintainPcs
<1>1. OneWakeAtATime /\ OneWakeAtATime' BY DEF ExclusiveTypeInv, ExclusiveInv
<1>2. CASE CheckBudget(t)
  <2>1. CASE LocalReturn(t, "check_budget")
    BY <2>1, ReturnVanishes DEF LocalReturn
  <2>2. CASE Local(t, "check_budget", "attempt_wake_acquire")
    <3>1. \A u \in Tasks : Owns(u)' <=> Owns(u)
      BY <2>2, FreeIsNotOwner DEF Local, Go, Owns, FreePcs, ExclusiveTypeInv, TypeOK
    <3> QED BY <2>2, <3>1, HolderKept DEF Local, row, Lease!leaseVars
  <2> QED BY <1>2, <2>1, <2>2 DEF CheckBudget
<1>3. CASE AttemptWakeAcquire(t)
  <2>1. wake_id = 0
    BY <1>3 DEF AttemptWakeAcquire, attempt_wake_acquire, StartWakeFrom, NoWake,
                ExclusiveTypeInv, ExclusiveInv, RestIsClean
  <2>2. Holder' = t
    <3>1. Owns(t)' BY <1>3 DEF AttemptWakeAcquire, TakeWake, Go, Owns, ExclusiveTypeInv, TypeOK
    <3> QED BY <1>1, <3>1 DEF OneWakeAtATime, Holder
  <2>3. Lease!Begin(t)
    BY <1>3, <2>1, <2>2
    DEF AttemptWakeAcquire, attempt_wake_acquire, StartWakeFrom, Lease!Begin, Lease!Issue
  <2> QED BY <2>3 DEF Lease!LeaseNext
<1>4. CASE AcquireRefused(t) \/ DrainRefused(t)
  BY <1>4, ReturnVanishes DEF AcquireRefused, DrainRefused, LocalReturn
<1>5. CASE WakeAcquireSucceeds(t) \/ PromptAssemblyCompletes(t) \/ EnterToolDispatching(t)
           \/ EnterToolExecuting(t) \/ EnterToolResultProcessing(t)
           \/ EnterMidWakeEventPolling(t) \/ MidWakePollFindsNothing(t)
           \/ EnterWakeEnding(t) \/ WakeEndTransitionsToMaintenance(t)
  BY <1>5, HopLease
  DEF WakeAcquireSucceeds, PromptAssemblyCompletes, EnterToolDispatching, EnterToolExecuting,
      EnterToolResultProcessing, EnterMidWakeEventPolling, MidWakePollFindsNothing,
      EnterWakeEnding, WakeEndTransitionsToMaintenance
<1>6. CASE CheckIterationCap(t) \/ RateLimitExceeded(t) \/ ToolReturns(t) \/ CheckDrain(t)
  BY <1>6, StayLease
  DEF CheckIterationCap, RateLimitExceeded, ToolReturns, CheckDrain, Local, Owns, row
<1>7. CASE AssemblePrompt(t) \/ ToolSleeps(t) \/ ReadPriorStatus(t)
  BY <1>7, StayLease DEF AssemblePrompt, ToolSleeps, ReadPriorStatus, Owns, row
<1>8. CASE Chat(t) \/ RunMaintenance(t) \/ IncrementIteration(t)
  BY <1>8, StayLease
  DEF Chat, RunMaintenance, SpendBudget, IncrementIteration, increment_iteration, Owns
<1>9. CASE EmitLifecycle(t)
  BY <1>9, StayLease DEF EmitLifecycle, Emit, Owns, row
<1>10. CASE DrainAcquire(t)
  <2>1. Owns(t) BY <1>10 DEF DrainAcquire, Owns
  <2>2. Holder = t /\ Holder' = Holder
    BY <1>1, <1>10, <2>1, HolderOwns, OwnerHolds, HolderKept DEF DrainAcquire, TakeWake
  <2>3. Lease!Renew(t)
    BY <1>10, <2>2
    DEF DrainAcquire, drain_attempt_wake_acquire, StartWakeFrom, Lease!Renew, Lease!Issue
  <2> QED BY <2>3 DEF Lease!LeaseNext
<1>11. CASE RereadWake(t)
  <2>1. CASE wake_id = NoWake /\ Return(t)
    BY <1>11, <2>1, ReturnVanishes DEF RereadWake
  <2>2. CASE Go(t, "wake_acquire_succeeds")
    BY <1>11, <2>2, StayLease DEF RereadWake, Owns, row
  <2> QED BY <1>11, <2>1, <2>2 DEF RereadWake
<1>12. CASE ReleaseToAsleep(t)
  <2>1. Owns(t) BY <1>12 DEF ReleaseToAsleep, Owns
  <2>2. Holder = t BY <1>1, <2>1, HolderOwns
  <2>3. \A u \in Tasks : ~Owns(u)'
    BY <1>1, <1>12, <2>1, ReturnLeaves DEF ReleaseToAsleep, OneWakeAtATime
  <2>4. Holder' = NoTask BY <2>3 DEF Holder
  <2>5. status = "maintenance"
    BY <1>12, <2>1 DEF ReleaseToAsleep, ExclusiveTypeInv, ExclusiveInv, RowIsWhereTaskThinks,
                       Believes
  <2>6. Lease!Finish(t)
    BY <1>12, <2>2, <2>4, <2>5
    DEF ReleaseToAsleep, release_to_asleep, EndWakeFrom, NoWake, Lease!Finish
  <2> QED BY <2>6 DEF Lease!LeaseNext
<1> QED
  BY <1>2, <1>3, <1>4, <1>5, <1>6, <1>7, <1>8, <1>9, <1>10, <1>11, <1>12 DEF TaskStep

\* The sweep takes back what has no holder; a crash takes the holder away; nothing
\* else outside the tasks touches the lease.
LEMMA NextLease ==
  ASSUME ExclusiveTypeInv, ExclusiveTypeInv', Next
  PROVE  [Lease!LeaseNext]_(Lease!leaseVars)
<1>1. ASSUME NEW t \in Tasks, SpawnHandleWake(t)
      PROVE  [Lease!LeaseNext]_(Lease!leaseVars)
  <2>1. \A u \in Tasks : Owns(u)' <=> Owns(u)
    BY <1>1, FreeIsNotOwner DEF SpawnHandleWake, Go, Owns, FreePcs, ExclusiveTypeInv, TypeOK
  <2> QED BY <1>1, <2>1, HolderKept DEF SpawnHandleWake, row, Lease!leaseVars
<1>2. ASSUME NEW t \in Tasks, TaskStep(t)
      PROVE  [Lease!LeaseNext]_(Lease!leaseVars)
  BY <1>2, TaskLease
<1>3. ASSUME NEW t \in Tasks, TaskFails(t)
      PROVE  [Lease!LeaseNext]_(Lease!leaseVars)
  BY <1>3, ReturnVanishes DEF TaskFails
<1>4. CASE SendMessage \/ AdmitWebhook \/ ReceiveWebhook \/ Notify \/ NotifyFails
           \/ StartListener \/ ListenerDrops \/ SweepSelects
  BY <1>4, HolderKept
  DEF SendMessage, AdmitWebhook, ReceiveWebhook, Notify, NotifyFails, StartListener, ListenerDrops,
      SweepSelects, row, Owns, Lease!leaseVars
<1>5. CASE UpdateAgent \/ SoftDeleteAgent \/ WakeAges
  BY <1>5, HolderKept
  DEF UpdateAgent, update_agent, SoftDeleteAgent, soft_delete_agent, WakeAges, Age, Owns,
      Lease!leaseVars
<1>6. CASE SweepReleases
  <2>1. \A t \in Tasks : ~Owns(t)
    BY <1>6 DEF SweepReleases, ExclusiveTypeInv, ExclusiveInv, SweepTakesAbandoned
  <2>2. \A t \in Tasks : ~Owns(t)' BY <1>6, <2>1 DEF SweepReleases, Owns
  <2>3. Holder = NoTask /\ Holder' = NoTask BY <2>1, <2>2 DEF Holder
  <2>4. status # "asleep" /\ status \in LiveStatuses
    BY <1>6 DEF SweepReleases, ExclusiveTypeInv, ExclusiveInv, SweepTakesAbandoned, LiveStatuses
  <2>5. wake_id # 0
    BY <2>4 DEF ExclusiveTypeInv, ExclusiveInv, RestIsClean, NoWake
  <2>6. Lease!Reclaim
    BY <1>6, <2>3, <2>4, <2>5
    DEF SweepReleases, force_release, EndWakeFrom, NoWake, Lease!Reclaim
  <2> QED BY <2>6 DEF Lease!LeaseNext
<1>7. CASE Crash
  <2>1. \A t \in Tasks : ~Owns(t)' BY <1>7, FreeIsNotOwner DEF Crash, Owns, FreePcs
  <2>2. Holder' = NoTask BY <2>1 DEF Holder
  <2>3. UNCHANGED <<wake_id, minted>> BY <1>7 DEF Crash, row
  <2>4. CASE \E t \in Tasks : Owns(t)
    <3>1. PICK t \in Tasks : Owns(t) BY <2>4
    <3>2. Holder = t BY <3>1, HolderOwns DEF ExclusiveTypeInv, ExclusiveInv
    <3>3. Lease!Vanish(t) BY <2>2, <2>3, <3>2 DEF Lease!Vanish
    <3> QED BY <3>3 DEF Lease!LeaseNext
  <2>5. CASE \A t \in Tasks : ~Owns(t)
    <3>1. Holder = NoTask BY <2>5 DEF Holder
    <3> QED BY <2>2, <2>3, <3>1 DEF Lease!leaseVars
  <2> QED BY <2>4, <2>5
<1> QED BY <1>1, <1>2, <1>3, <1>4, <1>5, <1>6, <1>7 DEF Next

\* handle_wake, run_wake_loop, check_drain and the sweep implement the lease: a wake
\* begins for one holder at a time under an id of its own, is renewed or finished by
\* that holder only, and is taken back only when its holder is gone.
THEOREM LeaseImplemented ==
  ASSUME SlowWakes = FALSE
  PROVE  Spec => ImplementsLease
<1>1. Init => Lease!LeaseInit
  <2>1. Init => \A t \in Tasks : ~Owns(t) BY FreeIsNotOwner DEF Init, FreePcs, Owns
  <2>2. Init => Holder = NoTask BY <2>1 DEF Holder
  <2> QED BY <2>2 DEF Init, RowInit, NoWake, Lease!LeaseInit
<1>2. ExclusiveTypeInv /\ ExclusiveTypeInv' /\ [Next]_vars
        => [Lease!LeaseNext]_(Lease!leaseVars)
  <2>1. ASSUME UNCHANGED vars PROVE UNCHANGED Lease!leaseVars
    BY <2>1, HolderKept DEF vars, row, Owns, Lease!leaseVars
  <2> QED BY <2>1, NextLease
<1> QED
  BY <1>1, <1>2, ExclusiveHolds, PTL DEF Spec, ImplementsLease, Lease!LeaseSpec

(***************************************************************************)
(* The transitions, also when a wake outlives the sweep's window.          *)
(***************************************************************************)

CanonicalStep ==
    /\ status' # status => CanonicalEdge(status, status')
    /\ wake_id' # wake_id =>
           \/ status' = "wake_acquiring" /\ wake_id' = minted' /\ minted' > minted
           \/ status' = "asleep" /\ wake_id' = NoWake

\* A hop whose target is canonical for each of its sources.
LEMMA HopCanonical ==
  ASSUME NEW t, NEW at, NEW hop, NEW next, Hop(t, at, hop, next),
         \A from \in hop.from : CanonicalEdge(from, hop.to)
  PROVE  CanonicalStep
BY DEF Hop, Move, row, CanonicalStep

LEMMA StartCanonical ==
  ASSUME TypeOK, NEW prev \in {"asleep", "maintenance"}, StartWakeFrom(prev)
  PROVE  CanonicalStep
BY DEF StartWakeFrom, CanonicalStep, CanonicalEdge, TypeOK, RowTypeOK

LEMMA EndCanonical ==
  ASSUME NEW prev, EndWakeFrom(prev)
  PROVE  CanonicalStep
BY DEF EndWakeFrom, CanonicalStep, CanonicalEdge

\* A step that writes neither the status nor the wake.
LEMMA StillCanonical ==
  ASSUME UNCHANGED <<status, wake_id>>
  PROVE  CanonicalStep
BY DEF CanonicalStep

LEMMA TaskCanonical ==
  ASSUME TypeOK, NEW t \in Tasks, TaskStep(t)
  PROVE  CanonicalStep
<1>1. CASE WakeAcquireSucceeds(t) \/ PromptAssemblyCompletes(t)
  BY <1>1, HopCanonical
  DEF WakeAcquireSucceeds, wake_acquire_succeeds, PromptAssemblyCompletes,
      prompt_assembly_completes, CanonicalEdge
<1>2. CASE EnterToolDispatching(t) \/ EnterToolExecuting(t) \/ EnterToolResultProcessing(t)
  BY <1>2, HopCanonical
  DEF EnterToolDispatching, enter_tool_dispatching, EnterToolExecuting, enter_tool_executing,
      EnterToolResultProcessing, enter_tool_result_processing, CanonicalEdge
<1>3. CASE EnterMidWakeEventPolling(t) \/ MidWakePollFindsNothing(t)
  BY <1>3, HopCanonical
  DEF EnterMidWakeEventPolling, enter_mid_wake_event_polling, MidWakePollFindsNothing,
      mid_wake_poll_finds_nothing, CanonicalEdge
<1>4. CASE EnterWakeEnding(t)
  BY <1>4, HopCanonical DEF EnterWakeEnding, enter_wake_ending, CanonicalEdge
<1>5. CASE WakeEndTransitionsToMaintenance(t)
  BY <1>5, HopCanonical
  DEF WakeEndTransitionsToMaintenance, wake_end_transitions_to_maintenance, CanonicalEdge
<1>6. CASE AttemptWakeAcquire(t) \/ DrainAcquire(t)
  BY <1>6, StartCanonical
  DEF AttemptWakeAcquire, attempt_wake_acquire, DrainAcquire, drain_attempt_wake_acquire
<1>7. CASE ReleaseToAsleep(t)
  BY <1>7, EndCanonical, StillCanonical DEF ReleaseToAsleep, release_to_asleep, row
<1>8. CASE CheckBudget(t) \/ AcquireRefused(t) \/ DrainRefused(t) \/ CheckIterationCap(t)
           \/ RateLimitExceeded(t) \/ ToolReturns(t) \/ CheckDrain(t)
  BY <1>8, StillCanonical
  DEF CheckBudget, AcquireRefused, DrainRefused, CheckIterationCap, RateLimitExceeded,
      ToolReturns, CheckDrain, Local, LocalReturn, row
<1>9. CASE AssemblePrompt(t) \/ ToolSleeps(t) \/ ReadPriorStatus(t) \/ EmitLifecycle(t)
           \/ RereadWake(t)
  BY <1>9, StillCanonical
  DEF AssemblePrompt, ToolSleeps, ReadPriorStatus, EmitLifecycle, Emit, RereadWake, row
<1>10. CASE Chat(t) \/ RunMaintenance(t) \/ IncrementIteration(t)
  BY <1>10, StillCanonical
  DEF Chat, RunMaintenance, SpendBudget, IncrementIteration, increment_iteration
<1> QED
  BY <1>1, <1>2, <1>3, <1>4, <1>5, <1>6, <1>7, <1>8, <1>9, <1>10 DEF TaskStep

\* AC-82: whatever tasks and sweeps collide, the row moves along canonical edges only.
THEOREM TransitionsCanonical == Spec => CanonicalTransitions
<1>1. ASSUME TypeOK, Next PROVE CanonicalStep
  <2>1. ASSUME NEW t \in Tasks, SpawnHandleWake(t) \/ TaskFails(t) PROVE CanonicalStep
    BY <2>1, StillCanonical DEF SpawnHandleWake, TaskFails, row
  <2>2. ASSUME NEW t \in Tasks, TaskStep(t) PROVE CanonicalStep
    BY <1>1, <2>2, TaskCanonical
  <2>3. CASE SendMessage \/ AdmitWebhook \/ ReceiveWebhook \/ Notify \/ NotifyFails
             \/ StartListener \/ ListenerDrops \/ SweepSelects \/ Crash
    BY <2>3, StillCanonical
    DEF SendMessage, AdmitWebhook, ReceiveWebhook, Notify, NotifyFails, StartListener, ListenerDrops,
        SweepSelects, Crash, row
  <2>4. CASE UpdateAgent \/ SoftDeleteAgent \/ WakeAges
    BY <2>4, StillCanonical
    DEF UpdateAgent, update_agent, SoftDeleteAgent, soft_delete_agent, WakeAges, Age
  <2>5. CASE SweepReleases
    BY <2>5, EndCanonical, StillCanonical DEF SweepReleases, force_release, row
  <2> QED BY <1>1, <2>1, <2>2, <2>3, <2>4, <2>5 DEF Next
<1>2. TypeOK /\ [Next]_vars => [CanonicalStep]_row
  BY <1>1 DEF vars, row
<1> QED BY <1>2, TypeCorrect, PTL DEF Spec, CanonicalTransitions, CanonicalStep
=============================================================================
