----------------------------- MODULE WakeProofs -----------------------------
(***************************************************************************)
(* Proofs about the wake machinery, for every number of tasks, cap, limit, *)
(* budget and fault.                                                       *)
(***************************************************************************)
EXTENDS WakeProperties, TLAPS

(***************************************************************************)
(* Type correctness: one lemma per shape of step, then one step per action.*)
(***************************************************************************)

\* The initial row and tables have their types.
LEMMA InitType == Init => TypeOK
<1> SUFFICES ASSUME Init PROVE TypeOK OBVIOUS
<1>1. RowTypeOK BY DEF Init, RowInit, RowTypeOK, AgentStatus, LiveStatuses, NoWake
<1>2. pc \in [Tasks -> OwnerPcs \cup FreePcs] BY DEF Init, FreePcs
<1>3. my_wake \in [Tasks -> Nat] /\ calls \in [Tasks -> Nat] BY DEF Init, NoWake
<1>4. prior \in [Tasks -> AgentStatus] BY DEF Init, AgentStatus
<1>5. logged \in [from : AgentStatus, to : AgentStatus, wake : Nat]
  BY DEF Init, AgentStatus, NoWake
<1>6. last_msg \in Nat /\ unread \in SUBSET EventKinds /\ sent \in 0 .. MaxSends
  BY EnvironmentAssumption DEF Init
<1> QED BY <1>1, <1>2, <1>3, <1>4, <1>5, <1>6 DEF Init, TypeOK

\* A task that returns leaves its slot as a fresh one.
LEMMA ReturnType ==
  ASSUME TypeOK, NEW t \in Tasks, Return(t)
  PROVE  /\ pc' \in [Tasks -> OwnerPcs \cup FreePcs]
         /\ my_wake' \in [Tasks -> Nat]
         /\ prior' \in [Tasks -> AgentStatus]
         /\ calls' \in [Tasks -> Nat]
         /\ drained' \in [Tasks -> BOOLEAN]
<1>1. pc' \in [Tasks -> OwnerPcs \cup FreePcs] BY DEF Return, Go, TypeOK, FreePcs
<1>2. my_wake' \in [Tasks -> Nat] BY DEF Return, TypeOK, NoWake
<1>3. prior' \in [Tasks -> AgentStatus] BY DEF Return, TypeOK, AgentStatus
<1>4. calls' \in [Tasks -> Nat] BY DEF Return, TypeOK
<1>5. drained' \in [Tasks -> BOOLEAN] BY DEF Return, TypeOK
<1> QED BY <1>1, <1>2, <1>3, <1>4, <1>5

\* Going on to a statement that exists keeps pc well typed.
LEMMA GoType ==
  ASSUME TypeOK, NEW t \in Tasks, NEW next \in OwnerPcs \cup FreePcs, Go(t, next)
  PROVE  pc' \in [Tasks -> OwnerPcs \cup FreePcs]
BY DEF TypeOK, Go

LEMMA LocalType ==
  ASSUME TypeOK, NEW t \in Tasks, NEW at, NEW next \in OwnerPcs \cup FreePcs,
         Local(t, at, next)
  PROVE  TypeOK'
BY GoType DEF Local, TypeOK, RowTypeOK, row, locals, inbox, host

LEMMA LocalReturnType ==
  ASSUME TypeOK, NEW t \in Tasks, NEW at, LocalReturn(t, at)
  PROVE  TypeOK'
BY ReturnType DEF LocalReturn, TypeOK, RowTypeOK, row, inbox, host

\* A hop either moves the row to its target or ends the task.
LEMMA HopType ==
  ASSUME TypeOK, NEW t \in Tasks, NEW at,
         NEW hop \in [from : SUBSET AgentStatus, to : AgentStatus],
         NEW next \in OwnerPcs, Hop(t, at, hop, next)
  PROVE  TypeOK'
<1>1. CASE Move(hop) /\ Go(t, next) /\ UNCHANGED locals
  BY <1>1, GoType DEF Hop, Move, TypeOK, RowTypeOK, locals, inbox, host
<1>2. CASE status \notin hop.from /\ Return(t) /\ UNCHANGED row
  BY <1>2, ReturnType DEF Hop, TypeOK, RowTypeOK, row, inbox, host
<1> QED BY <1>1, <1>2 DEF Hop

LEMMA EmitType ==
  ASSUME TypeOK, NEW t \in Tasks, NEW at, NEW from \in AgentStatus,
         NEW to \in AgentStatus, NEW next \in OwnerPcs, Emit(t, at, from, to, next)
  PROVE  TypeOK'
<1>1. logged' \in [from : AgentStatus, to : AgentStatus, wake : Nat]
  BY DEF Emit, TypeOK
<1> QED BY <1>1, GoType DEF Emit, TypeOK, RowTypeOK, row, locals, inbox, host

\* The statements that start a wake, and the task that takes it.
LEMMA StartWakeType ==
  ASSUME TypeOK, NEW prev, StartWakeFrom(prev)
  PROVE  RowTypeOK'
<1>1. status' \in AgentStatus BY DEF StartWakeFrom, AgentStatus, LiveStatuses
<1>2. minted' \in Nat /\ wake_id' \in Nat /\ count' \in Nat
  BY DEF StartWakeFrom, TypeOK, RowTypeOK
<1>3. stale' \in BOOLEAN /\ is_enabled' \in BOOLEAN /\ over_budget' \in BOOLEAN
  BY Zenon DEF StartWakeFrom, TypeOK, RowTypeOK
<1> QED BY <1>1, <1>2, <1>3 DEF RowTypeOK

LEMMA EndWakeType ==
  ASSUME TypeOK, NEW prev, EndWakeFrom(prev)
  PROVE  RowTypeOK'
BY DEF EndWakeFrom, TypeOK, RowTypeOK, AgentStatus, LiveStatuses, NoWake

LEMMA TakeWakeType ==
  ASSUME TypeOK, RowTypeOK', NEW t \in Tasks, NEW next \in OwnerPcs, TakeWake(t, next),
         NEW b \in BOOLEAN, drained' = [drained EXCEPT ![t] = b]
  PROVE  TypeOK'
<1>1. my_wake' \in [Tasks -> Nat] BY DEF TakeWake, TypeOK, RowTypeOK
<1>2. calls' \in [Tasks -> Nat] BY DEF TakeWake, TypeOK
<1>3. drained' \in [Tasks -> BOOLEAN] BY DEF TypeOK
<1>4. pc' \in [Tasks -> OwnerPcs \cup FreePcs] BY GoType DEF TakeWake
<1> QED BY <1>1, <1>2, <1>3, <1>4 DEF TakeWake, TypeOK, inbox, host

\* Every action preserves the types.
LEMMA NextType ==
  ASSUME TypeOK, Next
  PROVE  TypeOK'
<1> USE DEF OwnerPcs, AcquiringPcs, AssemblingPcs, AwakePcs, DispatchPcs, ExecutePcs,
            ResultPcs, PollPcs, TerminalPcs, EndingPcs, MaintainPcs, FreePcs
<1>1. ASSUME NEW t \in Tasks, SpawnHandleWake(t) PROVE TypeOK'
  <2>1. notifications' \in Nat BY <1>1 DEF SpawnHandleWake, TypeOK
  <2>2. pc' \in [Tasks -> OwnerPcs \cup FreePcs] BY <1>1, GoType DEF SpawnHandleWake
  <2> QED BY <1>1, <2>1, <2>2 DEF SpawnHandleWake, TypeOK, RowTypeOK, row, locals, inbox
<1>2. ASSUME NEW t \in Tasks, TaskStep(t) PROVE TypeOK'
  <2>1. CASE CheckBudget(t)
    BY <2>1, LocalType, LocalReturnType DEF CheckBudget
  <2>2. CASE AttemptWakeAcquire(t)
    <3>1. RowTypeOK' BY <2>2, StartWakeType DEF AttemptWakeAcquire, attempt_wake_acquire
    <3> QED BY <2>2, <3>1, TakeWakeType DEF AttemptWakeAcquire
  <2>3. CASE AcquireRefused(t)
    BY <2>3, LocalReturnType DEF AcquireRefused
  <2>4. CASE WakeAcquireSucceeds(t)
    BY <2>4, HopType
       DEF WakeAcquireSucceeds, wake_acquire_succeeds, AgentStatus, LiveStatuses
  <2>5. CASE PromptAssemblyCompletes(t)
    BY <2>5, HopType
       DEF PromptAssemblyCompletes, prompt_assembly_completes, AgentStatus, LiveStatuses
  <2>6. CASE CheckIterationCap(t)
    BY <2>6, LocalType DEF CheckIterationCap
  <2>7. CASE AssemblePrompt(t)
    <3>1. pc' \in [Tasks -> OwnerPcs \cup FreePcs] BY <2>7, GoType DEF AssemblePrompt
    <3> QED BY <2>7, <3>1 DEF AssemblePrompt, TypeOK, RowTypeOK, row, locals, host
  <2>8. CASE Chat(t)
    <3>1. pc' \in [Tasks -> OwnerPcs \cup FreePcs] BY <2>8, GoType DEF Chat
    <3>2. RowTypeOK' BY <2>8, BudgetedAssumption DEF Chat, SpendBudget, TypeOK, RowTypeOK
    <3> QED BY <2>8, <3>1, <3>2 DEF Chat, TypeOK, locals, inbox, host
  <2>9. CASE EnterToolDispatching(t)
    BY <2>9, HopType
       DEF EnterToolDispatching, enter_tool_dispatching, AgentStatus, LiveStatuses
  <2>10. CASE RateLimitExceeded(t)
    BY <2>10, LocalType DEF RateLimitExceeded
  <2>11. CASE EnterToolExecuting(t)
    BY <2>11, HopType
       DEF EnterToolExecuting, enter_tool_executing, AgentStatus, LiveStatuses
  <2>12. CASE EnterToolResultProcessing(t)
    BY <2>12, HopType
       DEF EnterToolResultProcessing, enter_tool_result_processing, AgentStatus, LiveStatuses
  <2>13. CASE ToolReturns(t)
    BY <2>13, LocalType DEF ToolReturns
  <2>14. CASE ToolSleeps(t)
    <3>1. pc' \in [Tasks -> OwnerPcs \cup FreePcs] BY <2>14, GoType DEF ToolSleeps
    <3>2. prior' \in [Tasks -> AgentStatus]
      BY <2>14 DEF ToolSleeps, TypeOK, AgentStatus, LiveStatuses
    <3> QED BY <2>14, <3>1, <3>2 DEF ToolSleeps, TypeOK, RowTypeOK, row, inbox, host
  <2>15. CASE IncrementIteration(t)
    <3>1. pc' \in [Tasks -> OwnerPcs \cup FreePcs] BY <2>15, GoType DEF IncrementIteration
    <3>2. calls' \in [Tasks -> Nat] BY <2>15 DEF IncrementIteration, TypeOK
    <3>3. RowTypeOK' BY <2>15 DEF IncrementIteration, increment_iteration, TypeOK, RowTypeOK
    <3> QED BY <2>15, <3>1, <3>2, <3>3 DEF IncrementIteration, TypeOK, inbox, host
  <2>16. CASE EnterMidWakeEventPolling(t)
    BY <2>16, HopType
       DEF EnterMidWakeEventPolling, enter_mid_wake_event_polling, AgentStatus, LiveStatuses
  <2>17. CASE MidWakePollFindsNothing(t)
    BY <2>17, HopType
       DEF MidWakePollFindsNothing, mid_wake_poll_finds_nothing, AgentStatus, LiveStatuses
  <2>18. CASE ReadPriorStatus(t)
    <3>1. pc' \in [Tasks -> OwnerPcs \cup FreePcs] BY <2>18, GoType DEF ReadPriorStatus
    <3>2. prior' \in [Tasks -> AgentStatus] BY <2>18 DEF ReadPriorStatus, TypeOK, RowTypeOK
    <3> QED BY <2>18, <3>1, <3>2 DEF ReadPriorStatus, TypeOK, RowTypeOK, row, inbox, host
  <2>19. CASE EnterWakeEnding(t)
    BY <2>19, HopType DEF EnterWakeEnding, enter_wake_ending, AgentStatus, LiveStatuses
  <2>20. CASE WakeEndTransitionsToMaintenance(t)
    BY <2>20, HopType
       DEF WakeEndTransitionsToMaintenance, wake_end_transitions_to_maintenance,
           AgentStatus, LiveStatuses
  <2>21. CASE EmitLifecycle(t)
    <3>1. prior[t] \in AgentStatus BY DEF TypeOK
    <3> QED BY <2>21, <3>1, EmitType DEF EmitLifecycle, AgentStatus, LiveStatuses
  <2>22. CASE RunMaintenance(t)
    <3>1. pc' \in [Tasks -> OwnerPcs \cup FreePcs] BY <2>22, GoType DEF RunMaintenance
    <3>2. RowTypeOK'
      BY <2>22, BudgetedAssumption DEF RunMaintenance, SpendBudget, TypeOK, RowTypeOK
    <3> QED BY <2>22, <3>1, <3>2 DEF RunMaintenance, TypeOK, locals, inbox, host
  <2>23. CASE CheckDrain(t)
    BY <2>23, LocalType DEF CheckDrain
  <2>24. CASE DrainAcquire(t)
    <3>1. RowTypeOK' BY <2>24, StartWakeType DEF DrainAcquire, drain_attempt_wake_acquire
    <3> QED BY <2>24, <3>1, TakeWakeType DEF DrainAcquire
  <2>25. CASE DrainRefused(t)
    BY <2>25, LocalReturnType DEF DrainRefused
  <2>26. CASE RereadWake(t)
    <3>1. CASE wake_id = NoWake /\ Return(t)
      BY <2>26, <3>1, ReturnType DEF RereadWake, TypeOK, RowTypeOK, row, inbox, host
    <3>2. CASE /\ my_wake' = [my_wake EXCEPT ![t] = wake_id]
               /\ Go(t, "wake_acquire_succeeds")
               /\ UNCHANGED <<prior, calls, drained>>
      <4>1. my_wake' \in [Tasks -> Nat] BY <3>2 DEF TypeOK, RowTypeOK
      <4>2. pc' \in [Tasks -> OwnerPcs \cup FreePcs] BY <3>2, GoType
      <4> QED BY <2>26, <3>2, <4>1, <4>2 DEF RereadWake, TypeOK, RowTypeOK, row, inbox, host
    <3> QED BY <2>26, <3>1, <3>2 DEF RereadWake
  <2>27. CASE ReleaseToAsleep(t)
    <3>1. RowTypeOK'
      BY <2>27, EndWakeType DEF ReleaseToAsleep, release_to_asleep, row, TypeOK, RowTypeOK
    <3> QED BY <2>27, <3>1, ReturnType DEF ReleaseToAsleep, TypeOK, inbox, host
  <2> QED
    BY <1>2, <2>1, <2>2, <2>3, <2>4, <2>5, <2>6, <2>7, <2>8, <2>9, <2>10, <2>11, <2>12,
       <2>13, <2>14, <2>15, <2>16, <2>17, <2>18, <2>19, <2>20, <2>21, <2>22, <2>23,
       <2>24, <2>25, <2>26, <2>27
    DEF TaskStep
<1>3. ASSUME NEW t \in Tasks, TaskFails(t) PROVE TypeOK'
  BY <1>3, ReturnType DEF TaskFails, TypeOK, RowTypeOK, row, inbox, host
<1>4. CASE SendMessage
  <2>1. last_msg' \in Nat
    <3>1. PICK stamp \in MessageStamps : last_msg' = NewerOf(last_msg, stamp)
      BY <1>4 DEF SendMessage
    <3> QED BY <3>1 DEF MessageStamps, NewerOf, TypeOK, RowTypeOK
  <2>2. sent' \in 0 .. MaxSends BY <1>4, EnvironmentAssumption DEF SendMessage, TypeOK
  <2>3. unread' \in SUBSET EventKinds BY <1>4 DEF SendMessage, TypeOK, EventKinds
  <2>4. to_notify' \in Nat BY <1>4 DEF SendMessage, TypeOK
  <2> QED BY <1>4, <2>1, <2>2, <2>3, <2>4 DEF SendMessage, TypeOK, RowTypeOK, row, locals
<1>5. CASE AdmitWebhook \/ ReceiveWebhook
  <2>1. CASE AdmitWebhook
    <3>1. sent' \in 0 .. MaxSends BY <2>1, EnvironmentAssumption DEF AdmitWebhook, TypeOK
    <3> QED BY <2>1, <3>1 DEF AdmitWebhook, TypeOK, RowTypeOK, row, locals, host
  <2>2. CASE ReceiveWebhook
    <3>1. unread' \in SUBSET EventKinds BY <2>2 DEF ReceiveWebhook, TypeOK, EventKinds
    <3>2. to_notify' \in Nat BY <2>2 DEF ReceiveWebhook, TypeOK
    <3> QED BY <2>2, <3>1, <3>2 DEF ReceiveWebhook, TypeOK, RowTypeOK, row, locals
  <2> QED BY <1>5, <2>1, <2>2
<1>6. CASE Notify
  BY <1>6 DEF Notify, TypeOK, RowTypeOK, row, locals, inbox
<1>7. CASE NotifyFails
  BY <1>7 DEF NotifyFails, TypeOK, RowTypeOK, row, locals, inbox
<1>8. CASE UpdateAgent
  <2>1. RowTypeOK' BY <1>8, BudgetedAssumption DEF UpdateAgent, update_agent, TypeOK, RowTypeOK
  <2> QED BY <1>8, <2>1 DEF UpdateAgent, TypeOK, locals, inbox, host
<1>9. CASE SoftDeleteAgent
  BY <1>9 DEF SoftDeleteAgent, soft_delete_agent, TypeOK, RowTypeOK, locals, inbox, host
<1>10. CASE StartListener
  BY <1>10 DEF StartListener, TypeOK, RowTypeOK, row, locals, inbox
<1>11. CASE ListenerDrops
  BY <1>11 DEF ListenerDrops, TypeOK, RowTypeOK, row, locals, inbox
<1>12. CASE WakeAges
  BY <1>12 DEF WakeAges, Age, TypeOK, RowTypeOK, locals, inbox, host
<1>13. CASE SweepSelects
  BY <1>13 DEF SweepSelects, TypeOK, RowTypeOK, row, locals, inbox
<1>14. CASE SweepReleases
  <2>1. RowTypeOK'
    BY <1>14, EndWakeType DEF SweepReleases, force_release, row, TypeOK, RowTypeOK
  <2> QED BY <1>14, <2>1 DEF SweepReleases, TypeOK, locals, inbox
<1>15. CASE Crash
  BY <1>15 DEF Crash, TypeOK, RowTypeOK, row, NoWake, AgentStatus
<1> QED
  BY <1>1, <1>2, <1>3, <1>4, <1>5, <1>6, <1>7, <1>8, <1>9, <1>10, <1>11, <1>12, <1>13,
     <1>14, <1>15
  DEF Next

\* TypeOK holds in every reachable state, whatever the constants.
THEOREM TypeCorrect == Spec => []TypeOK
<1>1. TypeOK /\ UNCHANGED vars => TypeOK'
  BY DEF vars, row, locals, inbox, host, TypeOK, RowTypeOK
<1>2. TypeOK /\ [Next]_vars => TypeOK'
  BY <1>1, NextType
<1> QED BY <1>2, InitType, PTL DEF Spec

(***************************************************************************)
(* One wake at a time.  While every task is faster than the sweep's        *)
(* window, the row's status says where its task is: so an acquisition      *)
(* finds nobody inside, and every step of an owner is a step of the only   *)
(* owner.                                                                  *)
(***************************************************************************)

ExclusiveTypeInv == TypeOK /\ ExclusiveInv

\* The pcs of owners and of the others are different.
LEMMA FreeIsNotOwner == OwnerPcs \cap FreePcs = {}
BY DEF OwnerPcs, AcquiringPcs, AssemblingPcs, AwakePcs, DispatchPcs, ExecutePcs,
       ResultPcs, PollPcs, TerminalPcs, EndingPcs, MaintainPcs, FreePcs

\* No owner stands inside a wake of a row at rest.
LEMMA OwnerIsAwake ==
  ASSUME ExclusiveTypeInv, NEW t \in Tasks, Owns(t)
  PROVE  status # "asleep"
BY DEF ExclusiveTypeInv, ExclusiveInv, RowIsWhereTaskThinks, Believes, Owns, OwnerPcs

\* The only owner goes on inside its wake.
LEMMA OwnerMoves ==
  ASSUME ExclusiveTypeInv, NEW t \in Tasks, Owns(t), NEW next \in OwnerPcs, Go(t, next),
         wake_id' = my_wake'[t], Believes(next, status'), RestIsClean',
         stale' = stale, found' = found
  PROVE  ExclusiveInv'
<1>1. pc'[t] = next BY DEF Go, ExclusiveTypeInv, TypeOK
<1>2. \A u \in Tasks : Owns(u)' => u = t
  <2> SUFFICES ASSUME NEW u \in Tasks, u # t PROVE ~Owns(u)' OBVIOUS
  <2>1. pc'[u] = pc[u] BY DEF Go, ExclusiveTypeInv, TypeOK
  <2>2. ~Owns(u) BY DEF ExclusiveTypeInv, ExclusiveInv, OneWakeAtATime
  <2> QED BY <2>1, <2>2 DEF Owns
<1>3. RowIsWhereTaskThinks' BY <1>1, <1>2 DEF RowIsWhereTaskThinks
<1>4. ~stale /\ ~found BY DEF ExclusiveTypeInv, ExclusiveInv, SweepTakesAbandoned
<1> QED BY <1>2, <1>3, <1>4 DEF ExclusiveInv, OneWakeAtATime, SweepTakesAbandoned

\* A task returns from wherever it is, and the row stays.
LEMMA TaskEnds ==
  ASSUME ExclusiveTypeInv, NEW t \in Tasks, Return(t), UNCHANGED row, UNCHANGED found
  PROVE  ExclusiveInv'
<1>1. \A u \in Tasks : Owns(u)' => u # t /\ Owns(u) /\ pc'[u] = pc[u] /\ my_wake'[u] = my_wake[u]
  <2>1. ~Owns(t)'
    BY FreeIsNotOwner DEF Return, Go, Owns, ExclusiveTypeInv, TypeOK, FreePcs
  <2>2. \A u \in Tasks : u # t => pc'[u] = pc[u] /\ my_wake'[u] = my_wake[u]
    BY DEF Return, Go, ExclusiveTypeInv, TypeOK
  <2> QED BY <2>1, <2>2 DEF Owns
<1>2. OneWakeAtATime' BY <1>1 DEF ExclusiveTypeInv, ExclusiveInv, OneWakeAtATime
<1>3. RowIsWhereTaskThinks'
  BY <1>1 DEF ExclusiveTypeInv, ExclusiveInv, RowIsWhereTaskThinks, Believes, row
<1>4. RestIsClean' BY DEF ExclusiveTypeInv, ExclusiveInv, RestIsClean, row
<1>5. SweepTakesAbandoned' /\ (stale' => \A u \in Tasks : ~Owns(u)')
  BY <1>1 DEF ExclusiveTypeInv, ExclusiveInv, SweepTakesAbandoned, row
<1> QED BY <1>2, <1>3, <1>4, <1>5 DEF ExclusiveInv

\* A task outside any wake goes on outside.
LEMMA FreeMoves ==
  ASSUME ExclusiveTypeInv, NEW t \in Tasks, ~Owns(t), NEW next \in FreePcs, Go(t, next),
         UNCHANGED <<row, my_wake, found>>
  PROVE  ExclusiveInv'
<1>1. \A u \in Tasks : Owns(u)' => Owns(u) /\ pc'[u] = pc[u]
  BY FreeIsNotOwner DEF Go, Owns, ExclusiveTypeInv, TypeOK
<1>2. OneWakeAtATime' BY <1>1 DEF ExclusiveTypeInv, ExclusiveInv, OneWakeAtATime
<1>3. RowIsWhereTaskThinks'
  BY <1>1 DEF ExclusiveTypeInv, ExclusiveInv, RowIsWhereTaskThinks, Believes, row
<1>4. RestIsClean' BY DEF ExclusiveTypeInv, ExclusiveInv, RestIsClean, row
<1>5. SweepTakesAbandoned' /\ (stale' => \A u \in Tasks : ~Owns(u)')
  BY <1>1 DEF ExclusiveTypeInv, ExclusiveInv, SweepTakesAbandoned, row
<1> QED BY <1>2, <1>3, <1>4, <1>5 DEF ExclusiveInv

\* Another actor that leaves the wake alone.
LEMMA WakeKept ==
  ASSUME ExclusiveTypeInv, UNCHANGED <<pc, my_wake, status, wake_id, count, stale, found>>
  PROVE  ExclusiveInv'
BY DEF ExclusiveTypeInv, ExclusiveInv, OneWakeAtATime, RowIsWhereTaskThinks, Believes,
       RestIsClean, SweepTakesAbandoned, Owns

\* An owner goes on without writing the status or the wake.
LEMMA OwnerStays ==
  ASSUME ExclusiveTypeInv, NEW t \in Tasks, Owns(t), NEW next \in OwnerPcs, Go(t, next),
         \A s \in AgentStatus : Believes(pc[t], s) => Believes(next, s),
         UNCHANGED <<my_wake, status, wake_id, stale, found>>
  PROVE  ExclusiveInv'
<1>1. status # "asleep" BY OwnerIsAwake
<1>2. RestIsClean' BY <1>1 DEF ExclusiveTypeInv, ExclusiveInv, RestIsClean
<1>3. wake_id = my_wake[t] /\ Believes(pc[t], status)
  BY DEF ExclusiveTypeInv, ExclusiveInv, RowIsWhereTaskThinks
<1>4. Believes(next, status') BY <1>3 DEF ExclusiveTypeInv, TypeOK, RowTypeOK
<1> QED BY <1>2, <1>3, <1>4, OwnerMoves

\* A hop takes the row where its task goes; a refused one ends the task.
LEMMA HopExclusive ==
  ASSUME ExclusiveTypeInv, NEW t \in Tasks, NEW at \in OwnerPcs,
         NEW hop, hop.to \in LiveStatuses,
         NEW next \in OwnerPcs, Believes(next, hop.to), Hop(t, at, hop, next)
  PROVE  ExclusiveInv'
<1>1. Owns(t) BY DEF Hop, Owns
<1>2. CASE Move(hop) /\ Go(t, next) /\ UNCHANGED locals
  <2>1. status # "asleep" /\ status' = hop.to /\ status' # "asleep"
    BY <1>1, <1>2, OwnerIsAwake DEF Move, LiveStatuses
  <2>2. RestIsClean' BY <1>2, <2>1 DEF Move, ExclusiveTypeInv, ExclusiveInv, RestIsClean
  <2>3. wake_id' = my_wake'[t]
    BY <1>1, <1>2 DEF Move, locals, ExclusiveTypeInv, ExclusiveInv, RowIsWhereTaskThinks
  <2>4. stale' = stale /\ found' = found BY <1>2 DEF Move, Hop, host
  <2> QED BY <1>1, <1>2, <2>1, <2>2, <2>3, <2>4, OwnerMoves
<1>3. CASE Return(t) /\ UNCHANGED row
  BY <1>3, TaskEnds DEF Hop, host
<1> QED BY <1>2, <1>3 DEF Hop

\* A wake starts for the only task that can be inside.
LEMMA StartExclusive ==
  ASSUME ExclusiveTypeInv, NEW t \in Tasks, NEW prev, StartWakeFrom(prev), ~found,
         \A u \in Tasks : Owns(u) => u = t,
         NEW next \in AcquiringPcs, TakeWake(t, next)
  PROVE  ExclusiveInv'
<1>1. pc'[t] = next /\ my_wake'[t] = wake_id'
  BY DEF TakeWake, Go, ExclusiveTypeInv, TypeOK
<1>2. \A u \in Tasks : Owns(u)' => u = t
  BY DEF TakeWake, Go, Owns, ExclusiveTypeInv, TypeOK
<1>3. Believes(next, "wake_acquiring")
  BY DEF Believes, AcquiringPcs, AssemblingPcs, AwakePcs, DispatchPcs, ExecutePcs,
         ResultPcs, PollPcs, TerminalPcs, EndingPcs, MaintainPcs
<1>4. RowIsWhereTaskThinks'
  BY <1>1, <1>2, <1>3 DEF RowIsWhereTaskThinks, StartWakeFrom
<1>5. RestIsClean'
  BY DEF RestIsClean, StartWakeFrom, NoWake, ExclusiveTypeInv, TypeOK, RowTypeOK
<1>6. ~stale' /\ ~found' BY DEF StartWakeFrom, TakeWake, host
<1> QED BY <1>2, <1>4, <1>5, <1>6 DEF ExclusiveInv, OneWakeAtATime, SweepTakesAbandoned

\* Every step of a task preserves the invariant.
LEMMA TaskExclusive ==
  ASSUME ExclusiveTypeInv, NEW t \in Tasks, TaskStep(t)
  PROVE  ExclusiveInv'
<1> USE DEF OwnerPcs, AcquiringPcs, AssemblingPcs, AwakePcs, DispatchPcs, ExecutePcs,
            ResultPcs, PollPcs, TerminalPcs, EndingPcs, MaintainPcs, FreePcs
<1>1. CASE CheckBudget(t)
  <2>1. CASE LocalReturn(t, "check_budget")
    BY <2>1, TaskEnds DEF LocalReturn, host
  <2>2. CASE Local(t, "check_budget", "attempt_wake_acquire")
    BY <2>2, FreeMoves DEF Local, Owns, locals, host
  <2> QED BY <1>1, <2>1, <2>2 DEF CheckBudget
<1>2. CASE AttemptWakeAcquire(t)
  <2>1. status = "asleep" BY <1>2 DEF AttemptWakeAcquire, attempt_wake_acquire, StartWakeFrom
  <2>2. \A u \in Tasks : ~Owns(u) BY <2>1, OwnerIsAwake
  <2>3. ~found
    BY <2>1 DEF ExclusiveTypeInv, ExclusiveInv, SweepTakesAbandoned, LiveStatuses
  <2> QED
    BY <1>2, <2>2, <2>3, StartExclusive DEF AttemptWakeAcquire, attempt_wake_acquire
<1>3. CASE AcquireRefused(t)
  BY <1>3, TaskEnds DEF AcquireRefused, LocalReturn, host
<1>4. CASE WakeAcquireSucceeds(t)
  BY <1>4, HopExclusive
     DEF WakeAcquireSucceeds, wake_acquire_succeeds, Believes, LiveStatuses
<1>5. CASE PromptAssemblyCompletes(t)
  BY <1>5, HopExclusive
     DEF PromptAssemblyCompletes, prompt_assembly_completes, Believes, LiveStatuses
<1>6. CASE CheckIterationCap(t)
  BY <1>6, OwnerStays DEF CheckIterationCap, Local, Owns, Believes, row, locals, host
<1>7. CASE AssemblePrompt(t)
  BY <1>7, OwnerStays DEF AssemblePrompt, Owns, Believes, row, locals, host
<1>8. CASE Chat(t)
  BY <1>8, OwnerStays DEF Chat, SpendBudget, Owns, Believes, locals, host
<1>9. CASE EnterToolDispatching(t)
  BY <1>9, HopExclusive
     DEF EnterToolDispatching, enter_tool_dispatching, Believes, LiveStatuses
<1>10. CASE RateLimitExceeded(t)
  BY <1>10, OwnerStays DEF RateLimitExceeded, Local, Owns, Believes, row, locals, host
<1>11. CASE EnterToolExecuting(t)
  BY <1>11, HopExclusive
     DEF EnterToolExecuting, enter_tool_executing, Believes, LiveStatuses
<1>12. CASE EnterToolResultProcessing(t)
  BY <1>12, HopExclusive
     DEF EnterToolResultProcessing, enter_tool_result_processing, Believes, LiveStatuses
<1>13. CASE ToolReturns(t)
  BY <1>13, OwnerStays DEF ToolReturns, Local, Owns, Believes, row, locals, host
<1>14. CASE ToolSleeps(t)
  BY <1>14, OwnerStays DEF ToolSleeps, Owns, Believes, row, host
<1>15. CASE IncrementIteration(t)
  BY <1>15, OwnerStays DEF IncrementIteration, increment_iteration, Owns, Believes, host
<1>16. CASE EnterMidWakeEventPolling(t)
  BY <1>16, HopExclusive
     DEF EnterMidWakeEventPolling, enter_mid_wake_event_polling, Believes, LiveStatuses
<1>17. CASE MidWakePollFindsNothing(t)
  BY <1>17, HopExclusive
     DEF MidWakePollFindsNothing, mid_wake_poll_finds_nothing, Believes, LiveStatuses
<1>18. CASE ReadPriorStatus(t)
  BY <1>18, OwnerStays DEF ReadPriorStatus, Owns, Believes, row, host
<1>19. CASE EnterWakeEnding(t)
  BY <1>19, HopExclusive DEF EnterWakeEnding, enter_wake_ending, Believes, LiveStatuses
<1>20. CASE WakeEndTransitionsToMaintenance(t)
  BY <1>20, HopExclusive
     DEF WakeEndTransitionsToMaintenance, wake_end_transitions_to_maintenance,
         Believes, LiveStatuses
<1>21. CASE EmitLifecycle(t)
  BY <1>21, OwnerStays DEF EmitLifecycle, Emit, Owns, Believes, row, locals, host
<1>22. CASE RunMaintenance(t)
  BY <1>22, OwnerStays DEF RunMaintenance, SpendBudget, Owns, Believes, locals, host
<1>23. CASE CheckDrain(t)
  BY <1>23, OwnerStays DEF CheckDrain, Local, Owns, Believes, row, locals, host
<1>24. CASE DrainAcquire(t)
  <2>1. Owns(t) BY <1>24 DEF DrainAcquire, Owns
  <2>2. (\A u \in Tasks : Owns(u) => u = t) /\ ~found
    BY <2>1 DEF ExclusiveTypeInv, ExclusiveInv, OneWakeAtATime, SweepTakesAbandoned
  <2> QED BY <1>24, <2>2, StartExclusive DEF DrainAcquire, drain_attempt_wake_acquire
<1>25. CASE DrainRefused(t)
  BY <1>25, TaskEnds DEF DrainRefused, LocalReturn, host
<1>26. CASE RereadWake(t)
  <2>1. CASE wake_id = NoWake /\ Return(t)
    BY <1>26, <2>1, TaskEnds DEF RereadWake, host
  <2>2. CASE /\ my_wake' = [my_wake EXCEPT ![t] = wake_id]
             /\ Go(t, "wake_acquire_succeeds")
    <3>1. Owns(t) BY <1>26 DEF RereadWake, Owns
    <3>2. my_wake' = my_wake
      BY <2>2, <3>1 DEF ExclusiveTypeInv, ExclusiveInv, RowIsWhereTaskThinks, TypeOK
    <3> QED BY <1>26, <2>2, <3>1, <3>2, OwnerStays DEF RereadWake, Believes, row, host
  <2> QED BY <1>26, <2>1, <2>2 DEF RereadWake
<1>27. CASE ReleaseToAsleep(t)
  <2>1. Owns(t) BY <1>27 DEF ReleaseToAsleep, Owns
  <2>2. \A u \in Tasks : ~Owns(u)'
    <3>1. ~Owns(t)'
      BY <1>27, FreeIsNotOwner DEF ReleaseToAsleep, Return, Go, Owns, ExclusiveTypeInv, TypeOK
    <3>2. \A u \in Tasks : u # t => pc'[u] = pc[u] /\ ~Owns(u)
      BY <1>27, <2>1
      DEF ReleaseToAsleep, Return, Go, ExclusiveTypeInv, ExclusiveInv, OneWakeAtATime, TypeOK
    <3> QED BY <3>1, <3>2 DEF Owns
  <2>3. RestIsClean'
    BY <1>27 DEF ReleaseToAsleep, release_to_asleep, EndWakeFrom, row, RestIsClean,
                 ExclusiveTypeInv, ExclusiveInv
  <2>4. ~found'
    BY <1>27, <2>1 DEF ReleaseToAsleep, host, ExclusiveTypeInv, ExclusiveInv, SweepTakesAbandoned
  <2> QED
    BY <2>2, <2>3, <2>4
    DEF ExclusiveInv, OneWakeAtATime, RowIsWhereTaskThinks, SweepTakesAbandoned
<1> QED
  BY <1>1, <1>2, <1>3, <1>4, <1>5, <1>6, <1>7, <1>8, <1>9, <1>10, <1>11, <1>12, <1>13,
     <1>14, <1>15, <1>16, <1>17, <1>18, <1>19, <1>20, <1>21, <1>22, <1>23, <1>24, <1>25,
     <1>26, <1>27
  DEF TaskStep

\* Every step of the system does, while no running task is slower than the window.
LEMMA NextExclusive ==
  ASSUME SlowWakes = FALSE, ExclusiveTypeInv, Next
  PROVE  ExclusiveInv'
<1>1. ASSUME NEW t \in Tasks, SpawnHandleWake(t) PROVE ExclusiveInv'
  <2>1. ~Owns(t) /\ "check_budget" \in FreePcs
    BY <1>1, FreeIsNotOwner DEF SpawnHandleWake, Owns, FreePcs
  <2> QED BY <1>1, <2>1, FreeMoves DEF SpawnHandleWake, locals
<1>2. ASSUME NEW t \in Tasks, TaskStep(t) PROVE ExclusiveInv'
  BY <1>2, TaskExclusive
<1>3. ASSUME NEW t \in Tasks, TaskFails(t) PROVE ExclusiveInv'
  BY <1>3, TaskEnds DEF TaskFails, host
<1>4. CASE SendMessage \/ AdmitWebhook \/ ReceiveWebhook \/ Notify \/ NotifyFails
           \/ StartListener \/ ListenerDrops
  BY <1>4, WakeKept
  DEF SendMessage, AdmitWebhook, ReceiveWebhook, Notify, NotifyFails, StartListener,
      ListenerDrops, row, locals, host
<1>5. CASE UpdateAgent \/ SoftDeleteAgent
  BY <1>5, WakeKept
  DEF UpdateAgent, update_agent, SoftDeleteAgent, soft_delete_agent, locals, host
<1>6. CASE WakeAges
  <2>1. \A t \in Tasks : ~Owns(t) BY <1>6 DEF WakeAges
  <2>2. \A t \in Tasks : ~Owns(t)' BY <1>6, <2>1 DEF WakeAges, Owns
  <2>3. status' = status /\ status # "asleep" /\ stale'
    BY <1>6 DEF WakeAges, Age, LiveStatuses
  <2>4. RestIsClean'
    BY <1>6, <2>3 DEF WakeAges, Age, RestIsClean, ExclusiveTypeInv, ExclusiveInv
  <2>5. SweepTakesAbandoned'
    BY <1>6, <2>2, <2>3
    DEF WakeAges, Age, host, SweepTakesAbandoned, ExclusiveTypeInv, ExclusiveInv
  <2> QED BY <2>2, <2>4, <2>5 DEF ExclusiveInv, OneWakeAtATime, RowIsWhereTaskThinks
<1>7. CASE SweepSelects
  BY <1>7
  DEF SweepSelects, find_stale_agents, row, locals, ExclusiveTypeInv, ExclusiveInv,
      OneWakeAtATime, RowIsWhereTaskThinks, Believes, RestIsClean, SweepTakesAbandoned, Owns
<1>8. CASE SweepReleases
  <2>1. \A t \in Tasks : ~Owns(t)
    BY <1>8 DEF SweepReleases, ExclusiveTypeInv, ExclusiveInv, SweepTakesAbandoned
  <2>2. \A t \in Tasks : ~Owns(t)' BY <1>8, <2>1 DEF SweepReleases, Owns
  <2>3. RestIsClean'
    BY <1>8 DEF SweepReleases, force_release, EndWakeFrom, row, RestIsClean,
                ExclusiveTypeInv, ExclusiveInv
  <2>4. ~found' BY <1>8 DEF SweepReleases
  <2> QED
    BY <2>2, <2>3, <2>4
    DEF ExclusiveInv, OneWakeAtATime, RowIsWhereTaskThinks, SweepTakesAbandoned
<1>9. CASE Crash
  <2>1. \A t \in Tasks : ~Owns(t)' BY <1>9, FreeIsNotOwner DEF Crash, Owns, FreePcs
  <2>2. RestIsClean' /\ ~found'
    BY <1>9 DEF Crash, row, RestIsClean, ExclusiveTypeInv, ExclusiveInv
  <2> QED
    BY <2>1, <2>2 DEF ExclusiveInv, OneWakeAtATime, RowIsWhereTaskThinks, SweepTakesAbandoned
<1> QED
  BY <1>1, <1>2, <1>3, <1>4, <1>5, <1>6, <1>7, <1>8, <1>9 DEF Next

LEMMA InitExclusive == Init => ExclusiveInv
<1> SUFFICES ASSUME Init PROVE ExclusiveInv OBVIOUS
<1>1. \A t \in Tasks : ~Owns(t) BY FreeIsNotOwner DEF Init, Owns, FreePcs
<1>2. RestIsClean BY DEF Init, RowInit, RestIsClean
<1>3. ~found BY DEF Init
<1> QED
  BY <1>1, <1>2, <1>3
  DEF ExclusiveInv, OneWakeAtATime, RowIsWhereTaskThinks, SweepTakesAbandoned

\* The strengthened invariant holds in every reachable state when no running task
\* is slower than the sweep's window.
THEOREM ExclusiveHolds ==
  ASSUME SlowWakes = FALSE
  PROVE  Spec => []ExclusiveTypeInv
<1>1. Init => ExclusiveTypeInv BY InitType, InitExclusive DEF ExclusiveTypeInv
<1>2. ExclusiveTypeInv /\ [Next]_vars => ExclusiveTypeInv'
  <2>1. ASSUME ExclusiveTypeInv, Next PROVE ExclusiveTypeInv'
    BY <2>1, NextType, NextExclusive DEF ExclusiveTypeInv
  <2>2. ASSUME ExclusiveTypeInv, UNCHANGED vars PROVE ExclusiveTypeInv'
    <3>1. TypeOK'
      BY <2>2 DEF ExclusiveTypeInv, vars, row, locals, inbox, host, TypeOK, RowTypeOK
    <3>2. ExclusiveInv' BY <2>2, WakeKept DEF vars, row, locals, host
    <3> QED BY <3>1, <3>2 DEF ExclusiveTypeInv
  <2> QED BY <2>1, <2>2
<1> QED BY <1>1, <1>2, PTL DEF Spec

\* AC-1: the acquisition by compare-and-swap keeps two tasks from ever being inside
\* a wake together, for every number of tasks and every fault, crashes included.
THEOREM Exclusive ==
  ASSUME SlowWakes = FALSE
  PROVE  Spec => []OneWakeAtATime
<1>1. ExclusiveTypeInv => OneWakeAtATime BY DEF ExclusiveTypeInv, ExclusiveInv
<1> QED BY <1>1, ExclusiveHolds, PTL

\* No compare-and-swap of run_wake_loop is ever refused to the task in the wake.
THEOREM NoInvariantBreak ==
  ASSUME SlowWakes = FALSE
  PROVE  Spec => []RowIsWhereTaskThinks
<1>1. ExclusiveTypeInv => RowIsWhereTaskThinks BY DEF ExclusiveTypeInv, ExclusiveInv
<1> QED BY <1>1, ExclusiveHolds, PTL

\* The sweep's SELECT-then-UPDATE takes no wake from a task that runs.
THEOREM SweepIsSafe ==
  ASSUME SlowWakes = FALSE
  PROVE  Spec => []SweepTakesAbandoned
<1>1. ExclusiveTypeInv => SweepTakesAbandoned BY DEF ExclusiveTypeInv, ExclusiveInv
<1> QED BY <1>1, ExclusiveHolds, PTL

\* However a wake ends, released by its task or taken away by the sweep, it leaves an
\* agent at rest without a wake id, a count or a stale start.
THEOREM RestLeavesNothing ==
  ASSUME SlowWakes = FALSE
  PROVE  Spec => []RestIsClean
<1>1. ExclusiveTypeInv => RestIsClean BY DEF ExclusiveTypeInv, ExclusiveInv
<1> QED BY <1>1, ExclusiveHolds, PTL
=============================================================================
