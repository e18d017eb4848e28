--------------------------- MODULE SpendingProofs ---------------------------
(***************************************************************************)
(* For any number of tasks, any limits and prices: the budget used is the  *)
(* sum of the calls on record, a spent budget lets in only who had passed  *)
(* the gate, and projections are numbered in the order of their wakes.     *)
(***************************************************************************)
EXTENDS SpendingProperties, TLAPS

-----------------------------------------------------------------------------
(* The inductive invariant. *)

\* The holder of the lease is the task inside the wake; its wake is the newest.
HolderIsInside ==
    /\ \A t \in Workers : at[t] \in WakeSteps <=> holder = t
    /\ holder # Nobody => wake # 0
    /\ wake \in {0, issued}

\* What is staged is what will be accounted; a cost is at hand only between the answer
\* and the commit.
CallsAreAccounted ==
    /\ budget_used = llm_calls /\ budget_used <= billed
    /\ \A t \in Workers :
          /\ at[t] = "commit_call" => staged[t] = cost[t]
          /\ at[t] \notin {"insert_llm_call", "commit_call"} => cost[t] = 0
          /\ at[t] # "commit_call" => staged[t] = 0
          /\ budget_used + cost[t] <= billed

\* Only one who passed the gate before the budget was spent enters late.
LateAreFew ==
    \A t \in Workers :
        /\ late[t] <= 2
        /\ late[t] # 0 => Spent /\ at[t] # "attempt_wake_acquire"
        /\ late[t] = 2 /\ at[t] \in WakeSteps => renewed[t]

\* The version that maintenance has read is still the newest when it inserts the next,
\* and no other projection is of its wake.
InMaintenance(t) ==
    \/ at[t] = "insert_projection"
    \/ at[t] \in {"chat", "insert_llm_call", "commit_call"} /\ call_type[t] = "maintenance"

VersionsAreCurrent ==
    /\ VersionsIncrease
    /\ \A i \in DOMAIN projections : projections[i].wake <= issued
    /\ \A t \in Workers :
          /\ InMaintenance(t) => version[t] = Len(projections)
          /\ at[t] \in WakeSteps \ {"insert_wake_summary", "check_drain"} =>
                \A i \in DOMAIN projections : projections[i].wake < wake
          /\ at[t] = "insert_wake_summary" =>
                \E i \in DOMAIN projections : projections[i].wake = wake

SpendingInv ==
    /\ SpendingTypeOK
    /\ HolderIsInside /\ CallsAreAccounted /\ LateAreFew /\ VersionsAreCurrent

LEMMA SpendingBegins == SpendingInit => SpendingInv
<1> SUFFICES ASSUME SpendingInit PROVE SpendingInv
  OBVIOUS
<1> USE SpendingAssumption DEF SpendingInit, LeaseInit, Each
<1>1. SpendingTypeOK
  BY DEF SpendingTypeOK
<1>2. HolderIsInside
  BY DEF HolderIsInside, WakeSteps
<1>3. CallsAreAccounted /\ LateAreFew
  BY DEF CallsAreAccounted, LateAreFew
<1>4. VersionsAreCurrent
  BY DEF VersionsAreCurrent, VersionsIncrease, InMaintenance, WakeSteps
<1> QED BY <1>1, <1>2, <1>3, <1>4 DEF SpendingInv

-----------------------------------------------------------------------------
(* Every step keeps the types. *)

LeaseTypes == holder \in Workers \union {Nobody} /\ wake \in Nat /\ issued \in Nat

MoneyTypes ==
    budget_limit \in Limits /\ budget_used \in Nat /\ llm_calls \in Nat /\ billed \in Nat

WrittenTypes == projections \in Seq([version : Nat, wake : Nat]) /\ summaries \subseteq Nat

TaskTypes ==
    /\ at \in [Workers -> WakeSteps \union {"idle", "attempt_wake_acquire"}]
    /\ call_type \in [Workers -> {"wake_loop", "maintenance"}]
    /\ rounds \in [Workers -> 0 .. MaxRounds]
    /\ attempt \in [Workers -> 0 .. 2]
    /\ cost \in [Workers -> Nat]
    /\ staged \in [Workers -> Nat]
    /\ version \in [Workers -> Nat]
    /\ renewed \in [Workers -> BOOLEAN]
    /\ late \in [Workers -> Nat]

LEMMA TypeParts == SpendingTypeOK <=> LeaseTypes /\ MoneyTypes /\ WrittenTypes /\ TaskTypes
BY DEF SpendingTypeOK, LeaseTypes, MoneyTypes, WrittenTypes, TaskTypes

\* A step leaves the lease alone, or is one of the lease's.
LEMMA StepsOfLease ==
    ASSUME SpendingNext
    PROVE  \/ UNCHANGED leaseVars
           \/ \E t \in Workers : Begin(t) \/ Renew(t) \/ Finish(t) \/ Vanish(t)
           \/ holder' = Nobody /\ UNCHANGED <<wake, issued>>
           \/ Reclaim
BY DEF SpendingNext, check_budget, BeginWake, Round, AttemptFails, Unparsable, Answered,
       InsertCall, CommitCall, run_maintenance, insert_projection, insert_wake_summary, Drain,
       Release, StatementFails, ServerCrashes, Sweep, SetBudgetLimit, ChatFails, Vanish

LEMMA LeaseKeeps == LeaseTypes /\ [SpendingNext]_spendingVars => LeaseTypes'
<1> SUFFICES ASSUME LeaseTypes, [SpendingNext]_spendingVars PROVE LeaseTypes'
  OBVIOUS
<1> USE DEF LeaseTypes
<1>1. CASE UNCHANGED leaseVars
  BY <1>1 DEF leaseVars
<1>2. ASSUME NEW t \in Workers, Begin(t) \/ Renew(t) \/ Finish(t) \/ Vanish(t)
      PROVE  LeaseTypes'
  BY <1>2 DEF Begin, Renew, Finish, Vanish, Issue
<1>3. CASE Reclaim
  BY <1>3 DEF Reclaim
<1>4. CASE SpendingNext
  BY <1>1, <1>2, <1>3, <1>4, StepsOfLease
<1>5. CASE UNCHANGED spendingVars
  BY <1>1, <1>5 DEF spendingVars
<1> QED BY <1>4, <1>5

LEMMA MoneyKeeps == MoneyTypes /\ TaskTypes /\ [SpendingNext]_spendingVars => MoneyTypes'
<1> SUFFICES ASSUME MoneyTypes, TaskTypes, [SpendingNext]_spendingVars PROVE MoneyTypes'
  OBVIOUS
<1> USE SpendingAssumption DEF MoneyTypes
<1>1. CASE UNCHANGED money
  BY <1>1 DEF money
<1>2. ASSUME NEW price \in Prices, Charge(price), UNCHANGED <<budget_limit, budget_used, llm_calls>>
      PROVE  MoneyTypes'
  BY <1>2 DEF Charge
<1>3. ASSUME NEW t \in Workers, CommitCall(t)
      PROVE  MoneyTypes'
  BY <1>3 DEF CommitCall, TaskTypes
<1>4. CASE SetBudgetLimit
  BY <1>4 DEF SetBudgetLimit
<1>5. ASSUME NEW t \in Workers, AttemptFails(t) \/ Unparsable(t) \/ Answered(t)
      PROVE  MoneyTypes'
  BY <1>2, <1>5 DEF AttemptFails, Unparsable, Answered
<1>6. ASSUME NEW t \in Workers,
             \/ check_budget(t) \/ BeginWake(t) \/ Round(t) \/ InsertCall(t)
             \/ run_maintenance(t) \/ insert_projection(t) \/ insert_wake_summary(t)
             \/ Drain(t) \/ Release(t) \/ StatementFails(t)
      PROVE  UNCHANGED money
  BY <1>6 DEF check_budget, BeginWake, Enter, Round, InsertCall, run_maintenance,
              insert_projection, insert_wake_summary, Drain, Release, StatementFails, money
<1>7. ServerCrashes \/ Sweep => UNCHANGED money
  BY DEF ServerCrashes, Sweep
<1>8. UNCHANGED spendingVars => UNCHANGED money
  BY DEF spendingVars
<1> QED BY <1>1, <1>3, <1>4, <1>5, <1>6, <1>7, <1>8 DEF SpendingNext

\* All but the two inserts of maintenance leave what it wrote alone.
LEMMA WrittenOrNot ==
    ASSUME [SpendingNext]_spendingVars
    PROVE  UNCHANGED written \/ \E t \in Workers : insert_projection(t) \/ insert_wake_summary(t)
BY DEF SpendingNext, check_budget, BeginWake, Enter, Round, AttemptFails, Unparsable, Answered,
       InsertCall, CommitCall, run_maintenance, Drain, Release, StatementFails, ServerCrashes, Sweep, SetBudgetLimit, spendingVars

LEMMA WrittenKeeps ==
    LeaseTypes /\ TaskTypes /\ WrittenTypes /\ [SpendingNext]_spendingVars => WrittenTypes'
<1> SUFFICES ASSUME LeaseTypes, TaskTypes, WrittenTypes, [SpendingNext]_spendingVars PROVE WrittenTypes'
  OBVIOUS
<1> USE DEF WrittenTypes, LeaseTypes
<1>1. CASE UNCHANGED written
  BY <1>1 DEF written
<1>2. ASSUME NEW t \in Workers, insert_projection(t) PROVE WrittenTypes'
  <2>1. [version |-> version[t] + 1, wake |-> wake] \in [version : Nat, wake : Nat]
    BY DEF TaskTypes
  <2> QED BY <1>2, <2>1 DEF insert_projection
<1>3. ASSUME NEW t \in Workers, insert_wake_summary(t) PROVE WrittenTypes'
  BY <1>3 DEF insert_wake_summary
<1> QED BY <1>1, <1>2, <1>3, WrittenOrNot

LEMMA LeaveKeepsTasks ==
    ASSUME TaskTypes, NEW t \in Workers, EndTask(t), UNCHANGED late
    PROVE  TaskTypes'
BY SpendingAssumption DEF TaskTypes, EndTask, GoTo, Set

LEMMA EnterKeepsTasks ==
    ASSUME TaskTypes, NEW t \in Workers, Enter(t), NEW b \in BOOLEAN, Set(renewed, t, b)
    PROVE  TaskTypes'
<1>1. /\ at' = [at EXCEPT ![t] = "round"] /\ call_type' = [call_type EXCEPT ![t] = "wake_loop"]
      /\ rounds' = [rounds EXCEPT ![t] = 0] /\ version' = [version EXCEPT ![t] = 0]
      /\ renewed' = [renewed EXCEPT ![t] = b] /\ UNCHANGED <<attempt, cost, staged>>
  BY DEF Enter, Set, GoTo
<1>2. late' \in [Workers -> Nat]
  BY DEF Enter, TaskTypes
<1>3. renewed' \in [Workers -> BOOLEAN]
  BY <1>1 DEF TaskTypes
<1>4. /\ at' \in [Workers -> WakeSteps \union {"idle", "attempt_wake_acquire"}]
      /\ call_type' \in [Workers -> {"wake_loop", "maintenance"}]
  BY <1>1 DEF TaskTypes, WakeSteps
<1>5. rounds' \in [Workers -> 0 .. MaxRounds] /\ version' \in [Workers -> Nat]
  BY <1>1, SpendingAssumption DEF TaskTypes
<1> QED BY <1>1, <1>2, <1>3, <1>4, <1>5 DEF TaskTypes

LEMMA ChatKeepsTasks ==
    ASSUME TaskTypes, NEW t \in Workers, AttemptFails(t) \/ Unparsable(t) \/ Answered(t)
    PROVE  TaskTypes'
<1> USE SpendingAssumption DEF TaskTypes, WakeSteps, GoTo, Set
<1>1. ASSUME ChatFails(t), UNCHANGED late PROVE TaskTypes'
  <2>1. CASE EndTask(t)
    BY <1>1, <2>1, LeaveKeepsTasks
  <2>2. CASE /\ GoTo(t, "run_maintenance") /\ Set(attempt, t, 0)
             /\ UNCHANGED <<call_type, rounds, cost, staged, version, renewed>>
    BY <1>1, <2>2
  <2> QED BY <1>1, <2>1, <2>2 DEF ChatFails
<1>2. CASE AttemptFails(t)
  <2>1. CASE ChatFails(t)
    BY <1>1, <1>2, <2>1 DEF AttemptFails
  <2>2. CASE /\ attempt[t] < 2
             /\ attempt' = [attempt EXCEPT ![t] = attempt[t] + 1]
             /\ UNCHANGED <<at, call_type, rounds, cost, staged, version, renewed>>
    <3>1. attempt[t] + 1 \in 0 .. 2
      BY <2>2
    <3> QED BY <1>2, <2>2, <3>1 DEF AttemptFails
  <2> QED BY <1>2, <2>1, <2>2 DEF AttemptFails
<1>3. CASE Unparsable(t)
  BY <1>1, <1>3 DEF Unparsable
<1>4. CASE Answered(t)
  BY <1>4 DEF Answered
<1> QED BY <1>2, <1>3, <1>4

LEMMA TasksKeep == TaskTypes /\ WrittenTypes /\ [SpendingNext]_spendingVars => TaskTypes'
<1> SUFFICES ASSUME TaskTypes, WrittenTypes, [SpendingNext]_spendingVars PROVE TaskTypes'
  OBVIOUS
<1>1. ASSUME NEW t \in Workers, BeginWake(t) \/ Drain(t) PROVE TaskTypes'
  <2>1. CASE UNCHANGED <<at, call, renewed, late>>
    BY <2>1 DEF TaskTypes, call
  <2>2. CASE GoTo(t, "idle") /\ UNCHANGED <<call, renewed, late>>
    BY <2>2 DEF TaskTypes, call, GoTo, Set
  <2>3. CASE \E b \in BOOLEAN : Enter(t) /\ Set(renewed, t, b)
    BY <2>3, EnterKeepsTasks
  <2> QED BY <1>1, <2>1, <2>2, <2>3 DEF BeginWake, Drain
<1>2. ASSUME NEW t \in Workers, AttemptFails(t) \/ Unparsable(t) \/ Answered(t) PROVE TaskTypes'
  BY <1>2, ChatKeepsTasks
<1>3. ASSUME NEW t \in Workers, Release(t) \/ StatementFails(t) PROVE TaskTypes'
  BY <1>3, LeaveKeepsTasks DEF Release, StatementFails
<1> USE SpendingAssumption DEF TaskTypes, WakeSteps, call, Set, GoTo
<1>4. ASSUME NEW t \in Workers, check_budget(t) PROVE TaskTypes'
  BY <1>4 DEF check_budget
<1>5. ASSUME NEW t \in Workers, Round(t) PROVE TaskTypes'
  BY <1>5 DEF Round, AskModel
<1>6. ASSUME NEW t \in Workers, InsertCall(t) PROVE TaskTypes'
  BY <1>6 DEF InsertCall
<1>7. ASSUME NEW t \in Workers, CommitCall(t) PROVE TaskTypes'
  BY <1>7 DEF CommitCall
<1>8. ASSUME NEW t \in Workers, run_maintenance(t) PROVE TaskTypes'
  <2>1. latest_projection \in Nat
    <3>1. CASE projections = << >>
      BY <3>1 DEF latest_projection
    <3>2. CASE projections # << >>
      <4>1. Len(projections) \in DOMAIN projections
        BY <3>2 DEF WrittenTypes
      <4> DEFINE Rows == [version : Nat, wake : Nat]
      <4>2. projections \in Seq(Rows)
        BY DEF WrittenTypes
      <4>3. \A x \in Rows : x.version \in Nat
        OBVIOUS
      <4> HIDE DEF Rows
      <4>4. projections[Len(projections)] \in Rows
        BY <4>1, <4>2
      <4> QED BY <3>2, <4>3, <4>4 DEF latest_projection
    <3> QED BY <3>1, <3>2
  <2> QED BY <1>8, <2>1 DEF run_maintenance, AskModel
<1>9. ASSUME NEW t \in Workers, insert_projection(t) \/ insert_wake_summary(t) PROVE TaskTypes'
  BY <1>9 DEF insert_projection, insert_wake_summary
<1>10. CASE ServerCrashes
  BY <1>10 DEF ServerCrashes, Each
<1>11. CASE Sweep
  BY <1>11 DEF Sweep
<1>12. CASE SetBudgetLimit
  BY <1>12 DEF SetBudgetLimit, Each
<1>13. CASE UNCHANGED spendingVars
  BY <1>13 DEF spendingVars
<1> QED BY <1>1, <1>2, <1>3, <1>4, <1>5, <1>6, <1>7, <1>8, <1>9, <1>10, <1>11, <1>12, <1>13
        DEF SpendingNext

LEMMA TypesKeep == SpendingTypeOK /\ [SpendingNext]_spendingVars => SpendingTypeOK'
<1>1. LeaseTypes' /\ MoneyTypes' /\ WrittenTypes' /\ TaskTypes' => SpendingTypeOK'
  BY TypeParts, PTL
<1> QED BY <1>1, TypeParts, LeaseKeeps, MoneyKeeps, WrittenKeeps, TasksKeep

-----------------------------------------------------------------------------
(* Every step keeps the rest. *)

LEMMA HolderKeeps ==
    SpendingTypeOK /\ HolderIsInside /\ [SpendingNext]_spendingVars => HolderIsInside'
<1> SUFFICES ASSUME SpendingTypeOK, HolderIsInside, [SpendingNext]_spendingVars PROVE HolderIsInside'
  OBVIOUS
<1> USE TypeParts, SpendingAssumption DEF HolderIsInside, LeaseTypes
<1>1. ASSUME NEW t \in Workers, NEW step \in WakeSteps, at[t] \in WakeSteps, GoTo(t, step),
             UNCHANGED leaseVars
      PROVE  HolderIsInside'
  BY <1>1 DEF GoTo, Set, TaskTypes, leaseVars
<1>2. ASSUME NEW t \in Workers, EndTask(t), Vanish(t)
      PROVE  HolderIsInside'
  BY <1>2 DEF EndTask, GoTo, Set, TaskTypes, Vanish, WakeSteps
<1>3. ASSUME NEW t \in Workers, check_budget(t) PROVE HolderIsInside'
  BY <1>3 DEF check_budget, GoTo, Set, TaskTypes, leaseVars, WakeSteps
<1>4. ASSUME NEW t \in Workers, BeginWake(t) PROVE HolderIsInside'
  BY <1>4 DEF BeginWake, Begin, Issue, Enter, GoTo, Set, TaskTypes, leaseVars, WakeSteps
<1>5. ASSUME NEW t \in Workers, Round(t) PROVE HolderIsInside'
  BY <1>1, <1>5 DEF Round, AskModel, WakeSteps
<1>6. ASSUME NEW t \in Workers, AttemptFails(t) \/ Unparsable(t) PROVE HolderIsInside'
  <2>1. at[t] \in WakeSteps /\ "run_maintenance" \in WakeSteps
    BY <1>6 DEF AttemptFails, Unparsable, WakeSteps
  <2>2. CASE UNCHANGED <<leaseVars, at>>
    BY <2>2 DEF leaseVars
  <2>3. CASE ChatFails(t)
    BY <1>1, <1>2, <2>1, <2>3 DEF ChatFails
  <2> QED BY <1>6, <2>2, <2>3 DEF AttemptFails, Unparsable
<1>7. ASSUME NEW t \in Workers, Answered(t) PROVE HolderIsInside'
  BY <1>1, <1>7 DEF Answered, WakeSteps
<1>8. ASSUME NEW t \in Workers, InsertCall(t) \/ run_maintenance(t) PROVE HolderIsInside'
  BY <1>1, <1>8 DEF InsertCall, run_maintenance, AskModel, WakeSteps
<1>9. ASSUME NEW t \in Workers, CommitCall(t) PROVE HolderIsInside'
  BY <1>1, <1>9 DEF CommitCall, WakeSteps
<1>10. ASSUME NEW t \in Workers, insert_projection(t) \/ insert_wake_summary(t)
       PROVE  HolderIsInside'
  BY <1>1, <1>10 DEF insert_projection, insert_wake_summary, WakeSteps
<1>11. ASSUME NEW t \in Workers, Drain(t) PROVE HolderIsInside'
  BY <1>11 DEF Drain, Renew, Issue, Enter, GoTo, Set, TaskTypes, WakeSteps
<1>12. ASSUME NEW t \in Workers, Release(t) PROVE HolderIsInside'
  BY <1>12 DEF Release, Finish, EndTask, GoTo, Set, TaskTypes, WakeSteps
<1>13. ASSUME NEW t \in Workers, StatementFails(t) PROVE HolderIsInside'
  <2>1. CASE holder = t
    BY <1>2, <1>13, <2>1 DEF StatementFails
  <2>2. CASE holder # t
    BY <1>13, <2>2 DEF StatementFails, EndTask, GoTo, Set, TaskTypes, WakeSteps, leaseVars
  <2> QED BY <2>1, <2>2
<1>14. CASE ServerCrashes
  BY <1>14 DEF ServerCrashes, Each, Vanish, leaseVars, WakeSteps
<1>15. CASE Sweep
  BY <1>15 DEF Sweep, Reclaim
<1>16. CASE SetBudgetLimit
  BY <1>16 DEF SetBudgetLimit, leaseVars
<1>17. CASE UNCHANGED spendingVars
  BY <1>17 DEF spendingVars, leaseVars
<1> QED BY <1>3, <1>4, <1>5, <1>6, <1>7, <1>8, <1>9, <1>10, <1>11, <1>12, <1>13, <1>14, <1>15,
           <1>16, <1>17 DEF SpendingNext

LEMMA AccountsKeep ==
    SpendingTypeOK /\ HolderIsInside /\ CallsAreAccounted /\ [SpendingNext]_spendingVars => CallsAreAccounted'
<1> SUFFICES ASSUME SpendingTypeOK, HolderIsInside, CallsAreAccounted, [SpendingNext]_spendingVars
             PROVE  CallsAreAccounted'
  OBVIOUS
<1> USE TypeParts, SpendingAssumption DEF CallsAreAccounted
<1>1. ASSUME UNCHANGED <<budget_used, llm_calls, cost, staged>>, billed' \in Nat, billed' >= billed,
             \A t \in Workers :
                \/ at'[t] = at[t]
                \/ /\ at[t] \notin {"insert_llm_call", "commit_call"}
                   /\ at'[t] \notin {"insert_llm_call", "commit_call"}
      PROVE  CallsAreAccounted'
  <2>1. \A t \in Workers : budget_used' + cost'[t] <= billed'
    BY <1>1 DEF MoneyTypes, TaskTypes
  <2>2. \A t \in Workers :
           /\ at'[t] = "commit_call" => staged'[t] = cost'[t]
           /\ at'[t] \notin {"insert_llm_call", "commit_call"} => cost'[t] = 0
           /\ at'[t] # "commit_call" => staged'[t] = 0
    BY <1>1
  <2>3. budget_used' = llm_calls' /\ budget_used' <= billed'
    BY <1>1 DEF MoneyTypes
  <2> QED BY <2>1, <2>2, <2>3
<1>2. ASSUME NEW t \in Workers, EndTask(t), UNCHANGED <<budget_used, llm_calls>>,
             billed' \in Nat, billed' >= billed
      PROVE  CallsAreAccounted'
  <2>1. /\ at'[t] = "idle" /\ cost'[t] = 0 /\ staged'[t] = 0
        /\ \A u \in Workers \ {t} : at'[u] = at[u] /\ cost'[u] = cost[u] /\ staged'[u] = staged[u]
    BY <1>2 DEF EndTask, GoTo, Set, TaskTypes
  <2>2. budget_used' \in Nat /\ budget_used' <= billed
    BY <1>2 DEF MoneyTypes, TaskTypes
  <2>3. \A u \in Workers \ {t} : budget_used' + cost'[u] <= billed'
    BY <1>2, <2>1 DEF MoneyTypes, TaskTypes
  <2>4. budget_used' + cost'[t] <= billed'
    BY <1>2, <2>1, <2>2 DEF MoneyTypes
  <2>5. budget_used' = llm_calls' /\ budget_used' <= billed'
    BY <1>2, <2>2 DEF MoneyTypes
  <2> QED BY <2>1, <2>3, <2>4, <2>5
<1>3. ASSUME NEW t \in Workers, check_budget(t) PROVE CallsAreAccounted'
  BY <1>1, <1>3 DEF check_budget, GoTo, Set, money, call, MoneyTypes, TaskTypes
<1>4. ASSUME NEW t \in Workers, BeginWake(t) PROVE CallsAreAccounted'
  BY <1>1, <1>4 DEF BeginWake, Enter, GoTo, Set, money, call, MoneyTypes, TaskTypes
<1>5. ASSUME NEW t \in Workers, Round(t) \/ run_maintenance(t) PROVE CallsAreAccounted'
  BY <1>1, <1>5 DEF Round, run_maintenance, AskModel, GoTo, Set, money, MoneyTypes, TaskTypes
<1>6. ASSUME NEW t \in Workers, AttemptFails(t) \/ Unparsable(t) PROVE CallsAreAccounted'
  <2>1. /\ at[t] = "chat" /\ UNCHANGED <<budget_used, llm_calls>>
        /\ billed \in Nat /\ billed' \in Nat /\ billed' >= billed
    <3>1. PICK price \in Prices : billed' = billed + price
      BY <1>6 DEF AttemptFails, Unparsable, Charge
    <3>2. price \in Nat
      OBVIOUS
    <3> QED BY <1>6, <3>1, <3>2 DEF AttemptFails, Unparsable, MoneyTypes
  <2>2. CASE UNCHANGED <<at, cost, staged>>
    <3>1. UNCHANGED <<budget_used, llm_calls, cost, staged>>
      BY <2>1, <2>2
    <3>2. \A u \in Workers : at'[u] = at[u]
      BY <2>2
    <3> QED BY <1>1, <2>1, <3>1, <3>2
  <2>3. CASE ChatFails(t)
    <3>1. CASE GoTo(t, "run_maintenance") /\ UNCHANGED <<cost, staged>>
      <4>1. UNCHANGED <<budget_used, llm_calls, cost, staged>>
        BY <2>1, <3>1
      <4>2. at'[t] = "run_maintenance" /\ \A u \in Workers \ {t} : at'[u] = at[u]
        BY <3>1 DEF GoTo, Set, TaskTypes
      <4> QED BY <1>1, <2>1, <4>1, <4>2
    <3> QED BY <1>2, <2>1, <2>3, <3>1 DEF ChatFails
  <2> QED BY <1>6, <2>2, <2>3 DEF AttemptFails, Unparsable
<1>7. ASSUME NEW t \in Workers, Answered(t) PROVE CallsAreAccounted'
  <2>1. PICK price \in Prices :
          /\ billed' = billed + price
          /\ \/ \E known \in {0, price} : Set(cost, t, known) /\ GoTo(t, "insert_llm_call")
             \/ GoTo(t, "run_maintenance") /\ UNCHANGED cost
    BY <1>7 DEF Answered, Charge
  <2>2. /\ price \in Nat /\ at[t] = "chat" /\ cost[t] = 0
        /\ UNCHANGED <<budget_used, llm_calls, staged>>
    BY <1>7, <2>1 DEF Answered
  <2>3. CASE GoTo(t, "run_maintenance") /\ UNCHANGED cost
    BY <1>1, <2>1, <2>2, <2>3 DEF GoTo, Set, MoneyTypes, TaskTypes
  <2>4. ASSUME NEW known \in {0, price}, Set(cost, t, known), GoTo(t, "insert_llm_call")
        PROVE  CallsAreAccounted'
    BY <2>1, <2>2, <2>4 DEF GoTo, Set, MoneyTypes, TaskTypes
  <2> QED BY <2>1, <2>3, <2>4
<1>8. ASSUME NEW t \in Workers, InsertCall(t) PROVE CallsAreAccounted'
  BY <1>8 DEF InsertCall, GoTo, Set, money, MoneyTypes, TaskTypes
<1>9. ASSUME NEW t \in Workers, CommitCall(t) PROVE CallsAreAccounted'
  <2>1. \A u \in Workers : u # t => cost[u] = 0
    BY <1>9 DEF CommitCall, HolderIsInside, WakeSteps
  <2>2. PICK step \in {"round", "run_maintenance", "insert_projection", "check_drain"} : GoTo(t, step)
    BY <1>9 DEF CommitCall
  <2> QED BY <1>9, <2>1, <2>2 DEF CommitCall, GoTo, Set, MoneyTypes, TaskTypes
<1>10. ASSUME NEW t \in Workers, insert_projection(t) \/ insert_wake_summary(t)
       PROVE  CallsAreAccounted'
  BY <1>1, <1>10
     DEF insert_projection, insert_wake_summary, GoTo, Set, money, call, MoneyTypes, TaskTypes
<1>11. ASSUME NEW t \in Workers, Drain(t) PROVE CallsAreAccounted'
  BY <1>1, <1>11 DEF Drain, Enter, GoTo, Set, money, MoneyTypes, TaskTypes
<1>12. ASSUME NEW t \in Workers, Release(t) \/ StatementFails(t) PROVE CallsAreAccounted'
  BY <1>2, <1>12 DEF Release, StatementFails, money, MoneyTypes
<1>13. CASE ServerCrashes
  BY <1>13 DEF ServerCrashes, Each, money, MoneyTypes, TaskTypes
<1>14. CASE Sweep
  BY <1>1, <1>14 DEF Sweep, money, call, MoneyTypes
<1>15. CASE SetBudgetLimit
  BY <1>1, <1>15 DEF SetBudgetLimit, call, MoneyTypes
<1>16. CASE UNCHANGED spendingVars
  BY <1>1, <1>16 DEF spendingVars, money, call, MoneyTypes
<1> QED BY <1>3, <1>4, <1>5, <1>6, <1>7, <1>8, <1>9, <1>10, <1>11, <1>12, <1>13, <1>14, <1>15,
           <1>16 DEF SpendingNext

LEMMA SpentStays ==
    ASSUME MoneyTypes, UNCHANGED budget_limit, budget_used' \in Nat, budget_used' >= budget_used
    PROVE  Spent => Spent'
BY SpendingAssumption DEF MoneyTypes, Spent

LEMMA LateKeeps ==
    SpendingTypeOK /\ LateAreFew /\ [SpendingNext]_spendingVars => LateAreFew'
<1> SUFFICES ASSUME SpendingTypeOK, LateAreFew, [SpendingNext]_spendingVars PROVE LateAreFew'
  OBVIOUS
<1> USE TypeParts, SpendingAssumption DEF LateAreFew
<1>1. ASSUME NEW t \in Workers, NEW step \in WakeSteps \union {"idle"},
             GoTo(t, step), at[t] \in WakeSteps \/ step = "idle",
             \/ UNCHANGED renewed
             \/ step = "idle" /\ Set(renewed, t, FALSE),
             UNCHANGED <<budget_limit, late>>, budget_used' \in Nat, budget_used' >= budget_used
      PROVE  LateAreFew'
  <2>1. Spent => Spent'
    BY <1>1, SpentStays
  <2>2. /\ \A u \in Workers \ {t} : at'[u] = at[u] /\ renewed'[u] = renewed[u]
        /\ at'[t] = step /\ (step # "idle" => renewed'[t] = renewed[t])
    BY <1>1 DEF GoTo, Set, TaskTypes
  <2>3. "idle" \notin WakeSteps /\ step # "attempt_wake_acquire"
    BY DEF WakeSteps
  <2> QED BY <1>1, <2>1, <2>2, <2>3
<1>2. ASSUME NEW t \in Workers, Enter(t), NEW b \in BOOLEAN, Set(renewed, t, b),
             late[t] = 0 \/ (late[t] = 1 /\ b)
      PROVE  LateAreFew'
  <2>1. Spent' = Spent
    BY <1>2 DEF Enter, money, Spent
  <2>2. /\ \A u \in Workers \ {t} : at'[u] = at[u] /\ renewed'[u] = renewed[u] /\ late'[u] = late[u]
        /\ at'[t] = "round" /\ renewed'[t] = b
        /\ late'[t] = IF Spent THEN late[t] + 1 ELSE late[t]
    BY <1>2 DEF Enter, GoTo, Set, TaskTypes
  <2> QED BY <1>2, <2>1, <2>2 DEF TaskTypes
<1>3. ASSUME NEW t \in Workers, check_budget(t) PROVE LateAreFew'
  BY <1>3 DEF check_budget, Exceeded, Spent, GoTo, Set, money, call, TaskTypes, WakeSteps
<1>4. ASSUME NEW t \in Workers, BeginWake(t) PROVE LateAreFew'
  <2>1. late[t] = 0
    BY <1>4 DEF BeginWake
  <2>2. CASE Enter(t) /\ Set(renewed, t, FALSE)
    BY <1>2, <2>1, <2>2
  <2>3. CASE GoTo(t, "idle") /\ UNCHANGED <<money, renewed, late>>
    BY <1>1, <2>3 DEF money, MoneyTypes
  <2> QED BY <1>4, <2>2, <2>3 DEF BeginWake
<1>5. ASSUME NEW t \in Workers, Round(t) \/ run_maintenance(t) PROVE LateAreFew'
  <2>1. PICK step \in {"chat", "run_maintenance"} : GoTo(t, step)
    BY <1>5 DEF Round, run_maintenance, AskModel
  <2>2. at[t] \in WakeSteps /\ UNCHANGED <<budget_limit, budget_used, renewed, late>>
    BY <1>5 DEF Round, run_maintenance, money, WakeSteps
  <2> QED BY <1>1, <2>1, <2>2 DEF MoneyTypes, WakeSteps
<1>6. ASSUME NEW t \in Workers, EndTask(t), UNCHANGED <<budget_limit, budget_used, late>>
      PROVE  LateAreFew'
  <2>1. GoTo(t, "idle") /\ Set(renewed, t, FALSE)
    BY <1>6 DEF EndTask
  <2>2. budget_used' \in Nat /\ budget_used' >= budget_used
    BY <1>6 DEF MoneyTypes
  <2> QED BY <1>1, <1>6, <2>1, <2>2
<1>7. ASSUME NEW t \in Workers, AttemptFails(t) \/ Unparsable(t) PROVE LateAreFew'
  <2>1. at[t] \in WakeSteps /\ UNCHANGED <<budget_limit, budget_used, late>>
    BY <1>7 DEF AttemptFails, Unparsable, WakeSteps
  <2>2. CASE UNCHANGED <<at, renewed>>
    BY <2>1, <2>2 DEF Spent
  <2>3. CASE ChatFails(t)
    <3>1. CASE GoTo(t, "run_maintenance") /\ UNCHANGED renewed
      BY <1>1, <2>1, <3>1 DEF MoneyTypes, WakeSteps
    <3> QED BY <1>6, <2>1, <2>3, <3>1 DEF ChatFails
  <2> QED BY <1>7, <2>2, <2>3 DEF AttemptFails, Unparsable
<1>8. ASSUME NEW t \in Workers, Answered(t) \/ InsertCall(t) PROVE LateAreFew'
  <2>1. PICK step \in {"insert_llm_call", "run_maintenance", "commit_call"} : GoTo(t, step)
    BY <1>8 DEF Answered, InsertCall
  <2>2. at[t] \in WakeSteps /\ UNCHANGED <<budget_limit, budget_used, renewed, late>>
    BY <1>8 DEF Answered, InsertCall, money, WakeSteps
  <2> QED BY <1>1, <2>1, <2>2 DEF MoneyTypes, WakeSteps
<1>9. ASSUME NEW t \in Workers, CommitCall(t) PROVE LateAreFew'
  <2>1. PICK step \in {"round", "run_maintenance", "insert_projection", "check_drain"} : GoTo(t, step)
    BY <1>9 DEF CommitCall
  <2>2. at[t] \in WakeSteps /\ UNCHANGED <<budget_limit, renewed, late>>
    BY <1>9 DEF CommitCall, WakeSteps
  <2>3. budget_used' \in Nat /\ budget_used' >= budget_used
    BY <1>9 DEF CommitCall, MoneyTypes, TaskTypes
  <2> QED BY <1>1, <2>1, <2>2, <2>3 DEF WakeSteps
<1>10. ASSUME NEW t \in Workers, insert_projection(t) \/ insert_wake_summary(t)
       PROVE  LateAreFew'
  <2>1. PICK step \in {"insert_wake_summary", "check_drain"} : GoTo(t, step)
    BY <1>10 DEF insert_projection, insert_wake_summary
  <2>2. at[t] \in WakeSteps /\ UNCHANGED <<budget_limit, budget_used, renewed, late>>
    BY <1>10 DEF insert_projection, insert_wake_summary, money, WakeSteps
  <2> QED BY <1>1, <2>1, <2>2 DEF MoneyTypes, WakeSteps
<1>11. ASSUME NEW t \in Workers, Drain(t) PROVE LateAreFew'
  <2>1. late[t] = 0 \/ late[t] = 1
    BY <1>11 DEF Drain, WakeSteps, TaskTypes
  <2> QED BY <1>2, <1>11, <2>1 DEF Drain
<1>12. ASSUME NEW t \in Workers, Release(t) \/ StatementFails(t) PROVE LateAreFew'
  BY <1>6, <1>12 DEF Release, StatementFails, money
<1>13. CASE ServerCrashes
  <2>1. /\ \A t \in Workers : at'[t] = "idle" /\ late'[t] = late[t]
        /\ Spent' = Spent
    BY <1>13 DEF ServerCrashes, Each, money, Spent
  <2> QED BY <2>1 DEF WakeSteps
<1>14. CASE Sweep \/ UNCHANGED spendingVars
  BY <1>14 DEF Sweep, spendingVars, money, Spent
<1>15. CASE SetBudgetLimit
  <2>1. UNCHANGED <<at, renewed>> /\ late' = IF Spent' THEN late ELSE Each(0)
    BY <1>15 DEF SetBudgetLimit
  <2>2. CASE Spent'
    BY <2>1, <2>2
  <2>3. CASE ~Spent'
    BY <2>1, <2>3 DEF Each
  <2> QED BY <2>2, <2>3
<1> QED BY <1>3, <1>4, <1>5, <1>7, <1>8, <1>9, <1>10, <1>11, <1>12, <1>13, <1>14, <1>15 DEF SpendingNext

LEMMA NewestIsLast ==
    ASSUME WrittenTypes, VersionsIncrease
    PROVE  latest_projection = Len(projections)
<1>1. Len(projections) \in Nat /\ DOMAIN projections = 1 .. Len(projections)
  BY DEF WrittenTypes
<1>2. CASE projections = << >>
  BY <1>2 DEF latest_projection
<1>3. CASE projections # << >>
  <2>1. Len(projections) \in DOMAIN projections
    BY <1>1, <1>3 DEF WrittenTypes
  <2> QED BY <1>3, <2>1 DEF latest_projection, VersionsIncrease
<1> QED BY <1>2, <1>3

\* A step that writes nothing, of a task whose next statement needs no more than its
\* last one.
LEMMA MoveKeepsVersions ==
    ASSUME VersionsAreCurrent, TaskTypes, NEW t \in Workers, UNCHANGED <<written, wake, issued>>,
           \A u \in Workers \ {t} :
              at'[u] = at[u] /\ call_type'[u] = call_type[u] /\ version'[u] = version[u],
           InMaintenance(t)' => version'[t] = Len(projections),
           at'[t] # "insert_wake_summary",
           at'[t] \in WakeSteps \ {"check_drain"} =>
              at[t] \in WakeSteps \ {"insert_wake_summary", "check_drain"}
    PROVE  VersionsAreCurrent'
<1>1. UNCHANGED <<projections, summaries>>
  BY DEF written
<1>2. VersionsIncrease' /\ \A i \in DOMAIN projections' : projections'[i].wake <= issued'
  BY <1>1 DEF VersionsAreCurrent, VersionsIncrease
<1>3. \A u \in Workers : InMaintenance(u)' => version'[u] = Len(projections')
  BY <1>1 DEF VersionsAreCurrent, InMaintenance
<1>4. \A u \in Workers :
         /\ at'[u] \in WakeSteps \ {"insert_wake_summary", "check_drain"} =>
               \A i \in DOMAIN projections' : projections'[i].wake < wake'
         /\ at'[u] = "insert_wake_summary" =>
               \E i \in DOMAIN projections' : projections'[i].wake = wake'
  BY <1>1 DEF VersionsAreCurrent
<1> QED BY <1>2, <1>3, <1>4 DEF VersionsAreCurrent

\* A new wake is later than all there were.
LEMMA IssueKeepsVersions ==
    ASSUME VersionsAreCurrent, SpendingTypeOK, HolderIsInside, NEW t \in Workers,
           Issue, Enter(t), holder = t \/ holder = Nobody
    PROVE  VersionsAreCurrent'
<1>1. /\ wake' = issued + 1 /\ issued' = issued + 1 /\ issued \in Nat
      /\ UNCHANGED <<projections, summaries>>
      /\ WrittenTypes /\ TaskTypes
  BY TypeParts DEF Issue, Enter, written, LeaseTypes
<1>2. \A i \in DOMAIN projections : projections[i].wake \in Nat
  <2> DEFINE Rows == [version : Nat, wake : Nat]
  <2>1. projections \in Seq(Rows) /\ \A x \in Rows : x.wake \in Nat
    BY <1>1 DEF WrittenTypes
  <2> HIDE DEF Rows
  <2>2. \A i \in DOMAIN projections : projections[i] \in Rows
    BY <2>1
  <2> QED BY <2>1, <2>2
<1>3. \A u \in Workers : at'[u] \in WakeSteps => u = t
  BY <1>1, SpendingAssumption DEF HolderIsInside, Enter, GoTo, Set, TaskTypes
<1>4. at'[t] = "round"
  BY <1>1 DEF Enter, GoTo, Set, TaskTypes
<1>5. \A u \in Workers : ~InMaintenance(u)'
  BY <1>3, <1>4 DEF InMaintenance, WakeSteps
<1>6. VersionsIncrease'
  BY <1>1 DEF VersionsAreCurrent, VersionsIncrease
<1>7. \A i \in DOMAIN projections' : projections'[i].wake <= issued' /\ projections'[i].wake < wake'
  BY <1>1, <1>2 DEF VersionsAreCurrent
<1> QED BY <1>3, <1>4, <1>5, <1>6, <1>7 DEF VersionsAreCurrent, WakeSteps

LEMMA InsertKeepsVersions ==
    ASSUME VersionsAreCurrent, SpendingTypeOK, HolderIsInside, NEW t \in Workers,
           insert_projection(t)
    PROVE  VersionsAreCurrent'
<1> DEFINE new == [version |-> version[t] + 1, wake |-> wake]
           n == Len(projections)
<1>1. /\ WrittenTypes /\ TaskTypes /\ wake \in Nat /\ n \in Nat /\ version[t] = n
      /\ at[t] = "insert_projection" /\ UNCHANGED <<summaries, wake, issued>>
      /\ at' = [at EXCEPT ![t] = "insert_wake_summary"]
      /\ projections' = Append(projections, new)
  BY TypeParts DEF insert_projection, VersionsAreCurrent, InMaintenance, leaseVars, GoTo, Set,
                   LeaseTypes, WrittenTypes
<1>2. /\ DOMAIN projections = 1 .. n /\ DOMAIN projections' = 1 .. n + 1
      /\ projections'[n + 1].version = n + 1 /\ projections'[n + 1].wake = wake
      /\ \A i \in 1 .. n : projections'[i] = projections[i]
  BY <1>1 DEF WrittenTypes
<1>3. \A u \in Workers : at'[u] \in WakeSteps => u = t
  BY <1>1, SpendingAssumption DEF HolderIsInside, TaskTypes, WakeSteps
<1>4. \A u \in Workers : ~InMaintenance(u)'
  BY <1>1, <1>3 DEF InMaintenance, WakeSteps, TaskTypes
<1>5. wake <= issued /\ \A i \in 1 .. n : projections[i].wake < wake
  BY <1>1, <1>2, TypeParts DEF HolderIsInside, LeaseTypes, VersionsAreCurrent, WakeSteps
<1>6. VersionsIncrease'
  <2>1. \A i \in DOMAIN projections' : projections'[i].version = i
    BY <1>2 DEF VersionsAreCurrent, VersionsIncrease
  <2>2. \A i, j \in DOMAIN projections' : i < j => projections'[i].wake < projections'[j].wake
    <3> SUFFICES ASSUME NEW i \in 1 .. n + 1, NEW j \in 1 .. n + 1, i < j
                 PROVE  projections'[i].wake < projections'[j].wake
      BY <1>2
    <3>1. CASE j = n + 1
      <4>1. i \in 1 .. n
        BY <1>1, <3>1
      <4>2. projections'[i].wake = projections[i].wake /\ projections[i].wake < wake
        BY <1>2, <1>5, <4>1
      <4>3. projections'[j].wake = wake
        BY <1>2, <3>1
      <4> QED BY <4>2, <4>3
    <3>2. CASE j # n + 1
      <4>1. i \in 1 .. n /\ j \in 1 .. n
        <5>1. n \in Nat
          BY <1>1
        <5> HIDE DEF n
        <5> QED BY <5>1, <3>2
      <4>2. i \in DOMAIN projections /\ j \in DOMAIN projections
        BY <1>2, <4>1
      <4>3. projections[i].wake < projections[j].wake
        BY <4>2 DEF VersionsAreCurrent, VersionsIncrease
      <4>4. projections'[i] = projections[i] /\ projections'[j] = projections[j]
        BY <1>2, <4>1
      <4> QED BY <4>3, <4>4
    <3> QED BY <3>1, <3>2
  <2>3. \A w \in summaries' : \E i \in DOMAIN projections' : projections'[i].wake = w
    BY <1>1, <1>2 DEF VersionsAreCurrent, VersionsIncrease
  <2> QED BY <2>1, <2>2, <2>3 DEF VersionsIncrease
<1>7. \A i \in DOMAIN projections' : projections'[i].wake <= issued'
  <2>1. \A i \in 1 .. n : projections'[i].wake <= issued'
    BY <1>1, <1>2 DEF VersionsAreCurrent
  <2>2. projections'[n + 1].wake <= issued'
    BY <1>1, <1>2, <1>5
  <2> QED BY <1>1, <1>2, <2>1, <2>2
<1>8. n + 1 \in DOMAIN projections' /\ projections'[n + 1].wake = wake'
  BY <1>1, <1>2
<1>9. \A u \in Workers :
         at'[u] \notin WakeSteps \ {"insert_wake_summary", "check_drain"}
  BY <1>1, <1>3 DEF TaskTypes
<1> HIDE DEF new, n
<1> QED BY <1>4, <1>6, <1>7, <1>8, <1>9 DEF VersionsAreCurrent

LEMMA VersionsKeep ==
    SpendingTypeOK /\ HolderIsInside /\ VersionsAreCurrent /\ [SpendingNext]_spendingVars => VersionsAreCurrent'
<1> SUFFICES ASSUME SpendingTypeOK, HolderIsInside, VersionsAreCurrent, [SpendingNext]_spendingVars
             PROVE  VersionsAreCurrent'
  OBVIOUS
<1> USE TypeParts, SpendingAssumption
<1>1. ASSUME UNCHANGED <<written, issued, wake, at, call>> PROVE VersionsAreCurrent'
  BY <1>1 DEF written, call, VersionsAreCurrent, VersionsIncrease, InMaintenance
<1>2. ASSUME NEW t \in Workers, EndTask(t), UNCHANGED <<written, issued>>,
             UNCHANGED wake \/ at[t] \in WakeSteps
      PROVE  VersionsAreCurrent'
  <2>1. at'[t] = "idle" /\ \A u \in Workers : at'[u] \in WakeSteps => at[u] \in WakeSteps /\ u # t
    BY <1>2 DEF EndTask, GoTo, Set, TaskTypes, WakeSteps
  <2>2. CASE UNCHANGED wake
    BY <1>2, <2>1, <2>2, MoveKeepsVersions DEF EndTask, GoTo, Set, TaskTypes, InMaintenance, WakeSteps
  <2>3. CASE at[t] \in WakeSteps
    <3>1. \A u \in Workers : at'[u] \notin WakeSteps
      BY <2>1, <2>3 DEF HolderIsInside
    <3>2. \A u \in Workers : ~InMaintenance(u)' /\ at'[u] # "insert_wake_summary"
      BY <3>1 DEF InMaintenance, WakeSteps
    <3> QED BY <1>2, <3>1, <3>2 DEF written, VersionsAreCurrent, VersionsIncrease
  <2> QED BY <1>2, <2>2, <2>3
<1>3. ASSUME NEW t \in Workers, NEW step \in WakeSteps \union {"attempt_wake_acquire"},
             GoTo(t, step), UNCHANGED <<written, wake, issued, version>>,
             step \notin {"insert_projection", "insert_wake_summary"},
             step \in WakeSteps \ {"check_drain"} =>
                at[t] \in WakeSteps \ {"insert_wake_summary", "check_drain"},
             UNCHANGED call_type \/ Set(call_type, t, "wake_loop"),
             step \in {"chat", "insert_llm_call", "commit_call"} /\ call_type'[t] = "maintenance"
                => InMaintenance(t)
      PROVE  VersionsAreCurrent'
  <2>1. /\ at'[t] = step /\ version'[t] = version[t]
        /\ \A u \in Workers \ {t} :
              at'[u] = at[u] /\ call_type'[u] = call_type[u] /\ version'[u] = version[u]
    BY <1>3 DEF GoTo, Set, TaskTypes
  <2>2. InMaintenance(t)' => version'[t] = Len(projections)
    BY <1>3, <2>1 DEF InMaintenance, VersionsAreCurrent
  <2> QED BY <1>3, <2>1, <2>2, MoveKeepsVersions
<1>4. ASSUME NEW t \in Workers, check_budget(t) PROVE VersionsAreCurrent'
  BY <1>3, <1>4 DEF check_budget, leaseVars, call, WakeSteps
<1>5. ASSUME NEW t \in Workers, BeginWake(t) PROVE VersionsAreCurrent'
  <2>1. CASE Begin(t) /\ Enter(t)
    BY <2>1, IssueKeepsVersions DEF Begin, HolderIsInside
  <2>2. CASE GoTo(t, "idle") /\ UNCHANGED <<leaseVars, written, call>>
    BY <2>2, MoveKeepsVersions
       DEF GoTo, Set, leaseVars, call, TaskTypes, InMaintenance, WakeSteps
  <2> QED BY <1>5, <2>1, <2>2 DEF BeginWake
<1>6. ASSUME NEW t \in Workers, Round(t) PROVE VersionsAreCurrent'
  <2>1. /\ at[t] \in WakeSteps \ {"insert_wake_summary", "check_drain"}
        /\ UNCHANGED <<written, wake, issued, version>>
    BY <1>6 DEF Round, leaseVars, WakeSteps
  <2>2. CASE GoTo(t, "chat") /\ Set(call_type, t, "wake_loop")
    <3>1. call_type'[t] = "wake_loop"
      BY <2>2 DEF Set, TaskTypes
    <3> QED BY <1>3, <2>1, <2>2, <3>1 DEF WakeSteps
  <2>3. CASE GoTo(t, "run_maintenance") /\ UNCHANGED call_type
    BY <1>3, <2>1, <2>3 DEF WakeSteps
  <2> QED BY <1>6, <2>2, <2>3 DEF Round, AskModel
<1>7. ASSUME NEW t \in Workers, AttemptFails(t) \/ Unparsable(t) PROVE VersionsAreCurrent'
  <2>1. /\ at[t] = "chat" /\ UNCHANGED written
        /\ at[t] \in WakeSteps \ {"insert_wake_summary", "check_drain"}
    BY <1>7 DEF AttemptFails, Unparsable, WakeSteps
  <2>2. CASE UNCHANGED <<leaseVars, at, call_type, version>>
    BY <2>1, <2>2 DEF leaseVars, written, VersionsAreCurrent, VersionsIncrease, InMaintenance
  <2>3. CASE ChatFails(t)
    <3>1. CASE GoTo(t, "run_maintenance") /\ UNCHANGED <<leaseVars, call_type, version>>
      BY <1>3, <2>1, <3>1 DEF leaseVars, WakeSteps
    <3>2. CASE EndTask(t) /\ Vanish(t)
      BY <1>2, <2>1, <3>2 DEF Vanish
    <3> QED BY <2>3, <3>1, <3>2 DEF ChatFails
  <2> QED BY <1>7, <2>2, <2>3 DEF AttemptFails, Unparsable
<1>8. ASSUME NEW t \in Workers, Answered(t) PROVE VersionsAreCurrent'
  <2>1. /\ at[t] = "chat" /\ UNCHANGED <<written, wake, issued, version, call_type>>
        /\ at[t] \in WakeSteps \ {"insert_wake_summary", "check_drain"}
    BY <1>8 DEF Answered, leaseVars, WakeSteps
  <2>2. PICK step \in {"insert_llm_call", "run_maintenance"} : GoTo(t, step)
    BY <1>8 DEF Answered
  <2> QED BY <1>3, <2>1, <2>2 DEF WakeSteps, InMaintenance
<1>9. ASSUME NEW t \in Workers, InsertCall(t) PROVE VersionsAreCurrent'
  <2>1. /\ at[t] = "insert_llm_call" /\ UNCHANGED <<written, wake, issued, version, call_type>>
        /\ at[t] \in WakeSteps \ {"insert_wake_summary", "check_drain"} /\ GoTo(t, "commit_call")
    BY <1>9 DEF InsertCall, leaseVars, WakeSteps
  <2> QED BY <1>3, <2>1 DEF WakeSteps, InMaintenance
<1>10. ASSUME NEW t \in Workers, CommitCall(t) PROVE VersionsAreCurrent'
  <2>1. /\ at[t] = "commit_call" /\ UNCHANGED <<written, wake, issued, version, call_type>>
        /\ at[t] \in WakeSteps \ {"insert_wake_summary", "check_drain"}
    BY <1>10 DEF CommitCall, leaseVars, WakeSteps
  <2>2. PICK step \in {"round", "run_maintenance", "insert_projection", "check_drain"} :
          GoTo(t, step) /\ (step = "insert_projection" => call_type[t] = "maintenance")
    BY <1>10 DEF CommitCall
  <2>3. /\ at'[t] = step
        /\ \A u \in Workers \ {t} :
              at'[u] = at[u] /\ call_type'[u] = call_type[u] /\ version'[u] = version[u]
    BY <2>1, <2>2 DEF GoTo, Set, TaskTypes
  <2>4. InMaintenance(t)' => version'[t] = Len(projections)
    BY <2>1, <2>2, <2>3 DEF InMaintenance, VersionsAreCurrent
  <2> QED BY <2>1, <2>2, <2>3, <2>4, MoveKeepsVersions
<1>11. ASSUME NEW t \in Workers, run_maintenance(t) PROVE VersionsAreCurrent'
  <2>1. /\ at[t] \in WakeSteps \ {"insert_wake_summary", "check_drain"}
        /\ UNCHANGED <<written, wake, issued>>
        /\ at' = [at EXCEPT ![t] = "chat"]
        /\ call_type' = [call_type EXCEPT ![t] = "maintenance"]
        /\ version' = [version EXCEPT ![t] = latest_projection]
    BY <1>11 DEF run_maintenance, AskModel, GoTo, Set, leaseVars, WakeSteps
  <2>2. /\ at'[t] = "chat" /\ version'[t] = Len(projections)
        /\ \A u \in Workers \ {t} :
              at'[u] = at[u] /\ call_type'[u] = call_type[u] /\ version'[u] = version[u]
    BY <2>1, NewestIsLast DEF VersionsAreCurrent, TaskTypes
  <2> QED BY <2>1, <2>2, MoveKeepsVersions
<1>12. ASSUME NEW t \in Workers, insert_projection(t) PROVE VersionsAreCurrent'
  BY <1>12, InsertKeepsVersions
<1>13. ASSUME NEW t \in Workers, insert_wake_summary(t) PROVE VersionsAreCurrent'
  <2>1. /\ summaries' = summaries \union {wake} /\ UNCHANGED <<projections, wake, issued>>
        /\ UNCHANGED <<call_type, version>> /\ at' = [at EXCEPT ![t] = "check_drain"]
        /\ \E i \in DOMAIN projections : projections[i].wake = wake
    BY <1>13 DEF insert_wake_summary, leaseVars, call, GoTo, Set, VersionsAreCurrent
  <2>2. VersionsIncrease'
    BY <2>1 DEF VersionsAreCurrent, VersionsIncrease
  <2>3. \A u \in Workers : at'[u] = at[u] \/ at'[u] = "check_drain"
    BY <2>1 DEF TaskTypes
  <2> QED BY <2>1, <2>2, <2>3 DEF VersionsAreCurrent, InMaintenance
<1>14. ASSUME NEW t \in Workers, Drain(t) PROVE VersionsAreCurrent'
  BY <1>14, IssueKeepsVersions DEF Drain, Renew
<1>15. ASSUME NEW t \in Workers, Release(t) PROVE VersionsAreCurrent'
  BY <1>2, <1>15 DEF Release, Finish, WakeSteps
<1>16. ASSUME NEW t \in Workers, StatementFails(t) PROVE VersionsAreCurrent'
  BY <1>2, <1>16 DEF StatementFails, Vanish, leaseVars
<1>17. CASE ServerCrashes
  <2>1. UNCHANGED written /\ issued' = issued /\ \A t \in Workers : at'[t] = "idle"
    BY <1>17 DEF ServerCrashes, Each, Vanish, leaseVars
  <2> QED BY <2>1 DEF written, VersionsAreCurrent, VersionsIncrease, InMaintenance, WakeSteps
<1>18. CASE Sweep
  <2>1. /\ UNCHANGED <<written, issued, at, call>> /\ holder = Nobody
        /\ \A t \in Workers : at[t] \notin WakeSteps
    BY <1>18 DEF Sweep, Reclaim, HolderIsInside
  <2>2. \A t \in Workers : ~InMaintenance(t) /\ at[t] # "insert_wake_summary"
    BY <2>1 DEF InMaintenance, WakeSteps
  <2> QED BY <2>1, <2>2 DEF written, call, VersionsAreCurrent, VersionsIncrease, InMaintenance
<1>19. CASE SetBudgetLimit
  BY <1>1, <1>19 DEF SetBudgetLimit, leaseVars
<1>20. CASE UNCHANGED spendingVars
  BY <1>1, <1>20 DEF spendingVars, leaseVars
<1> QED BY <1>4, <1>5, <1>6, <1>7, <1>8, <1>9, <1>10, <1>11, <1>12, <1>13, <1>14, <1>15, <1>16,
           <1>17, <1>18, <1>19, <1>20 DEF SpendingNext

-----------------------------------------------------------------------------
(* The theorems. *)

LEMMA SpendingInvariant == SpendingSpec => []SpendingInv
<1>1. SpendingInv /\ [SpendingNext]_spendingVars => SpendingInv'
  BY TypesKeep, HolderKeeps, AccountsKeep, LateKeeps, VersionsKeep DEF SpendingInv
<1> QED BY <1>1, SpendingBegins, PTL DEF SpendingSpec

\* The ledger, the projections and the tasks' variables keep their types.
THEOREM SpendingTypeCorrect == SpendingSpec => []SpendingTypeOK
<1>1. SpendingInv => SpendingTypeOK
  BY DEF SpendingInv
<1> QED BY <1>1, SpendingInvariant, PTL

\* handle_wake's gate: with the budget spent, a task enters two wakes at most, and only
\* if it had passed the gate before; for any number of tasks and notifications.
THEOREM BudgetStopsWakes == SpendingSpec => []FewWakesAfterTheBudget
<1>1. SpendingInv => FewWakesAfterTheBudget
  BY DEF SpendingInv, LateAreFew, FewWakesAfterTheBudget
<1> QED BY <1>1, SpendingInvariant, PTL

\* insert_llm_call: the budget used is the sum of the calls on record and no more than
\* what was charged, whatever fails, for any prices and any number of calls.
THEOREM AccountsAgree == SpendingSpec => []UsedIsTheSumOfCalls
<1>1. SpendingInv => UsedIsTheSumOfCalls
  BY DEF SpendingInv, CallsAreAccounted, UsedIsTheSumOfCalls
<1> QED BY <1>1, SpendingInvariant, PTL

\* run_maintenance: projections are versions 1, 2, 3, .. of later and later wakes.
THEOREM VersionsAreInOrder == SpendingSpec => []VersionsIncrease
<1>1. SpendingInv => VersionsIncrease
  BY DEF SpendingInv, VersionsAreCurrent
<1> QED BY <1>1, SpendingInvariant, PTL

\* The wakes that are paid for are those of the lease, the abstract specification that
\* WakeTasks implements: budget, calls and maintenance neither hold a wake nor end one
\* by any other step than the lease's.
THEOREM WakesAreTheLeases == SpendingSpec => LeaseSpec
<1>1. SpendingInit => LeaseInit
  BY DEF SpendingInit
<1>2. SpendingInv /\ [SpendingNext]_spendingVars => [LeaseNext]_leaseVars
  <2> SUFFICES ASSUME SpendingInv, [SpendingNext]_spendingVars PROVE [LeaseNext]_leaseVars
    OBVIOUS
  <2>1. CASE SpendingNext
    <3>1. CASE \E t \in Workers : Begin(t) \/ Renew(t) \/ Finish(t) \/ Vanish(t)
      BY <3>1 DEF LeaseNext
    <3>2. CASE holder' = Nobody /\ UNCHANGED <<wake, issued>>
      <4>1. CASE holder = Nobody
        BY <3>2, <4>1 DEF leaseVars
      <4>2. CASE holder \in Workers
        <5>1. Vanish(holder) BY <3>2 DEF Vanish
        <5> QED BY <4>2, <5>1 DEF LeaseNext
      <4> QED BY <4>1, <4>2 DEF SpendingInv, SpendingTypeOK
    <3>3. CASE Reclaim
      BY <3>3 DEF LeaseNext
    <3> QED BY <2>1, <3>1, <3>2, <3>3, StepsOfLease
  <2>2. CASE UNCHANGED spendingVars
    BY <2>2 DEF spendingVars
  <2> QED BY <2>1, <2>2
<1> QED BY <1>1, <1>2, SpendingInvariant, PTL DEF SpendingSpec, LeaseSpec
=============================================================================
