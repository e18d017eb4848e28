------------------------- MODULE SpendingProperties -------------------------
(***************************************************************************)
(* What an operator may rely on of an agent's budget and its projections.  *)
(***************************************************************************)
EXTENDS Spending

WakeSteps ==
    {"round", "chat", "insert_llm_call", "commit_call", "run_maintenance",
     "insert_projection", "insert_wake_summary", "check_drain"}

SpendingTypeOK ==
    /\ holder \in Workers \union {Nobody} /\ wake \in Nat /\ issued \in Nat
    /\ budget_limit \in Limits
    /\ budget_used \in Nat /\ llm_calls \in Nat /\ billed \in Nat
    /\ projections \in Seq([version : Nat, wake : Nat])
    /\ summaries \subseteq Nat
    /\ at \in [Workers -> WakeSteps \union {"idle", "attempt_wake_acquire"}]
    /\ call_type \in [Workers -> {"wake_loop", "maintenance"}]
    /\ rounds \in [Workers -> 0 .. MaxRounds]
    /\ attempt \in [Workers -> 0 .. 2]
    /\ cost \in [Workers -> Nat]
    /\ staged \in [Workers -> Nat]
    /\ version \in [Workers -> Nat]
    /\ renewed \in [Workers -> BOOLEAN]
    /\ late \in [Workers -> Nat]

\* Once the budget is spent, a task enters a wake only if it had read the budget before
\* that, and then that one and its drained one: each enters two at most, however many
\* notifications come, until the operator raises the limit.  (AC-23 has the budget read before
\* each acquisition and allows none: the drain does not read it.)
FewWakesAfterTheBudget == \A t \in Workers : late[t] <= 2

\* AC-23: the budget used is at any time the sum of the calls on record, whatever fails
\* in between, and, though a chat is sent up to three times, never more than was charged.
UsedIsTheSumOfCalls == budget_used = llm_calls /\ budget_used <= billed

\* The rows of agent_projections are versions 1, 2, 3, .. without a gap or a repetition,
\* each of a later wake, although a version is read before the LLM is asked and its
\* successor inserted after; and a wake has a summary only with a projection.
VersionsIncrease ==
    /\ \A i \in DOMAIN projections : projections[i].version = i
    /\ \A i, j \in DOMAIN projections : i < j => projections[i].wake < projections[j].wake
    /\ \A w \in summaries : \E i \in DOMAIN projections : projections[i].wake = w
=============================================================================
