--------------------------- MODULE WakeProperties ---------------------------
(***************************************************************************)
(* What the wake machinery of WakeTasks is for.                            *)
(***************************************************************************)
EXTENDS WakeTasks

CONSTANT NoTask    \* the holder of a wake that no task is inside

ASSUME NoTaskAssumption == NoTask \notin Tasks

\* AC-1, "only one wake is active at any time": two tasks are never inside a
\* wake of the agent together.
OneWakeAtATime ==
    \A t, u \in Tasks : Owns(t) /\ Owns(u) => t = u

\* The status that a task standing at statement p believes the row to have.
Believes(p, s) ==
    /\ p \in AcquiringPcs  => s = "wake_acquiring"
    /\ p \in AssemblingPcs => s = "prompt_assembling"
    /\ p \in AwakePcs      => s = "awake"
    /\ p \in DispatchPcs   => s = "tool_dispatching"
    /\ p \in ExecutePcs    => s = "tool_executing"
    /\ p \in ResultPcs     => s = "tool_result_processing"
    /\ p \in PollPcs       => s = "mid_wake_event_polling"
    /\ p \in TerminalPcs   => s \in {"awake", "tool_dispatching", "tool_result_processing"}
    /\ p \in EndingPcs     => s = "wake_ending"
    /\ p \in MaintainPcs   => s = "maintenance"

\* The row is in the wake its task carries and where the task believes it to be,
\* so no compare-and-swap of a wake is ever refused: what run_wake_loop calls a
\* runtime invariant break.
RowIsWhereTaskThinks ==
    \A t \in Tasks : Owns(t) => wake_id = my_wake[t] /\ Believes(pc[t], status)

\* The SELECT-then-UPDATE window of the wake's end is benign: the prior status
\* that the TerminalEndsWake event reports is the status the hop leaves.
PriorStatusIsCurrent ==
    \A t \in Tasks : pc[t] = "enter_wake_ending" => prior[t] = status

\* The event log follows the row: unless its task is about to append the event
\* of its last hop, the newest lifecycle_transition of a wake names the status
\* and the wake the row shows.
LogFollowsRow ==
    \A t \in Tasks : Owns(t) /\ pc[t] \notin LogPcs =>
        logged.to = status /\ logged.wake = wake_id

\* The iteration count that the cap is tested against is the number of tool
\* calls this very wake has made.
CountIsThisWakes ==
    \A t \in Tasks : Owns(t) => count = calls[t]

\* At rest the row carries nothing of a wake; inside one it has a wake id.
RestIsClean ==
    /\ status = "asleep" <=> wake_id = NoWake
    /\ status = "asleep" => count = 0 /\ ~stale

\* The sweep only takes a wake away when no task is inside it.
SweepTakesAbandoned ==
    found => stale /\ status \in LiveStatuses /\ \A t \in Tasks : ~Owns(t)

\* What makes the above inductive while every task is faster than the sweep's
\* window: a wake that has gone stale is one whose task is gone.
ExclusiveInv ==
    /\ OneWakeAtATime
    /\ RowIsWhereTaskThinks
    /\ RestIsClean
    /\ SweepTakesAbandoned
    /\ stale => \A t \in Tasks : ~Owns(t)

\* The high-water mark is sound: a message that no prompt of the wake has shown
\* is newer than wake_started_at when the task asks has_pending_events.
UnreadMessageIsPending ==
    \A t \in Tasks :
        pc[t] = "has_pending_events" /\ "message_received" \in unread
            => PendingSince(my_wake[t])

\* The wake that the lease shows: its holder is the task inside it.
Holder == IF \E t \in Tasks : Owns(t) THEN CHOOSE t \in Tasks : Owns(t) ELSE NoTask

Lease == INSTANCE ExclusiveWake
    WITH Workers <- Tasks, Nobody <- NoTask,
         holder <- Holder, wake <- wake_id, issued <- minted

\* handle_wake, run_wake_loop, check_drain and the sweep implement the lease.
ImplementsLease == Lease!LeaseSpec

-----------------------------------------------------------------------------

\* Canonical (from, to) pairs of AC-82, with the release and the sweep.
CanonicalEdge(from, to) ==
    \/ to = "asleep"
    \/ from = "asleep" /\ to = "wake_acquiring"
    \/ from = "wake_acquiring" /\ to = "prompt_assembling"
    \/ from = "prompt_assembling" /\ to = "awake"
    \/ from = "awake" /\ to \in {"tool_dispatching", "wake_ending"}
    \/ from = "tool_dispatching" /\ to \in {"tool_executing", "wake_ending"}
    \/ from = "tool_executing" /\ to \in {"tool_result_processing", "wake_ending"}
    \/ from = "tool_result_processing" /\ to \in {"mid_wake_event_polling", "wake_ending"}
    \/ from = "mid_wake_event_polling" /\ to \in {"awake", "wake_ending"}
    \/ from = "wake_ending" /\ to = "maintenance"
    \/ from = "maintenance" /\ to = "wake_acquiring"

\* Whatever tasks and sweeps collide, the row only moves along canonical edges,
\* and it gets a wake id exactly when a wake starts and loses it when it ends.
CanonicalTransitions ==
    [][ /\ status' # status => CanonicalEdge(status, status')
        /\ wake_id' # wake_id =>
               \/ status' = "wake_acquiring" /\ wake_id' = minted' /\ minted' > minted
               \/ status' = "asleep" /\ wake_id' = NoWake
      ]_row

\* However its tasks die, hang or are refused, the agent comes back to rest.
ReturnsToRest == []<>(status = "asleep")

-----------------------------------------------------------------------------

\* AC-9: a message that arrives while a task is inside a wake of an enabled agent
\* within budget is shown to the agent, in this wake or in a follow-up.
MessageInWakeIsRead ==
    ("message_received" \in unread /\ is_enabled /\ ~over_budget /\ \E t \in Tasks : Owns(t))
        ~> ("message_received" \notin unread \/ ~is_enabled \/ over_budget)

\* AC-79: the prompt has a section for webhook payloads, so a webhook that is in
\* the log when a wake assembles its prompt is shown to the agent.
WebhookIsRead ==
    (\E t \in Tasks : pc[t] = "assemble_prompt" /\ "webhook_received" \in unread)
        ~> "webhook_received" \notin unread
=============================================================================
