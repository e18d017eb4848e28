------------------------------ MODULE WakeLoop ------------------------------
(***************************************************************************)
(* The inside of a wake: rounds of prompt and response, the checks a       *)
(* response passes, and the calls it asks for, one after the other.  The   *)
(* wakes of one agent follow one another here (WakeTasks shows when they   *)
(* do), and the hops between statuses, which WakeTasks models, are left    *)
(* out but for AuthorizeExecution.                                         *)
(*                                                                         *)
(* pc names the statement the loop is about to execute.  Between any two   *)
(* of them the operator may change the agent's mode or the workspace's     *)
(* credentials, a nonce may expire, and the statement itself may fail.     *)
(***************************************************************************)
EXTENDS CapabilityNonces, Credentials, FiniteSets

CONSTANTS
    IterationCap,   \* config.iteration_cap
    RateLimit,      \* config.tool_call_rate_limit_per_wake
    SchemaCap,      \* config.schema_invalid_retry_cap
    ModeStrings,    \* values of agents.permission_mode
    MaxBatch,       \* bound: tool calls in one response
    MaxRemarks,     \* bound: texts and invalid calls that the model utters in a wake
    MaxWakes        \* bound: wakes of the agent

Tools == {"shell", "plan", "sleep", "list_credentials"}

ASSUME LoopAssumption ==
    /\ IterationCap \in Nat
    /\ RateLimit \in Nat
    /\ SchemaCap \in Nat
    /\ MaxBatch \in Nat
    /\ MaxRemarks \in Nat
    /\ MaxWakes \in Nat
    /\ Requests \subseteq [tool : Tools, names : SUBSET Names]

VARIABLES
    wake,           \* wakes so far; the current one's id
    count,          \* agents.wake_iteration_count
    mode,           \* agents.permission_mode
    pc,             \* the statement the loop is about to execute
    current,        \* current.permission_mode, read at the head of the round
    attempts,       \* schema_invalid_attempts
    dispatched,     \* tool_calls_this_wake
    left,           \* calls of the response still to be handled
    reason,         \* termination_reason
    call,           \* the call in hand: its request, ticket and resolved_env
    log,            \* events of this wake
    effects,        \* commands the executor ran in this wake
    modes,          \* history: modes in force since the round's read
    live            \* history: credentials active since the call's nonce was consumed

row      == <<count, mode>>
round    == <<current, attempts, dispatched, left, reason>>
history  == <<modes, live>>
database == <<nonces, credentials>>
vars     == <<wake, row, pc, round, call, log, effects, history, database>>

-----------------------------------------------------------------------------

EventTypes == {
    "wake_start", "prompt_injection_canary_emitted", "prompt_injection_suspected",
    "model_response_schema_invalid", "assistant_message", "tool_call_rate_limit_exceeded",
    "tool_call", "AuthorizeExecution", "tool_capability_denied",
    "capability_nonce_rejected", "credential_unresolved", "tool_result", "wake_end"}

Pcs == {
    "idle", "wake_start", "canary_emitted", "iterate", "chat", "suspected",
    "insert_llm_call", "schema_invalid", "assistant_message", "last_message",
    "completed", "calls", "rate_exceeded", "tool_call", "mint", "authorize", "dispatch_tool",
    "resolve", "tool_result", "sleep_result", "increment_iteration", "wake_end"}

Reasons == {"", "iteration_cap", "llm_error", "prompt_injection_suspected",
            "empty_response", "FailureAuditPending", "sleep", "completed"}

NoRequest == [tool |-> "none", names |-> {}]

NoCall == [request |-> NoRequest, ticket |-> 0, names |-> {}, secrets |-> {}]

Calls == [request : Requests \cup {NoRequest}, ticket : Nat,
          names : SUBSET Names, secrets : SUBSET Nat]

Effects == [number : Nat, request : Requests, ticket : Nat, secrets : SUBSET Nat, at : Nat]

TypeOK ==
    /\ NoncesTypeOK
    /\ CredentialsTypeOK
    /\ wake \in 0 .. MaxWakes
    /\ count \in Nat
    /\ mode \in ModeStrings
    /\ pc \in Pcs
    /\ current \in ModeStrings
    /\ attempts \in Nat
    /\ dispatched \in Nat
    /\ left \in Nat
    /\ reason \in Reasons
    /\ call \in Calls
    /\ log \in Seq([type : EventTypes, number : Nat])
    /\ effects \in SUBSET Effects
    /\ modes \in SUBSET ModeStrings
    /\ live \in SUBSET Nat

Init ==
    /\ NoncesInit
    /\ CredentialsInit
    /\ wake = 0
    /\ count = 0
    /\ mode \in ModeStrings
    /\ pc = "idle"
    /\ current = mode
    /\ attempts = 0
    /\ dispatched = 0
    /\ left = 0
    /\ reason = ""
    /\ call = NoCall
    /\ log = << >>
    /\ effects = {}
    /\ modes = {}
    /\ live = {}

-----------------------------------------------------------------------------
(* capability.rs                                                           *)

\* PermissionMode::from_db_str: what the code does not know is "locked".
from_db_str(string) == IF string \in {"yolo", "supervised"} THEN string ELSE "locked"

required_for(tool) ==
    CASE tool = "shell" -> "execute_local"
      [] tool \in Tools \ {"shell"} -> "read_local"
      [] OTHER -> "destructive"

mode_allows(string, tool) ==
    CASE from_db_str(string) = "yolo" -> TRUE
      [] from_db_str(string) = "supervised" -> required_for(tool) # "destructive"
      [] from_db_str(string) = "locked" -> required_for(tool) = "read_local"

-----------------------------------------------------------------------------
(* Shapes that several steps share.                                        *)

\* The number of the call in hand, or of the next one.
Number == dispatched + 1

Event(type) == [type |-> type, number |-> Number]

\* append_event(..).await?
AppendEvent(type) == log' = Append(log, Event(type))

\* `if let Err(e) = append_event(..)`: the failure is logged and swallowed.
AppendBestEffort(type) == AppendEvent(type) \/ UNCHANGED log

Go(at, next) == pc = at /\ pc' = next

Emit(at, type, next) ==
    /\ Go(at, next)
    /\ AppendEvent(type)
    /\ UNCHANGED <<wake, row, round, call, effects, history, database>>

\* `break`, with what the wake ended for.
Break(at, why) ==
    /\ Go(at, "wake_end")
    /\ reason' = why
    /\ UNCHANGED <<current, attempts, dispatched, left>>

\* The task is over, and its local variables are gone.
Return ==
    /\ pc' = "idle"
    /\ attempts' = 0
    /\ dispatched' = 0
    /\ left' = 0
    /\ reason' = ""
    /\ call' = NoCall
    /\ modes' = {}
    /\ live' = {}
    /\ UNCHANGED <<wake, row, current, effects, database>>

-----------------------------------------------------------------------------
(* The wake and its rounds.                                                *)

\* The acquisition resets the row's counter.
BeginWake ==
    /\ Go("idle", "wake_start")
    /\ wake < MaxWakes
    /\ wake' = wake + 1
    /\ count' = 0
    /\ log' = << >>
    /\ effects' = {}
    /\ UNCHANGED <<mode, round, call, history, database>>

StartEvents ==
    \/ Emit("wake_start", "wake_start", "canary_emitted")
    \/ Emit("canary_emitted", "prompt_injection_canary_emitted", "iterate")

\* Mutant: the mode read once, when the wake begins.
IterateOnFirstRead ==
    /\ count < IterationCap
    /\ Go("iterate", "chat")
    /\ current' = IF modes = {} THEN mode ELSE current
    /\ modes' = {mode}
    /\ UNCHANGED <<wake, row, attempts, dispatched, left, reason, call, log, effects,
                   live, database>>

\* get_agent at the head of the round: below the cap, and the mode is kept.
Iterate ==
    /\ count < IterationCap
    /\ Go("iterate", "chat")
    /\ current' = mode
    /\ modes' = {mode}
    /\ UNCHANGED <<wake, row, attempts, dispatched, left, reason, call, log, effects,
                   live, database>>

HitIterationCap ==
    /\ count >= IterationCap
    /\ Break("iterate", "iteration_cap")
    /\ UNCHANGED <<wake, row, call, log, effects, history, database>>

ChatFails ==
    /\ Break("chat", "llm_error")
    /\ UNCHANGED <<wake, row, call, log, effects, history, database>>

\* A response that echoes the canary, or one to be recorded.
Chat ==
    /\ pc = "chat"
    /\ pc' \in {"suspected", "insert_llm_call"}
    /\ UNCHANGED <<wake, row, round, call, log, effects, history, database>>

\* Mutant: the echo is written down and the response used all the same.
SuspectedAndUsed == Emit("suspected", "prompt_injection_suspected", "insert_llm_call")

PromptInjectionSuspected ==
    /\ Break("suspected", "prompt_injection_suspected")
    /\ AppendEvent("prompt_injection_suspected")
    /\ UNCHANGED <<wake, row, call, effects, history, database>>

EmptyResponse ==
    /\ Break("insert_llm_call", "empty_response")
    /\ UNCHANGED <<wake, row, call, log, effects, history, database>>

\* insert_llm_call, after which the response is looked at.
Respond(next) ==
    /\ Go("insert_llm_call", next)
    /\ UNCHANGED <<wake, row, current, dispatched, reason, call, log, effects,
                   history, database>>

Remarks == {i \in DOMAIN log :
                log[i].type \in {"assistant_message", "model_response_schema_invalid"}}

Talkative == Cardinality(Remarks) < MaxRemarks

\* Handled as `next`, after the text if there is one.
WithOrWithoutText(message, next) ==
    \/ Respond(next)
    \/ Talkative /\ Respond(message)

InvalidCalls ==
    /\ Talkative
    /\ Respond("schema_invalid")
    /\ UNCHANGED <<attempts, left>>

\* Mutant: the calls are valid, and attempts is not reset.
ValidCallsNoReset ==
    /\ WithOrWithoutText("assistant_message", "calls")
    /\ left' \in 0 .. MaxBatch
    /\ UNCHANGED attempts

\* Every claimed call passed its schema, also when none is claimed.
ValidCalls ==
    /\ WithOrWithoutText("assistant_message", "calls")
    /\ left' \in 0 .. MaxBatch
    /\ attempts' = 0

\* No tool_calls, and finish_reason is not "stop": another round.
TextOnly ==
    /\ WithOrWithoutText("assistant_message", "calls")
    /\ left' = 0
    /\ UNCHANGED attempts

Stop ==
    /\ WithOrWithoutText("last_message", "completed")
    /\ UNCHANGED <<attempts, left>>

SchemaInvalid ==
    /\ pc = "schema_invalid"
    /\ AppendEvent("model_response_schema_invalid")
    /\ attempts' = attempts + 1
    /\ IF attempts + 1 >= SchemaCap
       THEN pc' = "wake_end" /\ reason' = "FailureAuditPending"
       ELSE pc' = "iterate" /\ UNCHANGED reason
    /\ UNCHANGED <<wake, row, current, dispatched, left, call, effects, history, database>>

AssistantMessage ==
    \/ Emit("assistant_message", "assistant_message", "calls")
    \/ Emit("last_message", "assistant_message", "completed")

Completed ==
    /\ Break("completed", "completed")
    /\ UNCHANGED <<wake, row, call, log, effects, history, database>>

-----------------------------------------------------------------------------
(* One call of the response after the other.                               *)

BatchDone ==
    /\ left = 0
    /\ Go("calls", "iterate")
    /\ UNCHANGED <<wake, row, round, call, log, effects, history, database>>

\* Mutant: one call more than the limit.
RateLimitPassed == dispatched > RateLimit

RateLimitReached == dispatched >= RateLimit

RateLimitExceeded ==
    /\ left > 0
    /\ RateLimitReached
    /\ Break("calls", "FailureAuditPending")
    /\ AppendEvent("tool_call_rate_limit_exceeded")
    /\ UNCHANGED <<wake, row, call, effects, history, database>>

\* Mutant: the batch handled past its end.
RecordToolCallUnguarded ==
    /\ ~RateLimitReached
    /\ Go("calls", "mint")
    /\ AppendEvent("tool_call")
    /\ \E request \in Requests : call' = [NoCall EXCEPT !.request = request,
                                                        !.names = request.names]
    /\ UNCHANGED <<wake, row, round, effects, history, database>>

\* The tool_call event, before anything else is done about the call.
RecordToolCall ==
    /\ left > 0
    /\ ~RateLimitReached
    /\ Go("calls", "mint")
    /\ AppendEvent("tool_call")
    /\ \E request \in Requests : call' = [NoCall EXCEPT !.request = request,
                                                        !.names = request.names]
    /\ UNCHANGED <<wake, row, round, effects, history, database>>

Mint ==
    /\ Go("mint", "authorize")
    /\ mint(wake, call.request)
    /\ call' = [call EXCEPT !.ticket = Len(nonces')]
    /\ UNCHANGED <<wake, row, round, log, effects, history, credentials>>

\* Mutant: the hop without its lifecycle event.
AuthorizeSilently ==
    /\ Go("authorize", "dispatch_tool")
    /\ UNCHANGED <<wake, row, round, call, log, effects, history, database>>

\* enter_tool_executing and its lifecycle event.
AuthorizeExecution == Emit("authorize", "AuthorizeExecution", "dispatch_tool")

\* Mutant: a refused call that leaves no tool_result behind.
RefuseUnanswered(type) ==
    /\ Go("dispatch_tool", "increment_iteration")
    /\ AppendBestEffort(type)
    /\ UNCHANGED <<wake, row, round, call, effects, history, database>>

\* dispatch_tool answers without touching the nonce or the executor.
Refuse(type) ==
    /\ Go("dispatch_tool", "tool_result")
    /\ AppendBestEffort(type)
    /\ UNCHANGED <<wake, row, round, call, effects, history, database>>

Denied == ~mode_allows(current, call.request.tool) /\ Refuse("tool_capability_denied")

\* The UPDATE matched no row, or failed.
NonceRejected == mode_allows(current, call.request.tool) /\ Refuse("capability_nonce_rejected")

Consume ==
    /\ mode_allows(current, call.request.tool)
    /\ pc = "dispatch_tool"
    /\ consume(call.ticket, wake, call.request)
    /\ pc' = CASE call.request.tool = "shell" -> "resolve"
               [] call.request.tool = "sleep" -> "sleep_result"
               [] OTHER -> "tool_result"
    /\ live' = IF pc' = "resolve" THEN Active ELSE {}
    /\ UNCHANGED <<wake, row, round, call, log, effects, modes, credentials>>

\* resolve_env_placeholders: one look-up per placeholder, in the map's order, which
\* is any order; placeholders of one name are taken as one.
Resolve(name) ==
    /\ pc = "resolve"
    /\ name \in call.names
    /\ \E r \in find_active(name) :
           call' = [call EXCEPT !.names = @ \ {name}, !.secrets = @ \cup {r}]
    /\ UNCHANGED <<wake, row, pc, round, log, effects, history, database>>

\* No active row, or one that cannot be read or opened: the call fails closed.
Unresolved ==
    /\ call.names # {}
    /\ Go("resolve", "tool_result")
    /\ AppendBestEffort("credential_unresolved")
    /\ UNCHANGED <<wake, row, round, call, effects, history, database>>

\* Mutant: a command that timed out is run again, on the nonce it has spent.
ExecuteShellAgain ==
    /\ call.names = {}
    /\ pc = "resolve"
    /\ pc' \in {"resolve", "tool_result"}
    /\ effects' = effects \cup
           {[number |-> Number, request |-> call.request, ticket |-> call.ticket,
             secrets |-> call.secrets, at |-> Len(log)]}
    /\ UNCHANGED <<wake, row, round, call, log, history, database>>

\* execute_shell, whatever comes of it.
ExecuteShell ==
    /\ call.names = {}
    /\ Go("resolve", "tool_result")
    /\ effects' = effects \cup
           {[number |-> Number, request |-> call.request, ticket |-> call.ticket,
             secrets |-> call.secrets, at |-> Len(log)]}
    /\ UNCHANGED <<wake, row, round, call, log, history, database>>

\* The tool_result event; the sleep arm ends the wake.
ToolReturns == Emit("tool_result", "tool_result", "increment_iteration")

ToolSleeps ==
    /\ Break("sleep_result", "sleep")
    /\ AppendEvent("tool_result")
    /\ UNCHANGED <<wake, row, call, effects, history, database>>

IncrementIteration ==
    /\ Go("increment_iteration", "calls")
    /\ count' = count + 1
    /\ dispatched' = dispatched + 1
    /\ left' = left - 1
    /\ call' = NoCall
    /\ live' = {}
    /\ UNCHANGED <<wake, mode, current, attempts, reason, log, effects, modes, database>>

EndWake ==
    /\ pc = "wake_end"
    /\ AppendEvent("wake_end")
    /\ Return

\* Any statement may fail, and its `?` ends the task; so does the death of the process.
TaskFails ==
    /\ pc # "idle"
    /\ Return
    /\ UNCHANGED log

LoopStep ==
    \/ StartEvents \/ Iterate \/ HitIterationCap \/ Chat \/ ChatFails
    \/ PromptInjectionSuspected \/ EmptyResponse \/ InvalidCalls \/ ValidCalls
    \/ TextOnly \/ Stop \/ SchemaInvalid \/ AssistantMessage \/ Completed
    \/ BatchDone \/ RateLimitExceeded \/ RecordToolCall \/ Mint \/ AuthorizeExecution
    \/ Denied \/ NonceRejected \/ Consume \/ (\E name \in Names : Resolve(name))
    \/ Unresolved \/ ExecuteShell \/ ToolReturns \/ ToolSleeps \/ IncrementIteration
    \/ EndWake

-----------------------------------------------------------------------------
(* Beside the loop.                                                        *)

\* The operator changes agents.permission_mode.
SetMode ==
    /\ mode' \in ModeStrings \ {mode}
    /\ modes' = IF pc = "idle" THEN {} ELSE modes \cup {mode'}
    /\ UNCHANGED <<wake, count, pc, round, call, log, effects, live, database>>

\* A row that becomes active while a command's placeholders are resolved counts.
CreateCredential(name) ==
    /\ create(name)
    /\ live' = IF pc = "resolve" THEN live \cup {Len(credentials')} ELSE live
    /\ UNCHANGED <<wake, row, pc, round, call, log, effects, modes, nonces>>

RevokeCredential(name) ==
    /\ revoke(name)
    /\ UNCHANGED <<wake, row, pc, round, call, log, effects, history, nonces>>

\* The sixty seconds pass.  The loop redeems no nonce but the one in hand, and that
\* one only now.
NonceExpires ==
    /\ pc \in {"authorize", "dispatch_tool"}
    /\ expire(call.ticket)
    /\ UNCHANGED <<wake, row, pc, round, call, log, effects, history, credentials>>

Next ==
    \/ BeginWake \/ LoopStep \/ TaskFails
    \/ SetMode \/ NonceExpires
    \/ \E name \in Names : CreateCredential(name) \/ RevokeCredential(name)

Spec == Init /\ [][Next]_vars

\* The runtime schedules the task of a wake that has begun.
FairSpec == Spec /\ WF_vars(LoopStep)
=============================================================================
