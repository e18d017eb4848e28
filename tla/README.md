# A TLA+ model of open-pincery

Open-pincery runs durable, event-driven LLM agents on PostgreSQL. An agent is
a row of `agents` and an append-only log of `events`; a message or a webhook
appends an event and notifies, a *wake* takes the row, runs the LLM and its
tools until something ends it, runs maintenance, and releases the row. The
system's central promise is that **one agent has at most one wake running at a
time** and that **nothing that arrives is lost**, although every step is a
separate SQL statement, tasks may fail at each of them, and an operator, a
stale-wake sweep and any number of notifications act on the same row.

This directory states that promise, models the code that keeps it, checks the
model with TLC on small instances, and proves the safety part of it with TLAPS
for every value of the constants.

## 1. Inventory

| Component (source) | State | Operations | What is hard | What makes it correct |
|---|---|---|---|---|
| Agent row (`models/agent.rs`, migrations 5 and 20260507) | `status`, `wake_id`, `wake_started_at`, `wake_iteration_count`, `is_enabled`, budget columns | one compare-and-swap UPDATE per edge of the status machine; `increment_iteration`; `force_release`; PATCH; soft delete | the statements carry no `wake_id` and no transaction spans two of them | only canonical edges; a wake id exactly while a wake lasts |
| Listener and `handle_wake` (`background/listener.rs`) | a LISTEN connection; one spawned task per notification | budget check, acquire, loop, maintenance, drain, second loop, release | several tasks per agent; notifications are not queued; a task may die anywhere | one task inside a wake; what a task believes is what the row shows |
| Wake loop (`runtime/wake_loop.rs`, `lifecycle.rs`) | locals of the task: wake id, tool-call count, prior status | the fine-grained hops, a lifecycle event after each, iteration cap, rate limit, 13 ways to end | hop and event are separate statements; the prior status is read and then used | log follows row; the reported prior status is the real one; the cap counts this wake only |
| Drain and release (`runtime/drain.rs`, `models/event.rs`) | the high-water mark `wake_started_at` | look for newer `message_received`, re-acquire or release | timestamps against commit order; refusal between look and re-acquire | no unread message is invisible to the check; whoever enters maintenance leaves it |
| Stale-wake sweep (`background/stale.rs`) | the list it has SELECTed | SELECT stale rows, then one UPDATE each | UPDATE repeats neither age nor wake id | takes only wakes nobody is inside; every abandoned wake is taken |
| Messages, webhooks, agents API (`api/*.rs`) | requests between two statements | append, `pg_notify`, enable/disable, budget, delete | check-then-act on `is_enabled`; failing between append and notify | see listener and drain |
| Event log and hash chain (migration 20260501, `background/audit_chain.rs`) | `events`, `entry_hash`, `prev_hash`, verdicts | append under an advisory lock, verify, gate the startup | concurrent appends, timestamps that go backwards, a verifier that walks a growing chain | one chain per agent, walk order is append order, an untouched chain verifies |
| Capability gate and nonces (`runtime/capability*.rs`, `tools.rs`) | `capability_nonces` | mint, verify-and-consume, reject | replay, expiry, other wake, permission mode read once per iteration | consumed at most once, by what it was minted for |
| LLM client, budget (`runtime/llm.rs`, `models/llm_call.rs`) | `llm_calls`, `budget_used_usd` | chat with retries, insert call and add cost | cap tested before the wake, spent during it; drain skips the test; an answer may be lost after it was charged | a spent budget stops wakes, but for those of a task that had passed the test; the budget used is the sum of the calls |
| Maintenance and projections (`runtime/maintenance.rs`, `models/projection.rs`) | versioned `agent_projections` | read version, LLM call, insert version + 1 | two wakes of one agent | one row per version, a summary only with its projection |
| Providers (`models/llm_provider.rs`, `api/providers.rs`, `resolve_workspace_llm`) | providers, `is_default` | create, set default, delete; URL and key at the start of a wake | counts read before the write; URL and key read by two statements | at most one default, and one wherever there are providers; a key goes to its own provider |
| Credentials (`models/credential.rs`, `runtime/vault.rs`) | `credentials` | put, revoke, use at dispatch | revoke against use | a revoked credential is not injected later |
| Bootstrap and sessions (`api/bootstrap.rs`, `auth.rs`) | users, workspaces, tokens | five inserts, login, session look-up | a failure between two of them, two at once | one administrator, one 201, whoever got it has everything |
| Webhook ingest (`api/webhooks.rs`) | `webhook_dedup`, `webhook_secret` | verify, claim key, append, notify; rotate the secret | the key is claimed before the append; the row is read once; retries race | a delivery is appended once at most, and only what was admissible |
| Sandbox (`runtime/sandbox/*`, `bin/pincery_init.rs`) | a child and its namespace, its cgroup, what it is confined by | spawn, limit, time out, kill, reap; ordered lock-down; audit afterwards | a process that outlives the tool call or the server; a layer that fails; a filter that hits the set-up itself; an audit log shared with the host | nothing of a call is left; no layer is missing in Enforce; only the command's denials are reported |
| Startup floors (`sandbox/preflight.rs`, `main.rs`, `config.rs`) | configuration, probes | decide to boot or refuse | combinations of mode, overrides and probe results, twice | what the start admits no call has to refuse |
| Observability, read-only API, CLI | counters, parsed records, a client's file | parsing, queries, HTTP | little | the session check and the reading of denials are modelled, the rest is out of scope |

Interactions. The API appends events (shared table) and notifies (a PostgreSQL
channel); the listener turns notifications into tasks; tasks, operator and sweep
meet in the agent's row; tasks meet the API again in the event log (the drain
check); the wake loop calls the capability gate, the sandbox and the LLM client;
the chain verifier reads what everybody appends. Nothing else is shared: there
is no in-memory state between tasks.

`PROJECT.json` lists every component with what is modelled of it, and the
hazards of the code at their lines, with the property that covers each or the
reason that none does yet.

## 2. Modules

| Module | Models |
|---|---|
| `AgentRow` | One `agents` row and every statement of `models/agent.rs` the runtime runs on it, each one atomic step. Hops of a wake are records `[from, to]` with one shared step `Move`; the two acquisitions share `StartWakeFrom`, the two releases `EndWakeFrom`. |
| `WakeTasks` | The tasks, the API, the operator, the listener's connection, the sweep, time and faults, composed on one `AgentRow`. |
| `WakeProperties` | What the wake machinery promises, and the mapping to the lease. |
| `ExclusiveWake` | The abstract specification of the wake machinery: a lease with begin, renew, finish, vanish, reclaim. |
| `MCWake` | Values the configurations share. |
| `MCRecovery` | For TLC: an agent whose wakes are cut short, its row, and in other behaviours its accounts. |
| `CapabilityNonces` | The table of nonces: mint, consume, expire. |
| `Credentials` | The rows of a workspace's credentials: create, revoke, look up. |
| `WakeLoop` | The inside of a wake, on those two tables: rounds, responses, checks, calls, and the events they leave. |
| `GuardedCalls` | The abstract specification of a wake's calls: a guard with record, issue, authorize, spend, run, answer, and a wake that may vanish. |
| `WakeLoopProperties` | What a wake promises about its calls, and the mapping to the guard. |
| `MCWakeLoop` | Requests and modes for TLC. |
| `WakeProofs` | Type correctness and exclusion, proved. |
| `WakeLeaseProofs` | Log, counter and prior status; the lease; canonical transitions, proved. |
| `WakeLoopProofs` | Every safety property of the wake loop that holds, and that it implements the guard, proved. |
| `EventChain` | The event log of one agent: inserting transactions and the chain trigger, the walk of `audit_chain.rs`, the startup gate, a client that follows the log. |
| `MCEventChain` | The logs a migration may have found, the operator's choices, and the symmetry of connections. |
| `EventChainProofs` | Chain, order, tail and gate, proved. |
| `Spending` | The budget and the accounts of one agent, chats with their attempts, and maintenance with its projections, on the lease of `ExclusiveWake`. |
| `SpendingProperties`, `SpendingProofs` | What an operator may rely on of both; proved but for what the code does not keep. |
| `Webhooks` | One agent's row, the rotation of its secret, and deliveries statement by statement. |
| `WebhookProperties`, `WebhookProofs` | What ingress promises; proved but for what the code does not keep. |
| `Bootstrap` | First set-up, login, sessions and the middleware's look-up. |
| `Providers` | The registry of providers behind that middleware, on `Bootstrap` and `Credentials`, and the wake's choice of URL and key. |
| `ProviderProperties`, `ProviderProofs` | What an installation promises of both; proved but for what the code does not keep. |
| `MCApi` | Webhooks beside the registry, for TLC. |
| `SandboxPolicy` | Startup floors, sandbox mode, identity, filter, policy, and what each stage of `pincery-init` does: functions of a host and its settings. |
| `Sandbox` | The server, its shell calls and the processes they become. |
| `SandboxProperties`, `SandboxProofs` | What a shell call promises; types, confinement, denials and the two floors proved. |
| `MCSandbox` | Hosts, settings and profiles for TLC. |

### The wake

**State.** `status`, `wake_id`, `count`, `is_enabled` are columns. A wake id is
a number (`minted` counts `gen_random_uuid()`), 0 is NULL. Two comparisons are
state in place of the numbers they compare: `stale` for `wake_started_at < NOW()
- stale_wake_hours`, `over_budget` for `budget_limit_usd > 0 and
budget_used_usd >= budget_limit_usd`. `pc[t]` names the statement that task `t`
is about to execute, so every place where another actor can step in is a state;
`my_wake`, `prior`, `calls`, `drained` are the task's local variables. `logged`
is the newest `lifecycle_transition` event; `unread` and `last_msg` abstract the
rest of the event log: which kinds of event no prompt has shown yet, and where
the newest message's `created_at` lies among the starts of wakes.

**Actions.** One per statement or external call, named after the function in
the code. `Hop` is a compare-and-swap followed by `ok_or(NotFound)?`: refused, it
ends the task. `Chat` may lead to every follow-up the loop has for a response.
`EmitLifecycle` is `lifecycle::emit`, with the `from` and `to` literals of each
call. `RunMaintenance`, `CheckDrain`, `DrainAcquire`, `DrainRefused`,
`RereadWake`, `ReleaseToAsleep` are `handle_wake` after the loop.

**Time stamps.** `created_at` of a message is the start of its transaction, so a
message that commits after an UPDATE that started a wake may be stamped before
it, but only until the wake's first event: from then on the chain trigger
(migration 20260501000001, lines 102-117) stamps every append later than the events it
follows. `MessageStamps` is exactly that window.

**Faults.** `"task"`: a task ends at any statement (a failing query, a failing
LLM call in maintenance), or a request dies between append and notify.
`"crash"`: the process loses all tasks, requests, notifications and the sweep's
list. `"listener"`: the LISTEN connection drops, with what was under way on it.

### The wake loop

`WakeTasks` says which task is inside a wake and leaves open what it does there;
`WakeLoop` says what, and leaves out the hops between statuses but for
`AuthorizeExecution`, which its properties speak of. The two share the counter
(`count`), the caps and the ways to end.

**State.** `pc` names the statement the loop is about to execute. `current`,
`attempts`, `dispatched`, `left` and `reason` are the loop's local variables
`current.permission_mode`, `schema_invalid_attempts`, `tool_calls_this_wake`, what remains of
`tool_calls`, and `termination_reason`; `call` is the call in hand with its nonce and the
credentials resolved for it. `log` is what this wake has appended, an event being its type and the
number of the call it belongs to; `effects` is what the executor ran. A request
is a tool and the names of the placeholders in its arguments: `tool_name` and
`capability_shape` of a nonce are that request. A sealed value is known by its row.

**Actions.** A response is `Respond`: an echoed canary, an empty list of choices,
invalid calls, valid calls (perhaps none), text, or a stop, each with or without
a text before it. Then one action per statement of a call: `RecordToolCall`, `Mint`,
`AuthorizeExecution`, one of `Denied`, `NonceRejected` and `Consume`, for a command `Resolve` name by
name or `Unresolved`, `ExecuteShell`, `ToolReturns` or `ToolSleeps`, `IncrementIteration`. Events that
the code appends on a best-effort basis may be missing (`AppendBestEffort`); every other statement may
fail and end the task (`TaskFails`). Beside the loop the operator sets the mode,
credentials come and go, and a nonce's minute passes.

**Histories.** `modes` collects the modes in force since the round's read,
`live` the credentials active at some moment since the call's nonce was consumed. They are what a
gate or a look-up may fairly have seen; no guard reads them.

**The guard.** `GuardedCalls` says what all this amounts to for whoever looks at it from outside: at the
event log, the table of nonces and the commands that ran. Its `recorded`, `authorized` and `answered` are the
numbers of `tool_call`, `AuthorizeExecution` and `tool_result` events, `issued` and `valid` the rows of
`capability_nonces`, `ran` the commands, and `over` is the `wake_end` event. Rounds, responses, modes, credentials and refusals do not appear in it:
`RecordToolCall` is its `Record`, `Mint` its `Issue`, `Consume` its `Spend`, `ExecuteShell` its `Run`, `Unresolved` its `Forgo`,
`EndWake` its `Finish`, `TaskFails` its `Vanish`, and what comes between is a stutter. A call of a wake that vanished stays on record
without an answer, and as the guard's permit is in nobody's hand any more, no later wake spends it.

### The event log

**State.** `rows` is the table, a set of records: the order of the log is an
order of their `at` (`created_at`) and `id`, as in the queries, and not
something the model keeps. A connection is in a transaction from `begin` on:
`begun` is its `NOW()`, `row` what its trigger has filled in and `lock` the
advisory lock. Under READ COMMITTED the trigger's SELECT takes its snapshot
after it has the lock, so it reads the `rows` of that moment; lock and row go with
the transaction, at `Commit` or `Fail`. `CommitsInOrder` is what `WakeTasks`
relies on for its `MessageStamps`.

**Hashes.** `Digest` is a parameter. For TLC a digest is the pair it was computed from, so it
is free of collisions; the proofs name that as a hypothesis (`DigestInjective`) where they
need it. `Genesis` stands for the empty `prev_hash` of the first row.

**The walk and the gate.** `Verified` is `verify_audit_chain`: one SELECT, then link and
hash of each row. `VerifyAuditChain` is `verify_and_emit`, whose verdict is
itself an event to append. `Boot`, `GateOpens`, `GateAcknowledges` and
`GateRefuses` are `enforce_audit_chain_floor_at_startup` between two statements of `main`.

**The client.** `pcy events` remembers the id it saw last. `NewestRows` and
`OldestRows` are the LIMITs of the two queries, which order by `created_at` only: a tie is
any choice.

**Faults.** `Fail` ends any transaction, `Crash` all of them; a
transaction's `NOW()` is any reading, so the clock may be set back; `Alter` is an UPDATE of an event's content, as in
`tests/audit_chain_test.rs`. `damaged` is a history variable: whether a row had been altered
when this start began.

### Spending

**State.** `budget_limit` and `budget_used` are the agent's columns, `llm_calls` the sum of
`cost_usd` over the rows of that table, and `billed` what the provider has charged, which the program cannot see.
`at` names the statement a task is about to execute; `attempt`, `cost`, `staged` and `version` are locals of
`chat`, `insert_llm_call` (with its open transaction) and `run_maintenance`. `late` counts, for the property alone,
the wakes a task has entered while the budget was spent.

**Actions.** `check_budget` and `BeginWake` (`attempt_wake_acquire`) are the head of `handle_wake`; a chat is `AttemptFails`
(no answer, or no 2xx), `Unparsable` or `Answered`; `InsertCall` and `CommitCall` are the transaction; `run_maintenance`,
`insert_projection`, `insert_wake_summary` are maintenance; `Drain` and `Release` end the wake. Who is inside a wake is the lease's
business: the module takes `Begin`, `Renew`, `Finish`, `Vanish` and `Reclaim` from `ExclusiveWake`, which `WakeTasks` is shown to
implement, and so leaves slow wakes out.

### Webhooks

**State.** A secret is the number of its version. A delivery has a key or none, the version it was signed
with (0 if with none) and whether its body parses; two deliveries with equal fields are a retry. `authorized` is a
history variable: the delivery was admissible at some moment since it arrived.

**Actions.** `GetAgent`, `InsertKey`, `AppendEvent` and `Notify` are the statements of `receive_webhook` with the tests before each;
`Fail` is a failing one and `Drop` the sender that hangs up, which ends a handler at an await. A
rotation is a transaction of UPDATE and event; the UPDATE shows only at its commit.

### Bootstrap and providers

**State.** `rows` counts the rows of the five tables bootstrap fills, `setup` says which one a client is about to fill. A provider is
known by its row number; `held` are the rows an open `set_default` has updated and thereby locked, `chosen` the one it makes the default, neither
visible to others before its commit. `rows_then` and `default_then` are history: the table as it was at a request's last look. `DefaultIndex` is what the partial unique index sets against a
new default, and `DefaultIsInDoubt` makes a statement wait for the other transaction, as PostgreSQL does.

**Composition.** `Ask` is guarded by `auth_middleware`, so nobody touches the registry before a bootstrap has reached
its membership; `ChangeCredential` is the table of `Credentials` in the same workspace; `resolve_default` and `FindKey` are the two
statements of `resolve_workspace_llm`.

### The sandbox

**State.** A host is what the probes can read, an environment what the operator set; `serving` and `starts` are the server. A call
has three processes: the monitor (the bwrap that was spawned), the main process in the new namespace (`stage`: forked, a stage
of the wrapper, the command), and one that the command may leave behind. `conf` is everything that confines the main process. `journal` is what the kernel has recorded of Landlock
denials: whose it is, which pids the record names (a process and its parent), and when it was made, in three intervals: up to the call's return, up to 250 ms after it, and later.
`logged` is how much of it has reached the audit log, which the daemon writes in its own time. A pid is a call and a role, the first process of
the namespace being one of the roles, and `audit_pids` the set of those sampled so far.

**Actions.** The task of a call is `dispatch_tool` for `shell`: `OpenAudit`, the spawn, `attach_cgroup_to_child` or `AttachFails`, the
wait with its deadline, and the two reports. `collect_process_tree_pids` is one sample, which finds a process only by way of its parent, at any time while bwrap is
there. After the return `AppendDenials` is one pass over what the source shows, again and again until the deadline or the quiet period is over; the test of a
record is `audit_record_matches_context`, skew included; `ReadFails` may come after some appends of a pass. The processes act on their own from the
spawn on, so bwrap may have forked, and the command be over, before the cgroup is joined. `WrapperStep` applies one stage of `pincery-init`
(`After`, `GoesOn`) unless the filter that bwrap has already installed kills it (`DeniedAt`). `Stop` and `Crash` end the server at
any moment, and `Start` may bring it up under other settings while processes of the last one still die.

**External.** What bwrap sets up (`SetUpBy`), how death spreads (`MonitorEnds`, `NamespaceDies`), what an audit record names (`Denied`, `Moments`) and when it is
logged (`Logged`) are modelled from how the code uses them.

## 3. Runs

| Run | Constants | Checks | Shows |
|---|---|---|---|
| `exclusive` | 2 tasks, caps 2 and 2, 3 arrivals of either kind, budget, all faults, no slow wakes | `TypeOK`, `OneWakeAtATime`, `RowIsWhereTaskThinks`, `PriorStatusIsCurrent`, `LogFollowsRow`, `CountIsThisWakes`, `SweepTakesAbandoned`, `UnreadMessageIsPending`, `ImplementsLease` | With every fault, two tasks never share a wake, row, log and counters agree, the first drain check sees every unread message, and the machinery implements the lease |
| `recovery` | The row: 2 tasks, caps 0 and 1, 2 messages, task faults, **slow wakes**. The accounts: 2 tasks, prices and limits 0 and 1, 2 chats a loop, 4 wakes, 2 units charged, every fault, no slow wakes | `CanonicalTransitions`, `ReturnsToRest`; `FewWakesAfterTheBudget`, `UsedIsTheSumOfCalls`, `VersionsIncrease` | Even when the sweep takes the row from running tasks, it moves only along canonical edges and always comes back to `asleep`. Whatever fails or is retried and however the limit moves, a spent budget stops wakes but the one a task had passed the test for and its drained one, accounts agree and versions have no gap |
| `slow` | 2 tasks, slow wakes, no faults | `OneWakeAtATime`, violated | A wake older than `stale_wake_hours` is released under a running task, and a second task enters beside it |
| `lost` | 2 tasks, no faults, no slow wakes, fair | `MessageInWakeIsRead`, violated | A message after the last drain check, whose own task finds the row busy, is never read |
| `webhook` | 2 tasks, webhooks only, no faults, fair | `WebhookIsRead`, violated | A webhook wakes the agent and no prompt shows it |
| `loop` | 1 wake, caps 2 and 2, schema cap 2, responses of up to 2 calls, 2 remarks, 2 modes, 1 credential, every fault | `TypeOK`, `SecretsAreCurrent`, `EffectsAreLogged`, `CallsAreAnswered`, `NonceGuardsEffect`, `GateUsesARecentMode`, `DispatchesBounded`, `TerminalEventsAreLast`, `FailureIsEarned`, `ImplementsGuard` | With any sequence of responses and anything changing between two statements, a command runs only logged, allowed, on a nonce of its own and with a credential that was active; calls are answered in turn; caps hold; and from outside the loop is the guard of its calls |
| `endless` | 1 wake, caps 1, fair | `WakeEnds`, violated | Text without a stop goes round for ever |
| `chain` | 2 connections, 3 ids, `NOW()` 0 or 2, pages of 1, an empty log or two rows of the same time from before the migration, `RELAXED` alone or both variables, every fault | `TypeOK`, `FaultsAreAlterations`, `CommitsInOrder`, `TailMissesNothing`, `DamageStopsTheStart` | With inserts, verdicts, restarts, alterations and a clock set back in any order, the walk finds fault with exactly the altered rows, commits are in the order of `created_at`, a follower skips nothing, and a damaged log stops the start |
| `api` | 2 deliveries, 1 key, 2 secrets; 2 clients; 2 administrators, 1 wake, 2 provider names, 2 rows, 2 credential names, 2 rows | `DeliveredAtMostOnce`, `AcceptedWasAuthorized`, `BootstrapsOnce`, `KeyGoesToItsProvider`, `DefaultIsHandedOn` | Requests that interleave, fail and are dropped at any statement append a delivery once, accept only what was admissible, set up once, keep one default and send no key to a stranger |
| `retry` | 2 deliveries, 1 key, 1 secret | `AnsweredIsLogged`, violated | A retry after a failure between key and event is answered 200 with nothing in the log |
| `default` | 2 administrators, 2 provider names, 2 rows | `ProvidersHaveADefault`, violated | A create or a delete whose count another request has overtaken leaves providers without a default |
| `sandbox` | 1 call, 5 hosts, 5 environments, 2 profiles, 2 starts; 2 denials in one of these cases | `TypeOK`, `CommandIsConfined`, `ReportedDenialIsTheCommands`, `SampledDenialsAreAppended`, `StrictFloorAdmitsCalls`, `NothingIsLeftRunning` | On every host and setting that starts, with every failure, stop and crash, a command runs fully confined or not at all, what is reported as its denied system call was its own, and its processes die. However late records reach the log, whichever processes were sampled or stay behind, and wherever the source fails, a call appends denials of its own, made before its return or within the skew, and all it was shown of them |

**What the safety properties rule out.** `OneWakeAtATime` and `ImplementsLease`:
any two tasks in wakes of the agent, a wake id used twice, a wake taken from a
task that is inside it. `RowIsWhereTaskThinks`: a compare-and-swap of a wake that
fails because of someone else (the code's "runtime invariant break").
`PriorStatusIsCurrent`: a terminal event with a wrong `from`, which the
SELECT-then-UPDATE of `TerminalEndsWake` could produce. `LogFollowsRow`: a
log that disagrees with the row except between a hop and its own event.
`CountIsThisWakes`: a count left over from another wake, which would end a wake
before its cap. `SweepTakesAbandoned`: a selected row that has become someone's
wake by the time of the UPDATE. `UnreadMessageIsPending`: a message between
prompt and drain check that is stamped too early for the check.

`EffectsAreLogged`: a command without its record, or two commands for one record.
`CallsAreAnswered`: a refusal or failure that leaves a hole between two calls of a
response. It is content with a denial on record, as the documents are; that the code appends a result besides is told in section 5, and `ImplementsGuard`
follows the code there. `NonceGuardsEffect`: replay, a late call, a nonce spent on another request
or in another wake. `SecretsAreCurrent`: a look-up that finds a revoked row, or a
command that runs with half its credentials. `GateUsesARecentMode`: a mode from
an earlier round. `DispatchesBounded`: a cap off by one, and the overshoot of the
iteration cap, which is tested once per round. `TerminalEventsAreLast`: work after
a canary. `FailureIsEarned`: a wake given up before there have been as many
invalid responses since its last call as the cap says. `ImplementsGuard`: a step out of the
order that the others speak of piece by piece, such as a command run twice on one nonce, and a later wake that takes up the call of one that died.

`FaultsAreAlterations`: a fork of the chain by two inserts at once, a row
stamped before its predecessor, a false alarm, and an alteration that goes unnoticed or is put
down to another row. `CommitsInOrder` and `TailMissesNothing`: an event that commits behind
a cursor which has already passed its time. `DamageStopsTheStart`: a server that
runs on an altered log because of an error, a race or one of the two variables alone.

`FewWakesAfterTheBudget`: a limit that is off by one, a second notification that gets through on
a stale row twice, a drain that renews itself for ever. `UsedIsTheSumOfCalls`: a half-done transaction, a cost counted twice over
the attempts. `VersionsIncrease`: two maintenances of one version, a version from before the last wake, a summary without its projection.

`DeliveredAtMostOnce`: two deliveries of one key that both get past it. `AcceptedWasAuthorized`: a signature under a
replaced secret, an event for an agent disabled since before the delivery. `BootstrapsOnce`: two administrators, a workspace
with no owner behind a 201. `DefaultIsHandedOn`: two defaults from two requests at once, a moment without one in the
middle of `set_default`, and a create or delete that leaves providers without a default although the table is as it was at its look. It excuses one whose look
is out of date; AC-93, the refusal's message and the tests do not, which is what run `default` shows. `KeyGoesToItsProvider`: a key read for
one provider and sent to another's URL.

`CommandIsConfined`: a layer lost to a failure, a default, a restart under other settings or the order of the wrapper's
stages. `ReportedDenialIsTheCommands`: a filter that kills the wrapper, once reported by its authors as having happened.
`SampledDenialsAreAppended`: a denial of before, of after the skew, or of somebody else, and one that the source had shown and no pass took.
`StrictFloorAdmitsCalls`: the two floors apart. `NothingIsLeftRunning`: a process that outlives the deadline, the stop or the crash.

**Bounds, and why they are enough.** Two task slots: every property but the
lease is about one task or a pair; a third notification finds a free slot or
waits, as a third task would wait for the row. Three arrivals: one to start a
wake, one to be drained inside it, one to race the release; with a fourth
nothing meets that has not met. Caps of 2 let a wake make one tool call and go
round, one more and be cut. In `recovery` a cap of 0, which `config.rs` accepts, cuts
every wake at its first round, so that two tasks in slow wakes remain small enough for a temporal
property; the theorem `TransitionsCanonical` covers its action property with tools. What `ReturnsToRest` then
leaves out is a wake that dies among its tools; `find_stale_agents` names those statuses in the same list. `MaxSends` is the
only bound on a counter: wakes are started only by notifications and drains, so
it bounds `minted` and with it the state space; no other guard was added.
A run's `Tasks` are not declared symmetric, because one of its properties
is temporal. In `chain`, two connections are a pair in a race for the lock, and three
ids give every order of ids against times. The two legacy rows share a time stamp, as the old
default allowed. A page of 1 puts a page boundary between any two events. The
clock has two readings with room between them, where the trigger's tie-break puts rows, so that
without the lock an event could commit between two others; rows that the trigger moves pass beyond both. `Writers` are symmetric: all properties of
that run are safety.

In `loop`, the second call may cross the iteration cap and the third the rate limit,
in one response or in two; two remarks leave room for two invalid
responses with or without a valid one between them. One wake and one value of a credential are enough for the
properties of that run, which speak of one wake; that a nonce of an earlier wake is of no use is
left to the theorem `NoncesGuard`, which has no bound on wakes, and that a command may
name several credentials to `SecretsCurrent`, which has none on names. `MaxBatch`, `MaxRemarks`, `MaxCredentials` and
`MaxWakes` are the bounds of the model; the proofs hold for any value of them.

`recovery` also runs the accounts. `WakeTasks` and `Spending` share no variable there, so their steps commute, and no property speaks
of both: `MCRecovery` lets one of them run while the other has not begun. Four wakes are two by notification and their drained ones, in either task or
both; a limit of 1 with at most 2 charged can be met exactly, passed, lifted and set again; a chat has always its three
attempts. The theorems have none of these bounds.

In `api`, webhook ingress and the registry share no variable, so their steps commute and `MCApi` lets one of them run while
the other has not begun. A further constraint, `SettledOnceInUse`, does the same for bootstrap and login within the registry: once an administrator has made
a request, nobody sets up or logs in any more and the session lasts, for the registry asks of them only that `auth_middleware` lets a request
in. Two administrators are a pair in a race; one wake reads between their statements. With two secrets one rotation may fall between any two statements of a delivery; the theorems have no bound.

In `sandbox`, calls share the server, the audit log and nothing else; `DenyElsewhere` stands for the other ones. The hosts
differ in what the code tells apart: ABI 7, 6 and 3, cgroups delegated or not, a wrapper or none, bwrap old enough to refuse; the environments are
Enforce, Audit, Disabled, an identity of 0 and the relaxed floor. Two starts are one restart. The constraint
`DenialsWhereAudited` follows denials on the host that keeps an audit log only, in its first start in Enforce, with the production profile: `OpenAudit` is the same on every such host, neither restarts nor
cgroups change what is read, and no denial changes a process or an answer, so the other properties lose nothing by it. Two denials are two of the call's, with the end of a
pass or a failing append between them, or one beside somebody else's, each before the return, in the skew or past it, and logged at any time after.

**Fairness** (`FairSpec`). Weak, for each task's next statement, for a started
request's notify, for the listener's connection, for the sweep's two statements
and for time. The code justifies it: tokio polls every spawned task, each
statement and each LLM call returns or fails within its timeout, the listener
reconnects in a loop and the sweep runs every 60 seconds for the life of the process. Nothing is assumed of messages, the operator or faults.
`ReturnsToRest` needs no bound on faults: there are finitely many arrivals, so
finitely many tasks. `WakeLoop` has weak fairness of the loop's next statement only
(`tokio::spawn` polls the task to its end), and needs it for run `endless` alone.

`Sandbox` has weak fairness of `MonitorEnds` and `NamespaceDies`, that is, of the
kernel delivering a SIGKILL, or bwrap noticing that its child is gone, and of nothing else: a command may run for ever, and the server's task need not go on.

**Where the system may stop.** Nowhere in the wake model: the operator can always PATCH, so
deadlock checking stays on and says little; progress is what `ReturnsToRest` is
for. Run `endless` has one mode and no credentials, so that nothing is left to do once its
wake is over, and there a deadlock is no error. The same goes for `sandbox`, whose server may be down for good.

## 4. Proofs

| Theorem | Module | Assumes |
|---|---|---|
| `TypeCorrect`: `Spec => []TypeOK` | `WakeProofs` | nothing beyond the constants' assumptions |
| `ExclusiveHolds`: `Spec => []ExclusiveTypeInv` | `WakeProofs` | `SlowWakes = FALSE` |
| `Exclusive`, `NoInvariantBreak`, `SweepIsSafe`, `RestLeavesNothing` | `WakeProofs` | `SlowWakes = FALSE` |
| `LogAgrees`, `CountAgrees`, `PriorAgrees` | `WakeLeaseProofs` | `SlowWakes = FALSE` |
| `UnreadIsPending`: `Spec => []UnreadMessageIsPending` | `WakeLeaseProofs` | `SlowWakes = FALSE`, `IterationCap > 0` |
| `LeaseImplemented`: `Spec => Lease!LeaseSpec` | `WakeLeaseProofs` | `SlowWakes = FALSE` |
| `TransitionsCanonical`: `Spec => CanonicalTransitions` | `WakeLeaseProofs` | nothing beyond the constants' assumptions |
| `TypeCorrect`, `CallsBounded`, `EffectsLogged`, `GateIsRecent`, `NoncesGuard`, `SecretsCurrent`, `TerminalLast`, `CallsAnswered`, `FailureEarned`: `Spec =>` the `[]` of the property each is named after | `WakeLoopProofs` | nothing beyond the constants' assumptions |
| `GuardImplemented`: `Spec => Guard!GuardSpec` | `WakeLoopProofs` | nothing beyond the constants' assumptions |
| `TypeCorrect` | `EventChainProofs` | nothing beyond the constants' assumptions |
| `ChainIsSound`: `Spec => []FaultsAreAlterations` | `EventChainProofs` | `DigestInjective` |
| `InOrder`: `Spec => CommitsInOrder` | `EventChainProofs` | nothing beyond the constants' assumptions |
| `TailIsComplete`: `Spec => []TailMissesNothing` | `EventChainProofs` | nothing beyond the constants' assumptions |
| `GateHolds`: `Spec => []DamageStopsTheStart` | `EventChainProofs` | `DigestInjective` |
| `SpendingTypeCorrect`, `BudgetStopsWakes`: `Spec => []FewWakesAfterTheBudget`, `AccountsAgree`: `Spec => []UsedIsTheSumOfCalls`, `VersionsAreInOrder`: `Spec => []VersionsIncrease`, `WakesAreTheLeases`: `Spec => LeaseSpec` | `SpendingProofs` | nothing beyond the constants' assumptions |
| `IngressTypeCorrect`, `KeysDeliverOnce`: `Spec => []DeliveredAtMostOnce`, `AcceptanceIsAuthorized`: `Spec => []AcceptedWasAuthorized`, `RotationsAreLogged`: `Spec => []RotationIsLogged` | `WebhookProofs` | nothing beyond the constants' assumptions |
| `RegistryTypeCorrect`, `OneBootstrap`: `RegistrySpec => []BootstrapsOnce`, `KeysGoToTheirProviders`: `RegistrySpec => []KeyGoesToItsProvider`, `DefaultsAreHandedOn`: `RegistrySpec => DefaultIsHandedOn` | `ProviderProofs` | nothing beyond the constants' assumptions |
| `SandboxTypeCorrect`, `CommandsAreConfined`: `Spec => []CommandIsConfined`, `ReportsAreTheCommands`: `Spec => []ReportedDenialIsTheCommands`, `DenialsAreAppended`: `Spec => []SampledDenialsAreAppended`, `FloorsAgree`: `Spec => []StrictFloorAdmitsCalls` | `SandboxProofs` | nothing beyond the constants' assumptions |

Those of the wake hold for any set of tasks, any caps, any number of arrivals and any faults;
those of the loop for any caps, any length of responses, any number of wakes, any modes, requests and
credentials; those of the log for any connections, any ids, any backfilled log, any page size and any clock; those of
the last four modules for any tasks, prices and limits, any deliveries and rotations, any clients, administrators and providers, and any calls,
hosts, settings and restarts.
`SlowWakes = FALSE` cannot be dropped: run `slow` is its counterexample. Nor can `IterationCap > 0`: under a cap of 0, which
`config.rs` accepts, a wake assembles no prompt, and the message that started it is older than the wake and stays unread.

*The argument.* `OneWakeAtATime` is not inductive: an acquisition is exclusive
because the row is `asleep` when it succeeds, so the invariant must say that a
task inside a wake makes the row something else, and what (`RowIsWhereTaskThinks`).
That is disturbed by the sweep, so it must also say that what the sweep has
found is abandoned (`SweepTakesAbandoned`), hence that only abandoned wakes go
stale, and that a row at rest is not stale (`RestIsClean`). Their conjunction,
with the types, is inductive: `ExclusiveTypeInv`. The proof has one step per
action; the steps of a task that stays in its wake, ends it, or is still outside
share the lemmas `OwnerMoves`, `TaskEnds` and `FreeMoves`.
On top of it `RecordsAgree` (log, count, prior status) is inductive on
its own, because only the task inside the wake writes what it speaks of.
For the high-water mark, `MarkIsSound` says that a task inside a wake carries the newest wake id and, once the wake has
assembled a prompt (`HasPrompted`: the statement it stands at tells, and at the head of the loop the count does), that a message still unread has
a stamp of this wake: an older stamp is possible only until the wake's first event, and the prompt comes after that.
The lease maps `holder` to the one task inside a wake, `wake` to the row's wake id
and `issued` to `minted`: an acquisition is `Begin`, a drain `Renew`, the release
`Finish`, a task's failure `Vanish`, the sweep's UPDATE `Reclaim`, and everything else
a stutter; a crash is `Vanish` too, as at most one task held a wake.

For the loop, each invariant says where the loop stands and what that position
owes. `CountInv`: inside a wake `dispatched` is the row's counter, and with `left` it stays
below the cap and one response. `EffectInv`: from `AuthorizeExecution` on, the call in
hand has both its events, and no command has its number until it has run. `NonceInv`: the
ticket of a call that has not been redeemed is unspent, and no command that ran has it, so what
the call spends nobody has spent. `SecretInv`: what has been resolved and what has not add up to the
request, and the resolved rows are among `live`; it needs that rows are only added
and never change their name. `TerminalInv`: a terminal event is the last one, and the loop stands
where only `wake_end` can follow. `AnswerInv`: the last recorded call is answered, the denied one too, unless
it is the one in hand. `FailureInv`: the retries counted are on record since the last call, and where a call
may be recorded none is counted, so that the record of one, which empties the set, finds the count empty too. The proofs go action by action, over lemmas on what `Append` leaves alone.

The refinement of the guard needs one invariant more, `GuardInv`: how the numbers of events stand to one another at each statement. Outside a
call all three are equal; between its record and its answer `recorded` is one ahead, and `authorized` follows at the hop. `MarksGrow` says that an append counts under its
own type only, `PermitMinted` and `PermitTaken` what mint, redemption and expiry do to the valid nonces, `UnseenSteps` which steps the guard does not see;
`GuardSteps` then names, action by action, the step of the guard.

For the log, the walk compares a row with its predecessor, so the invariant must
say what a row that has not committed yet will follow. `ChainInv` says that ids are unique
and each row is linked as the walk wants (`LogOK`), that a connection which has filled in a row
holds the lock (`LockInv`), and that this row is later than the newest one in the log
and carries its hash. Only the holder of the lock commits, so the newest row cannot
change in between. Order and tail follow from the last part: what commits is
later than any cursor. For the gate, a walk that found the log verified
found no row altered at that moment (`GateInv`), and an altered row stays altered; for
that the digest must be injective, as it must be for a fault to be seen at all.

For the budget (`SpendingInv`): a task inside a wake is the lease's holder, so a second task can neither account nor write a projection in between.
`LateAreFew`: who has entered a wake late has no passed test in hand any more and, the second time, stands in its drained wake, from which it only leaves.
`CallsAreAccounted`: what an open transaction has staged is the cost at hand, and cost and budget together are covered by what was charged.
`VersionsAreCurrent`: from its read to its insert the version of a maintenance is the number of rows, because only the holder inserts.
`WakesAreTheLeases` closes the gap between the two models: `Spending` is written on the variables of the lease, and the theorem says that it obeys it, so that
what it assumes of wakes is what `LeaseImplemented` proves of the machinery.

For webhooks (`WebhooksInv`): of the deliveries of one key at most one is past the look at it (`KeysLetOnePast`), and who has got past the row was admissible when
it was read (`AdmissionIsOnRecord`), whatever has rotated since.

For bootstrap, past the insert of the user there is one client at most, because that insert meets a unique constraint, and the row it is about to insert is
not there yet (`OneGetsPast`, `Frontier`). For the registry, an open `set_default` holds the lock of every default there is, so that another's
default can neither be cleared nor chosen beside it (`Settled`); and what a wake has picked is a row that is never rewritten, whether deleted or not (`Resolved`).
For the default, `LooksAreObeyed` says what a request's last look allows it: who inserts a sibling saw a row, and who deletes saw that its row was not the default or that there was no
other. So if the table is still as it was then, an insert finds a default's row there and a delete leaves the default, or nothing.

For the sandbox, the invariant says of each stage which layers are on by then (`ConfinedInv`), and of a call that waits in Enforce that the monitor is in its cgroup. A
restart does not disturb either, because what a process was told is in its arguments and not in the settings.
For its denials, `SyscallInv` says that the exit code 159 is that of a process which is over and, if it was wrapped, had all of Landlock's layer
on: no stage of the wrapper makes a call that is not on the filter's list (`FilterListsTheWrappers`), so nothing dies of one before the command starts. `AuditInv` says that a pid belongs to one call, so that a
record which matches is the call's own; that what was in the log when the source was opened is behind the mark; and that whatever the mark has passed since and matches for good, because it was made in time and
the sampling is over, has been appended. A pass takes all up to the new mark, a failing one a part, after which the call is not one whose source held.

*Only model-checked.* `ReturnsToRest` and `NothingIsLeftRunning`: liveness under fairness is beyond the prover, and so is
ENABLED. Every other property of a run that passes is a theorem.

## 5. What the checks found

Eight statements in the documentation, comments or tests that the code does not keep. A run shows each of the first six, which `PROJECT.json`
quotes under `findings`; the last two follow from one action each, with no interleaving to look for.

1. *Exactly one wake at any time* holds only while wakes are faster than
   `stale_wake_hours`: the sweep releases by age, nothing tells the running
   task, and the hops' WHERE clauses do not name the wake (run `slow`).
2. *Messages newer than the high-water mark get a follow-up wake*: not those
   that commit between the last check and the release (run `lost`).
3. *The prompt has webhook payloads in it, marked as untrusted*: it has none, because
   `assemble_prompt` skips the event type that `receive_webhook` appends (run `webhook`).
4. *Text puts the agent to sleep, and the iteration cap ends the rest*: text that was cut off, and an
   empty list of calls, do neither (run `endless`). A wake that
   goes on so is ended by its task's failure, or taken from it by the sweep.
5. *Valid webhooks are recorded, and duplicates return 200 without re-processing*: a delivery that fails after its key was committed is
   not recorded, and its retry is taken for a duplicate (run `retry`).
6. *The environment's key is used only where there is no provider* (AC-93), and *a default with siblings is not removed*: a default is lost when a sibling is created, or
   the default moved, between a delete's count and its DELETE, and when a create has counted a provider that is deleted before its INSERT (run `default`).
7. *A denied call leaves no `tool_result`*: AC-35 (`scaffolding/scope.md:384`) has "zero `tool_result` events for that wake", and `tests/capability_gate_test.rs:291` "denied call must not
   generate a tool_result event". `dispatch_tool` appends none, and that is all the test calls; but it returns an error, and the loop appends a `tool_result` for every error
   (`wake_loop.rs:656-670`). In the model, `Denied` leads to `ToolReturns`, whose event is not optional.
8. *The budget is read before each acquisition, and a spent one rejects it* (AC-23, `scaffolding/scope.md:239`): not before the drain's (`drain.rs:29-51`). In the model, `Drain` has no
   such guard, and a wake that spends the budget may be drained into another one. `FewWakesAfterTheBudget` is the bound that is left.

Met while reading, and modelled as the code has it:

- A response that ends a wake for an echoed canary is not recorded in `llm_calls`, although it was paid for; nor are answers that were lost, attempts
  that failed, or calls whose transaction fails. Hence the `<=` in `UsedIsTheSumOfCalls`.
- Only valid calls reset `schema_invalid_attempts`, a text does not, so the responses it counts need not be consecutive.
- An agent disabled between the drain's look and its re-acquisition stays in `maintenance` until the sweep (`ReturnsToRest` shows that it comes), although
  `models/agent.rs:274-276` lets its wake finish through to `release_to_asleep`.
- The mode of the gate is read at the head of the round: a lock-down takes effect with the next round, not on "the next call" of `wake_loop.rs:484-487`. `GateUsesARecentMode` is what does hold.
- Maintenance uses the process-wide LLM client, whatever provider the workspace has.
- `docs/SECURITY.md:133-138` gives deduplication a TTL of 48 hours and the answer 409, and rotation an overlap of secrets; the code has no TTL, answers 200 and accepts one secret.
- The comment on `delete` (`models/llm_provider.rs:174-176`) and AC-93 (`scaffolding/scope.md:960`) have the refusal the other way round from the code (`199-205`) and its tests:
  "refuses if `is_default=true` unless another provider exists".
- A bootstrap that fails half-way can never be repeated (409), and a login then gets a session that the middleware refuses (403). The loser of two
  bootstraps at once gets 500 and not 409.
- `sweep_leaked_cgroups` has no caller, although `cgroup.rs:31-33` and `154-158` say it reaps at the next startup.

## 6. Not modelled, and why

In the modelled components: the legacy statements `acquire_wake`,
`transition_to_maintenance` and `drain_reacquire` (nothing in the runtime
calls them any more); the `budget_exceeded`, `stale_wake_recovery` and tool
events (no property reads them); the wording of prompts and events; what is in an LLM
response, beyond which way the loop goes next; a second agent (no statement touches two
rows). A failed lifecycle append ends the task, like every other failed statement.

In the log: several agents or workspaces in one pass of the gate (the chain of one
reads nothing of another's, and the gate takes the worst verdict); the details that a
verdict of a broken chain reports; alterations of hashes or times, and deletions, which a
tamperer could complete by rehashing what follows. Rows from before the
migration may share a time stamp, and then a cursor on one of them skips
the others: `TailMissesNothing` speaks of events with a time of their own.

In the wake loop: the hops (see `WakeTasks`) and therefore two loops at once after a
slow wake; the event that no provider was found; the window of events
that a prompt shows; the output of commands and what the kernel's audit adds to the log; a
consuming UPDATE that commits while its answer is lost (the call is then refused with
its nonce spent, which no property is about). Several placeholders of one name are
looked up once.

In `Spending`: slow wakes, because the lease excludes them; with them two maintenances may read one version. Token counts and
the arithmetic of a price (a cost is a small number).

In the API: reading requests, validation of names and URLs, the creation of agents, the rate limiter (a library), what is in an event. A session is there or
not; its token and hash are not.

In the sandbox: reuse of pids within the seconds in which a call's records are read, records that the audit daemon loses or reorders, a clock set during a call (a time stamp is in the interval
in which the denial was met), the two seconds and 250 ms as durations (a pass may be the last one at any time), the cgroup's directory and its
removal, the environment a command gets, the list of paths of a profile, the netlink transport and the parsing of records. The default profile of the production build has no cgroup;
the model has profiles with and without. Only the refusals that depend on state are modelled apart (`Refuse` stands for all others).

Out of scope for good: what the kernel and bwrap enforce, cryptography, HTTP and SQL libraries, metrics, logging,
health and OpenAPI, and the command-line client but for the loop that follows a log: a sequential program that keeps no state but its own configuration file.

## 7. Plan

The modules of the plan are written: the wake (`AgentRow` to `WakeLeaseProofs`), the log, the loop with its nonces and credentials,
the budget and projections, webhook ingress, bootstrap and providers, and the sandbox with the startup floors.

What would come next, in this order: that the task of `WakeLoop` refines the statements of one task of `WakeTasks`; `Spending` on `WakeTasks` itself, with slow
wakes; the window of events a prompt shows; the cgroup's directory and who removes it.
