------------------------------- MODULE Sandbox -------------------------------
(***************************************************************************)
(* Shell commands and the processes they become.  The server comes up on a *)
(* host under an environment, or refuses to; its calls run beside each     *)
(* other, each spawning a bwrap (or a plain sh), attaching it to a cgroup, *)
(* waiting for it with a deadline and reading the kernel's audit records   *)
(* afterwards.  Meanwhile bwrap forks, sets up, becomes the wrapper and    *)
(* then the command, and the server may stop or crash at any moment.       *)
(*                                                                         *)
(* The processes of a call are the monitor (the child the server spawned), *)
(* the first process of the new pid namespace, the command's main process  *)
(* below it, and one more that the command forks and may leave behind.     *)
(***************************************************************************)
EXTENDS SandboxPolicy

CONSTANTS
    Calls,              \* shell calls, each made once
    Hosts,              \* the machines to consider
    Environments,       \* the operators' settings to consider
    Profiles,           \* the SandboxProfiles calls may be made with
    MaxStarts,          \* bound: starts of the server
    Nobody,             \* stands for the host's other processes
    MaxDenials          \* bound: Landlock denials the kernel records

ASSUME SandboxAssumption ==
    /\ Hosts \subseteq Host
    /\ Environments \subseteq Environment
    /\ Profiles \subseteq SandboxProfile
    /\ MaxStarts \in Nat /\ MaxDenials \in Nat
    /\ Nobody \notin Calls

VARIABLES
    host,               \* the machine
    env,                \* what the operator set for this start
    serving,            \* the server is up
    starts,             \* starts so far
    pc,                 \* where the task of a call is
    outcome,            \* what the executor returned
    opened,             \* how far the call's audit source is read; Unset without one
    profile,            \* the profile of a call
    args,               \* what its bwrap was told
    monitor,            \* the spawned child: none, alive, killed (not yet dead), gone
    stage,              \* the main process: none, forked, a wrapper stage, command, over
    conf,               \* what confines the main process
    child,              \* what the command forked: none, attached to its pipes, detached, gone
    exit_code,          \* of the main process
    audit_pids,         \* the pids of its process tree that were sampled
    capped,             \* which of its processes are in its cgroup: monitor, main
    journal,            \* the kernel's records of Landlock denials
    logged,             \* how many of them have reached the audit log
    denials,            \* the records a call appended as landlock_denied
    reported            \* the call appended a sandbox_syscall_denied

vars == <<host, env, serving, starts, pc, outcome, opened, profile, args, monitor, stage, conf,
          child, exit_code, audit_pids, capped, journal, logged, denials, reported>>

server == <<host, env, serving, starts>>
process == <<args, monitor, stage, conf, child, exit_code, audit_pids, capped>>
audit == <<journal, logged>>

mode == ResolvedMode(env)

MainAlive(c) == stage[c] \in {"forked", "command"} \cup WrapperStages
MonitorAlive(c) == monitor[c] \in {"alive", "killed"}
ChildAlive(c) == child[c] \in {"attached", "detached"}
Alive(c) == MonitorAlive(c) \/ MainAlive(c) \/ ChildAlive(c)

\* The pids of a call's processes; none is used again while its records are read.
Pid(c, role) == <<c, role>>
Roles == {"monitor", "init", "main", "child"}
Pids == {Pid(c, role) : c \in Calls, role \in Roles}

Init ==
    /\ host \in Hosts
    /\ env \in Environments
    /\ serving = FALSE
    /\ starts = 0
    /\ pc = [c \in Calls |-> "idle"]
    /\ outcome = [c \in Calls |-> "none"]
    /\ opened = [c \in Calls |-> Unset]
    /\ profile \in [Calls -> Profiles]
    /\ args = [c \in Calls |-> PlainArgs]
    /\ monitor = [c \in Calls |-> "none"]
    /\ stage = [c \in Calls |-> "none"]
    /\ conf = [c \in Calls |-> Unconfined]
    /\ child = [c \in Calls |-> "none"]
    /\ exit_code = [c \in Calls |-> 0]
    /\ audit_pids = [c \in Calls |-> {}]
    /\ capped = [c \in Calls |-> {}]
    /\ journal = << >>
    /\ logged = 0
    /\ denials = [c \in Calls |-> {}]
    /\ reported = [c \in Calls |-> FALSE]

-----------------------------------------------------------------------------
\* The server.

\* main, up to the listener; a refusal exits with a code and changes nothing.
Start ==
    /\ ~serving
    /\ starts < MaxStarts
    /\ starts' = starts + 1
    /\ env' \in Environments
    /\ serving' = StartsUp(host, env')
    /\ UNCHANGED <<host, pc, outcome, opened, profile, audit, denials, reported, process>>

InFlight(c) == pc[c] \notin {"idle", "done", "lost"}

\* The end of the shutdown's grace period drops the calls in flight, and with each its
\* child.
Stop ==
    /\ serving
    /\ serving' = FALSE
    /\ pc' = [c \in Calls |-> IF InFlight(c) THEN "lost" ELSE pc[c]]
    /\ monitor' = [c \in Calls |->
                      IF InFlight(c) /\ monitor[c] = "alive" THEN "killed" ELSE monitor[c]]
    /\ UNCHANGED <<host, env, starts, outcome, opened, profile, args, stage, conf, child,
                   exit_code, audit_pids, capped, audit, denials, reported>>

\* A crash runs no destructor; the kernel kills the children that asked for it.
Crash ==
    /\ serving
    /\ serving' = FALSE
    /\ pc' = [c \in Calls |-> IF InFlight(c) THEN "lost" ELSE pc[c]]
    /\ monitor' = [c \in Calls |->
                      IF monitor[c] = "alive" /\ args[c].die_with_parent
                      THEN "killed" ELSE monitor[c]]
    /\ UNCHANGED <<host, env, starts, outcome, opened, profile, args, stage, conf, child,
                   exit_code, audit_pids, capped, audit, denials, reported>>

-----------------------------------------------------------------------------
\* One shell call.

\* dispatch_tool opens the audit source before it runs the command; without ABI 7 or
\* a readable source there is none.
OpenAudit(c) ==
    /\ serving /\ pc[c] = "idle"
    /\ pc' = [pc EXCEPT ![c] = "run"]
    /\ opened' = [opened EXCEPT ![c] =
          IF host.abi >= LANDLOCK_AUDIT_ABI_FLOOR /\ host.audit_log
          THEN logged ELSE Unset]
    /\ UNCHANGED <<server, outcome, profile, process, audit, denials, reported>>

AfterRun(c) == IF opened[c] = Unset THEN "report" ELSE "read"

Return(c, result) ==
    /\ outcome' = [outcome EXCEPT ![c] = result]
    /\ pc' = [pc EXCEPT ![c] = AfterRun(c)]

\* sudo is refused; and a directory, an identity, a descriptor, the wrapper's binary
\* or the spawn itself may fail, whatever the mode: nothing has been spawned.
Refuse(c) ==
    /\ serving /\ pc[c] = "run"
    /\ \E result \in {"Rejected", "Err"} : Return(c, result)
    /\ UNCHANGED <<server, opened, profile, process, audit, denials, reported>>

\* RealSandbox::run up to its spawn, and the first sample of the process tree.
SpawnBwrap(c) ==
    /\ serving /\ pc[c] = "run" /\ Sandboxed(mode)
    /\ resolve_sandbox_identity(env)
    /\ ~LandlockRefuses(host, mode, profile[c])
    /\ Wrapped(host, profile[c]) => host.wrapper
    /\ \E filter \in compose_seccomp_fd(mode, profile[c]) :
          args' = [args EXCEPT ![c] =
                      build_bwrap_args(profile[c], filter, build_init_policy(host, env, mode),
                                       Wrapped(host, profile[c]))]
    /\ pc' = [pc EXCEPT ![c] = "attach"]
    /\ monitor' = [monitor EXCEPT ![c] = "alive"]
    /\ audit_pids' = [audit_pids EXCEPT ![c] = {Pid(c, "monitor")}]
    /\ UNCHANGED <<server, outcome, opened, profile, stage, conf, child, exit_code,
                   capped, audit, denials, reported>>

\* ProcessExecutor::run: sh is the monitor and the command at once.
SpawnPlain(c) ==
    /\ serving /\ pc[c] = "run" /\ ~Sandboxed(mode)
    /\ args' = [args EXCEPT ![c] = PlainArgs]
    /\ pc' = [pc EXCEPT ![c] = "wait"]
    /\ monitor' = [monitor EXCEPT ![c] = "alive"]
    /\ stage' = [stage EXCEPT ![c] = "command"]
    /\ audit_pids' = [audit_pids EXCEPT ![c] = {Pid(c, "monitor")}]
    /\ UNCHANGED <<server, outcome, opened, profile, conf, child, exit_code, capped,
                   audit, denials, reported>>

\* attach_cgroup_to_child moves the monitor; what it has forked stays where it is.
attach_cgroup_to_child(c) ==
    /\ serving /\ pc[c] = "attach"
    /\ pc' = [pc EXCEPT ![c] = "wait"]
    /\ IF profile[c].cgroup
       THEN /\ host.cgroup_writable
            /\ MonitorAlive(c)
            /\ capped' = [capped EXCEPT ![c] = {"monitor"}]
       ELSE UNCHANGED capped
    /\ UNCHANGED <<server, outcome, opened, profile, args, monitor, stage, conf, child,
                   exit_code, audit_pids, audit, denials, reported>>

\* Mutant: Enforce goes on without the cgroup, as Audit does.
AttachFailsOpen(c) ==
    /\ serving /\ pc[c] = "attach"
    /\ profile[c].cgroup
    /\ pc' = [pc EXCEPT ![c] = "wait"]
    /\ UNCHANGED <<server, outcome, opened, profile, process, audit, denials, reported>>

\* No cgroup could be made, limited or joined: Enforce gives the command up, Audit goes
\* on without.
AttachFails(c) ==
    /\ serving /\ pc[c] = "attach"
    /\ profile[c].cgroup
    /\ IF mode = "enforce"
       THEN /\ monitor' = [monitor EXCEPT ![c] = IF @ = "alive" THEN "killed" ELSE @]
            /\ audit_pids' = [audit_pids EXCEPT ![c] = {}]
            /\ Return(c, "Err")
       ELSE /\ pc' = [pc EXCEPT ![c] = "wait"]
            /\ UNCHANGED <<monitor, audit_pids, outcome>>
    /\ UNCHANGED <<server, opened, profile, args, stage, conf, child, exit_code, capped,
                   audit, denials, reported>>

\* Below the monitor: the first process of its namespace, which outlives the command
\* as long as something else is there, the command, and what the command forked.
Tree(c) == {role \in {"init", "main", "child"} :
    /\ role = "init" => MainAlive(c) \/ ChildAlive(c)
    /\ role = "main" => stage[c] \in {"command"} \cup WrapperStages
    /\ role = "child" => ChildAlive(c)}

\* The tree is read at the spawn and then each millisecond, from the top: what is seen
\* was found by way of its parent, and what forks and exits in between is not seen.
collect_process_tree_pids(c) ==
    /\ serving /\ pc[c] \in {"attach", "wait"} /\ Sandboxed(mode)
    /\ MonitorAlive(c)
    /\ \E seen \in SUBSET Tree(c) :
          /\ seen # {} => "init" \in seen
          /\ "child" \in seen /\ "main" \in Tree(c) => "main" \in seen
          /\ audit_pids' = [audit_pids EXCEPT ![c] = @ \cup {Pid(c, role) : role \in seen}]
    /\ UNCHANGED <<server, pc, outcome, opened, profile, args, monitor, stage, conf, child,
                   exit_code, capped, audit, denials, reported>>

\* wait_with_output: the monitor is reaped and nobody holds the pipes.
WaitEnds(c) ==
    /\ serving /\ pc[c] = "wait"
    /\ monitor[c] = "gone" /\ ~MainAlive(c) /\ child[c] # "attached"
    /\ Return(c, "Ok")
    /\ UNCHANGED <<server, opened, profile, process, audit, denials, reported>>

\* The deadline, or an error of the wait, drops the child, and with it kills the
\* monitor; no sampled pid is returned.
TimesOut(c) ==
    /\ serving /\ pc[c] = "wait"
    /\ monitor' = [monitor EXCEPT ![c] = IF @ = "alive" THEN "killed" ELSE @]
    /\ \E result \in {"Timeout", "Err"} : Return(c, result)
    /\ audit_pids' = [audit_pids EXCEPT ![c] = {}]
    /\ UNCHANGED <<server, opened, profile, args, stage, conf, child, exit_code, capped,
                   audit, denials, reported>>

\* Mutant: no window of time around the call.
CorrelatesByPid(c, r) == r.pids \cap audit_pids[c] # {}

\* Its pid, or its parent's, was sampled, and its time stamp is no more than the allowed
\* skew of 250 ms before the executor's start, when the call has no process yet, or
\* after its return.
audit_record_matches_context(c, r) == r.pids \cap audit_pids[c] # {} /\ r.made # "past"

Matches(c, last) ==
    {i \in opened[c] + 1 .. last : audit_record_matches_context(c, journal[i])}

\* append_landlock_denials_within, one pass: what the source shows since the last one.
\* For two seconds there is another pass, unless 250 ms have passed since an append; and
\* reads and appends take their time.
AppendDenials(c) ==
    /\ serving /\ pc[c] = "read"
    /\ denials' = [denials EXCEPT ![c] = @ \cup Matches(c, logged)]
    /\ opened' = [opened EXCEPT ![c] = logged]
    /\ pc' \in {pc, [pc EXCEPT ![c] = "report"]}
    /\ UNCHANGED <<server, outcome, profile, process, audit, reported>>

\* The source fails, or an append after some others: a warning, and the result stands.
\* The source is given up.
ReadFails(c) ==
    /\ serving /\ pc[c] = "read"
    /\ \E last \in opened[c] .. logged :
          denials' = [denials EXCEPT ![c] = @ \cup Matches(c, last)]
    /\ opened' = [opened EXCEPT ![c] = Unset]
    /\ pc' = [pc EXCEPT ![c] = "report"]
    /\ UNCHANGED <<server, outcome, profile, process, audit, reported>>

\* A command that died of SIGSYS, as far as its exit code tells; the append may fail.
append_sandbox_syscall_denied_event(c) ==
    /\ serving /\ pc[c] = "report"
    /\ reported' \in {reported, [reported EXCEPT ![c] = outcome[c] = "Ok" /\ exit_code[c] = 159]}
    /\ pc' = [pc EXCEPT ![c] = "done"]
    /\ UNCHANGED <<server, outcome, opened, profile, process, audit, denials>>

-----------------------------------------------------------------------------
\* The processes.

\* bwrap forks the first process of the namespaces, where it is itself.
Fork(c) ==
    /\ monitor[c] = "alive" /\ stage[c] = "none"
    /\ stage' = [stage EXCEPT ![c] = "forked"]
    /\ capped' = [capped EXCEPT ![c] = IF "monitor" \in @ THEN @ \cup {"main"} ELSE @]
    /\ UNCHANGED <<server, pc, outcome, opened, profile, args, monitor, conf, child,
                   exit_code, audit_pids, audit, denials, reported>>

Over(c, code) ==
    /\ stage' = [stage EXCEPT ![c] = "over"]
    /\ exit_code' = [exit_code EXCEPT ![c] = code]

\* bwrap confines it and becomes the wrapper, or the command if there is none.
SetUp(c) ==
    /\ stage[c] = "forked"
    /\ conf' = [conf EXCEPT ![c] = SetUpBy(args[c])]
    /\ stage' = [stage EXCEPT ![c] = IF args[c].wrapped THEN "read" ELSE "command"]
    /\ UNCHANGED <<server, pc, outcome, opened, profile, args, monitor, child, exit_code,
                   audit_pids, capped, audit, denials, reported>>

SetUpFails(c) ==
    /\ stage[c] = "forked"
    /\ Over(c, 1)
    /\ UNCHANGED <<server, pc, outcome, opened, profile, args, monitor, conf, child,
                   audit_pids, capped, audit, denials, reported>>

\* One stage of pincery-init.
WrapperStep(c) ==
    /\ stage[c] \in WrapperStages
    /\ ~DeniedAt(stage[c], conf[c].filter)
    /\ GoesOn(stage[c], conf[c], args[c].policy)
    /\ conf' = [conf EXCEPT ![c] = After(stage[c], conf[c], args[c].policy)]
    /\ stage' = [stage EXCEPT ![c] = NextStage(stage[c])]
    /\ UNCHANGED <<server, pc, outcome, opened, profile, args, monitor, child, exit_code,
                   audit_pids, capped, audit, denials, reported>>

\* A kernel call of the stage, or its check, fails; the wrapper exits with 125.
WrapperFails(c) ==
    /\ stage[c] \in WrapperStages
    /\ Over(c, 125)
    /\ UNCHANGED <<server, pc, outcome, opened, profile, args, monitor, conf, child,
                   audit_pids, capped, audit, denials, reported>>

\* SIGSYS: the wrapper makes a call its filter does not list, or the command does.
Killed(c) ==
    /\ conf[c].filter = "kill"
    /\ \/ stage[c] \in WrapperStages /\ DeniedAt(stage[c], conf[c].filter)
       \/ stage[c] = "command"
    /\ Over(c, 159)
    /\ UNCHANGED <<server, pc, outcome, opened, profile, args, monitor, conf, child,
                   audit_pids, capped, audit, denials, reported>>

\* The command forks a process, which may let go of the pipes.
Spawn(c) ==
    /\ stage[c] = "command" /\ child[c] = "none"
    /\ \E kind \in {"attached", "detached"} : child' = [child EXCEPT ![c] = kind]
    /\ UNCHANGED <<server, pc, outcome, opened, profile, args, monitor, stage, conf,
                   exit_code, audit_pids, capped, audit, denials, reported>>

ChildExits(c) ==
    /\ ChildAlive(c)
    /\ child' = [child EXCEPT ![c] = "gone"]
    /\ UNCHANGED <<server, pc, outcome, opened, profile, args, monitor, stage, conf,
                   exit_code, audit_pids, capped, audit, denials, reported>>

Exit(c) ==
    /\ stage[c] = "command"
    /\ \E code \in {0, 159} : Over(c, code)
    /\ UNCHANGED <<server, pc, outcome, opened, profile, args, monitor, conf, child,
                   audit_pids, capped, audit, denials, reported>>

\* A record names a process and its parent.  The child's is the command, the first process
\* once the command is over, or one between them that no sample has seen.
Denied(c) ==
    {{Pid(c, "main"), Pid(c, "init")} : s \in {stage[c]} \cap {"command"}}
    \cup {{Pid(c, "child"), Pid(c, parent)} :
              parent \in IF ~ChildAlive(c) THEN {}
                         ELSE IF stage[c] = "command" THEN {"main", "child"}
                         ELSE {"init", "child"}}

\* When a denial of now is made: during the call, or up to 250 ms after its return, or past
\* that.
Moments(c) ==
    IF outcome[c] = "none" THEN {"during"}
    ELSE IF \E i \in DOMAIN journal : journal[i].call = c /\ journal[i].made = "past"
    THEN {"past"} ELSE {"skew", "past"}

\* Landlock refuses an access of the command, or of what it forked, and, from ABI 7, the
\* kernel records it.
Deny(c) ==
    /\ conf[c].logging
    /\ Len(journal) < MaxDenials
    /\ \E pids \in Denied(c), made \in Moments(c) :
          journal' = Append(journal, [call |-> c, pids |-> pids, made |-> made])
    /\ UNCHANGED <<server, pc, outcome, opened, profile, process, logged, denials, reported>>

\* Somebody else's denial in the same log.
DenyElsewhere ==
    /\ Len(journal) < MaxDenials
    /\ journal' = Append(journal, [call |-> Nobody, pids |-> {}, made |-> "during"])
    /\ UNCHANGED <<server, pc, outcome, opened, profile, process, logged, denials, reported>>

\* A record reaches the log that the audit sources read, some time after it was made.
Logged ==
    /\ logged < Len(journal)
    /\ logged' = logged + 1
    /\ UNCHANGED <<server, pc, outcome, opened, profile, process, journal, denials, reported>>

\* The monitor has its child's status; or its SIGKILL arrives.
MonitorEnds(c) ==
    /\ \/ monitor[c] = "killed"
       \/ monitor[c] = "alive" /\ stage[c] = "over"
    /\ monitor' = [monitor EXCEPT ![c] = "gone"]
    \* sh is the command: the signal is its own.
    /\ stage' = [stage EXCEPT ![c] = IF args[c].unshare THEN @ ELSE "over"]
    /\ UNCHANGED <<server, pc, outcome, opened, profile, args, conf, child, exit_code,
                   audit_pids, capped, audit, denials, reported>>

\* The monitor's death reaches the first process of the pid namespace, and that one's
\* death everything in it.
NamespaceDies(c) ==
    /\ monitor[c] = "gone" /\ args[c].die_with_parent /\ args[c].unshare
    /\ MainAlive(c) \/ ChildAlive(c)
    /\ stage' = [stage EXCEPT ![c] = "over"]
    /\ child' = [child EXCEPT ![c] = IF ChildAlive(c) THEN "gone" ELSE @]
    /\ UNCHANGED <<server, pc, outcome, opened, profile, args, monitor, conf, exit_code,
                   audit_pids, capped, audit, denials, reported>>

-----------------------------------------------------------------------------

Server == Start \/ Stop \/ Crash

Task(c) ==
    \/ OpenAudit(c) \/ Refuse(c) \/ SpawnBwrap(c) \/ SpawnPlain(c)
    \/ attach_cgroup_to_child(c) \/ AttachFails(c) \/ collect_process_tree_pids(c)
    \/ WaitEnds(c) \/ TimesOut(c) \/ AppendDenials(c) \/ ReadFails(c)
    \/ append_sandbox_syscall_denied_event(c)

Processes(c) ==
    \/ Fork(c) \/ SetUp(c) \/ SetUpFails(c) \/ WrapperStep(c) \/ WrapperFails(c)
    \/ Killed(c) \/ Spawn(c) \/ ChildExits(c) \/ Exit(c) \/ Deny(c)
    \/ MonitorEnds(c) \/ NamespaceDies(c)

Next == Server \/ DenyElsewhere \/ Logged \/ \E c \in Calls : Task(c) \/ Processes(c)

\* The kernel delivers its signals; nothing obliges a command to come to an end.
Fairness ==
    \A c \in Calls : WF_vars(MonitorEnds(c)) /\ WF_vars(NamespaceDies(c))

Spec == Init /\ [][Next]_vars /\ Fairness
=============================================================================
