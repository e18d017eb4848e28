---------------------------- MODULE SandboxPolicy ----------------------------
(***************************************************************************)
(* What the server decides about a command before it exists, and what      *)
(* pincery-init does to itself before it becomes the command: the startup  *)
(* floors, the sandbox mode, the identity, the system-call filter, the     *)
(* policy handed to the wrapper and the wrapper's stages.                  *)
(*                                                                         *)
(* A host is what the probes read of the machine, an environment what the  *)
(* operator set.  Everything here is a function of the two.                *)
(***************************************************************************)
EXTENDS Integers, Sequences

Unset   == -1           \* an identity variable that is absent or blank
Garbled == -2           \* one that is no u32

\* What RealKernelProbe and the cgroup probes can read.  abi 0 is ENOSYS.
Host == [abi              : Nat,
         seccomp          : BOOLEAN,
         cgroup_v2        : BOOLEAN,
         cgroup_writable  : BOOLEAN,
         memory_max       : BOOLEAN,
         userns_clone     : {"absent", "0", "1", "garbled", "unreadable"},
         userns_quota     : BOOLEAN,
         root             : BOOLEAN,
         bwrap_version    : Seq(Nat),
         wrapper          : BOOLEAN,
         audit_log        : BOOLEAN]

Environment == [mode         : {"unset", "enforce", "audit", "disabled", "garbled"},
                allow_unsafe : BOOLEAN,
                relaxed      : BOOLEAN,
                uid          : Nat \cup {Unset, Garbled},
                gid          : Nat \cup {Unset, Garbled}]

\* The layers a call asks for, typed as SandboxProfile is.
SandboxProfile == [deny_net : BOOLEAN, seccomp : BOOLEAN, landlock : BOOLEAN, cgroup : BOOLEAN]

-----------------------------------------------------------------------------
\* Startup.

LANDLOCK_ABI_FLOOR         == 6
LANDLOCK_ABI_RELAXED_FLOOR == 1
LANDLOCK_AUDIT_ABI_FLOOR   == 7
BWRAP_MIN_VERSION          == <<0, 8, 0>>

\* Mutant: the relaxed floor for every start.
RelaxedForAll(e) == LANDLOCK_ABI_RELAXED_FLOOR

RequiredAbi(e) == IF e.relaxed THEN LANDLOCK_ABI_RELAXED_FLOOR ELSE LANDLOCK_ABI_FLOOR

\* The order of Rust's tuples.
VersionBelow(v, w) ==
    \E i \in 1 .. 3 : v[i] < w[i] /\ \A j \in 1 .. i - 1 : v[j] = w[j]

\* Without the sysctl the kernel has no such gate; an unreadable one is closed.
unprivileged_userns_clone_allowed(h) == h.userns_clone \in {"absent", "1"}

assert_kernel_floor(h, e) ==
    /\ e.relaxed => e.allow_unsafe
    /\ h.abi >= RequiredAbi(e)
    /\ h.seccomp
    /\ h.cgroup_v2
    /\ h.userns_quota
    /\ h.root \/ unprivileged_userns_clone_allowed(h)
    /\ h.bwrap_version # << >>
    /\ ~VersionBelow(h.bwrap_version, BWRAP_MIN_VERSION)

\* ResolvedSandboxMode::resolve: an absent mode is enforce.
ResolvedMode(e) == IF e.mode = "unset" THEN "enforce" ELSE e.mode

resolve(e) ==
    /\ e.mode # "garbled"
    /\ e.mode = "disabled" => e.allow_unsafe

\* The outcome of the memory probe: a capped dd that is killed by SIGKILL.
probe_memory_max_enforcement(h) ==
    IF ~h.cgroup_writable THEN "skipped"
    ELSE IF h.memory_max THEN "enforced" ELSE "not enforced"

\* Not to know counts as not enforced; only Enforce asks.
enforce_memory_cap_at_startup(h, e) ==
    \/ ResolvedMode(e) # "enforce"
    \/ probe_memory_max_enforcement(h) = "enforced"
    \/ e.allow_unsafe

\* main: the kernel floor, the configuration, the memory gate; any failure exits.
StartsUp(h, e) ==
    /\ assert_kernel_floor(h, e)
    /\ resolve(e)
    /\ enforce_memory_cap_at_startup(h, e)

-----------------------------------------------------------------------------
\* One call of the executor, up to the spawn.

\* executor_kind_for, on Linux.
Sandboxed(mode) == mode # "disabled"

\* Mutant: a variable that is absent has no default.
parse_id(raw, default) == raw

parse_optional_id(raw, default) == IF raw = Unset THEN default ELSE raw

resolve_sandbox_identity(e) ==
    /\ e.uid # Garbled /\ e.gid # Garbled
    /\ (e.uid = 0 \/ e.gid = 0) => e.allow_unsafe

TargetIds(e) == <<parse_optional_id(e.uid, 65534), parse_optional_id(e.gid, 65534)>>

\* Mutant: the list without the calls that only the wrapper makes.
CommandSyscalls ==
    {"openat", "read", "write", "statx", "close", "brk", "prctl", "geteuid", "getegid",
     "execve", "exit_group", "clone"}

\* The calls that matter to the set-up, out of a list of some ninety; clone is
\* allowed for threads and processes only.
allowed_syscalls ==
    {"openat", "read", "write", "statx", "close", "brk", "prctl", "geteuid", "getegid",
     "getresuid", "getresgid", "capget", "capset", "landlock_create_ruleset",
     "landlock_add_rule", "landlock_restrict_self", "execve", "exit_group", "clone"}

\* What may become of a call's filter: Enforce goes nowhere without one.
compose_seccomp_fd(mode, profile) ==
    IF ~profile.seccomp THEN {"none"}
    ELSE IF mode = "enforce" THEN {"kill"} ELSE {"log", "none"}

landlock_scope_bits_for_abi(abi)     == abi >= LANDLOCK_ABI_FLOOR
landlock_restrict_flags_for_abi(abi) == abi >= LANDLOCK_AUDIT_ABI_FLOOR

\* Landlock for a call: refused below the strict floor in Enforce, whatever floor
\* the server started under; left out when the kernel has none of it.
LandlockRefuses(h, mode, profile) ==
    profile.landlock /\ mode = "enforce" /\ h.abi < LANDLOCK_ABI_FLOOR

Wrapped(h, profile) == profile.landlock /\ h.abi > 0

\* The policy the wrapper will read: the filter stays with bwrap.
build_init_policy(h, e, mode) ==
    [ids                    |-> TargetIds(e),
     scopes                 |-> landlock_scope_bits_for_abi(h.abi),
     log_denials            |-> landlock_restrict_flags_for_abi(h.abi),
     seccomp_bpf            |-> "none",
     require_fully_enforced |-> mode = "enforce"]

\* Mutant: --die-with-parent forgotten.
ArgsThatOutlive(profile, filter, policy, wrapped) ==
    [die_with_parent |-> FALSE,
     unshare         |-> TRUE,
     deny_net        |-> profile.deny_net,
     filter          |-> filter,
     policy          |-> policy,
     wrapped         |-> wrapped]

\* What bwrap is told to set up; the identity is the policy's.  It applies its filter
\* last, and before the wrapper it then executes.
build_bwrap_args(profile, filter, policy, wrapped) ==
    [die_with_parent |-> TRUE,
     unshare         |-> TRUE,
     deny_net        |-> profile.deny_net,
     filter          |-> filter,
     policy          |-> policy,
     wrapped         |-> wrapped]

\* ProcessExecutor runs sh as it is.
NoPolicy == [ids |-> << >>, scopes |-> FALSE, log_denials |-> FALSE,
             seccomp_bpf |-> "none", require_fully_enforced |-> FALSE]

PlainArgs ==
    [die_with_parent |-> FALSE, unshare |-> FALSE, deny_net |-> FALSE,
     filter |-> "none", policy |-> NoPolicy, wrapped |-> FALSE]

-----------------------------------------------------------------------------
\* What confines a process, and how it comes about.

Unconfined == [isolated |-> FALSE, offline |-> FALSE, ids |-> << >>,
               no_caps |-> FALSE, no_new_privs |-> FALSE, filter |-> "none",
               fs |-> "none", scoped |-> FALSE, logging |-> FALSE]

\* bwrap: namespaces, identity, no capabilities, no new privileges, the filter.
SetUpBy(args) ==
    IF args.unshare
    THEN [Unconfined EXCEPT !.isolated = TRUE, !.offline = args.deny_net,
                            !.ids = args.policy.ids, !.no_caps = TRUE,
                            !.no_new_privs = TRUE, !.filter = args.filter]
    ELSE Unconfined

\* run_inner: the policy is read and decoded, then apply_policy in its order, then the
\* exec of what the policy names.
WrapperStages == {"read", "nnp", "drop", "caps", "landlock", "seccomp", "verify", "exec"}

NextStage(stage) ==
    CASE stage = "read"     -> "nnp"
      [] stage = "nnp"      -> "drop"
      [] stage = "drop"     -> "caps"
      [] stage = "caps"     -> "landlock"
      [] stage = "landlock" -> "seccomp"
      [] stage = "seccomp"  -> "verify"
      [] stage = "verify"   -> "exec"
      [] stage = "exec"     -> "command"

SyscallsOf(stage) ==
    CASE stage = "read"     -> {"read", "close"}
      [] stage = "nnp"      -> {"prctl"}
      [] stage = "drop"     -> {"geteuid", "getegid", "getresuid", "getresgid"}
      [] stage = "caps"     -> {"capset", "openat", "read"}
      [] stage = "landlock" -> {"landlock_create_ruleset", "landlock_add_rule",
                                "landlock_restrict_self", "openat", "statx", "prctl"}
      [] stage = "seccomp"  -> {}
      [] stage = "verify"   -> {"prctl"}
      [] stage = "exec"     -> {"execve"}

\* The filter kills whoever makes a call it does not list.
DeniedAt(stage, filter) == filter = "kill" /\ ~(SyscallsOf(stage) \subseteq allowed_syscalls)

apply_no_new_privs(conf) == [conf EXCEPT !.no_new_privs = TRUE]

\* At the target already: verify the slots.  Elsewhere setresgid has no capability
\* left to succeed with.
apply_drop_privs(conf, policy) == conf.ids = policy.ids

apply_empty_capabilities(conf) == [conf EXCEPT !.no_caps = TRUE]

\* The file-system rules, with the logging flag where there is one.  Every ABI from 1
\* up knows all of them, so they are enforced in full.
install_landlock_with_restrict_flags(conf, flags) ==
    [conf EXCEPT !.fs = "full", !.logging = flags]

\* The scopes are a rule set of their own.
install_landlock_scopes(conf, scopes) == [conf EXCEPT !.scoped = scopes]

apply_landlock(conf, policy) ==
    install_landlock_scopes(
        install_landlock_with_restrict_flags(conf, policy.log_denials), policy.scopes)

\* Full enforcement counts only with no_new_privs, unless best effort will do.
validate_restriction_parts(conf, policy) ==
    policy.require_fully_enforced => conf.no_new_privs

\* Skipped: the policy carries no filter.
apply_seccomp(conf, policy) ==
    IF policy.seccomp_bpf = "none" THEN conf ELSE [conf EXCEPT !.filter = policy.seccomp_bpf]

verify_no_new_privs(conf) == conf.no_new_privs

verify_fully_enforced(conf, policy) ==
    policy.require_fully_enforced => conf.fs = "full" /\ conf.no_new_privs

\* What a stage makes of the process, and whether it goes on.
After(stage, conf, policy) ==
    CASE stage = "nnp"      -> apply_no_new_privs(conf)
      [] stage = "caps"     -> apply_empty_capabilities(conf)
      [] stage = "landlock" -> apply_landlock(conf, policy)
      [] stage = "seccomp"  -> apply_seccomp(conf, policy)
      [] OTHER              -> conf

GoesOn(stage, conf, policy) ==
    /\ stage = "drop"     => apply_drop_privs(conf, policy)
    /\ stage = "landlock" => validate_restriction_parts(conf, policy)
    /\ stage = "verify"   => verify_no_new_privs(conf) /\ verify_fully_enforced(conf, policy)
=============================================================================
