---------------------------- MODULE SandboxProofs ----------------------------
(***************************************************************************)
(* The types of a shell call's state, the confinement of its command, the  *)
(* agreement of the two Landlock floors and what of its denials the event  *)
(* log has, for any calls, hosts, settings and profiles.                   *)
(***************************************************************************)
EXTENDS SandboxProperties, TLAPS

LEMMA AssumedTypes ==
    /\ Hosts \subseteq Host /\ Environments \subseteq Environment
    /\ Profiles \subseteq SandboxProfile /\ MaxStarts \in Nat /\ MaxDenials \in Nat
BY SandboxAssumption DEF SandboxAssumption

\* The identity of a command that gets past its check is a pair of numbers.
LEMMA TargetIdsAreNumbers ==
    ASSUME NEW e \in Environment, resolve_sandbox_identity(e)
    PROVE  TargetIds(e) \in Nat \X Nat
BY DEF Environment, resolve_sandbox_identity, TargetIds, parse_optional_id, Unset, Garbled

\* The policy written for the wrapper is one.
LEMMA PolicyIsTyped ==
    ASSUME NEW h \in Host, NEW e \in Environment, NEW m, resolve_sandbox_identity(e)
    PROVE  build_init_policy(h, e, m) \in Policies
BY TargetIdsAreNumbers
   DEF build_init_policy, Policies, Ids, Filters, Host, landlock_scope_bits_for_abi,
       landlock_restrict_flags_for_abi, LANDLOCK_ABI_FLOOR, LANDLOCK_AUDIT_ABI_FLOOR

\* What bwrap makes of its arguments is a confinement.
LEMMA SetUpIsTyped ==
    ASSUME NEW a \in Arguments
    PROVE  SetUpBy(a) \in Confinements
BY DEF SetUpBy, Arguments, Confinements, Policies, Unconfined, Ids, Filters

\* So is what a stage makes of one.
LEMMA StageIsTyped ==
    ASSUME NEW s \in WrapperStages, NEW k \in Confinements, NEW p \in Policies
    PROVE  /\ After(s, k, p) \in Confinements
           /\ NextStage(s) \in WrapperStages \cup {"command"}
<1>1. NextStage(s) \in WrapperStages \cup {"command"}
  BY DEF NextStage, WrapperStages
<1>2. apply_landlock(k, p) \in Confinements
  BY DEF apply_landlock, install_landlock_scopes, install_landlock_with_restrict_flags,
         Confinements, Policies
<1>3. apply_no_new_privs(k) \in Confinements /\ apply_empty_capabilities(k) \in Confinements
  BY DEF apply_no_new_privs, apply_empty_capabilities, Confinements
<1>4. apply_seccomp(k, p) \in Confinements
  BY DEF apply_seccomp, Confinements, Policies
<1>5. After(s, k, p) \in Confinements
  BY <1>2, <1>3, <1>4 DEF After, WrapperStages
<1> QED BY <1>1, <1>5

LEMMA PlainIsTyped == PlainArgs \in Arguments /\ Unconfined \in Confinements
BY DEF PlainArgs, NoPolicy, Arguments, Policies, Ids, Filters, Unconfined, Confinements

-----------------------------------------------------------------------------

\* The pids that are written down are those of a call's processes.
LEMMA PidsAreTyped ==
    ASSUME NEW c \in Calls, NEW roles \in SUBSET Roles
    PROVE  /\ {Pid(c, role) : role \in roles} \subseteq {c} \X Roles
           /\ {c} \X Roles \subseteq Pids
<1>1. {c} \X Roles \subseteq Pids
  <2> SUFFICES ASSUME NEW p \in {c} \X Roles PROVE p \in Pids
    OBVIOUS
  <2>1. PICK role \in Roles : p = <<c, role>>
    OBVIOUS
  <2> QED BY <2>1 DEF Pids, Pid
<1>2. ASSUME NEW p \in {Pid(c, role) : role \in roles}
      PROVE  p \in {c} \X Roles
  <2>1. PICK role \in roles : p = Pid(c, role)
    OBVIOUS
  <2> QED BY <2>1 DEF Pid
<1> QED BY <1>1, <1>2

LEMMA SampleIsTyped ==
    ASSUME NEW c \in Calls
    PROVE  /\ {Pid(c, "monitor")} \subseteq {c} \X Roles
           /\ Tree(c) \subseteq Roles
BY DEF Pid, Roles, Tree

LEMMA DeniedIsTyped ==
    ASSUME NEW c \in Calls, NEW pids \in Denied(c)
    PROVE  /\ pids \subseteq {c} \X Roles
           /\ stage[c] = "command" \/ ChildAlive(c)
<1> DEFINE parents == IF ~ChildAlive(c) THEN {}
                      ELSE IF stage[c] = "command" THEN {"main", "child"}
                      ELSE {"init", "child"}
<1>1. \/ stage[c] = "command" /\ pids = {Pid(c, "main"), Pid(c, "init")}
      \/ \E parent \in parents : pids = {Pid(c, "child"), Pid(c, parent)}
  BY DEF Denied
<1>2. parents \subseteq Roles /\ (parents # {} => ChildAlive(c))
  BY DEF Roles
<1> HIDE DEF parents
<1> QED BY <1>1, <1>2 DEF Pid, Roles

LEMMA InitTypeOK == Init => TypeOK
<1> SUFFICES ASSUME Init PROVE TypeOK
  OBVIOUS
<1>1. starts \in 0 .. MaxStarts
  BY AssumedTypes DEF Init
<1>2. journal \in Seq(Records) /\ logged \in 0 .. Len(journal)
  BY DEF Init
<1>3. /\ args \in [Calls -> Arguments] /\ conf \in [Calls -> Confinements]
      /\ profile \in [Calls -> Profiles]
  BY PlainIsTyped DEF Init
<1>4. /\ opened \in [Calls -> Nat \cup {Unset}] /\ exit_code \in [Calls -> {0, 1, 125, 159}]
  BY DEF Init, Unset
<1>5. /\ reported \in [Calls -> BOOLEAN]
      /\ capped \in [Calls -> SUBSET {"monitor", "main"}]
      /\ denials \in [Calls -> SUBSET Nat]
  BY DEF Init
<1> QED BY <1>1, <1>2, <1>3, <1>4, <1>5 DEF Init, TypeOK

LEMMA ServerTypeOK == TypeOK /\ Server => TypeOK'
<1> USE DEF audit
<1> SUFFICES ASSUME TypeOK, Server PROVE TypeOK'
  OBVIOUS
<1>1. CASE Start
  <2>1. serving' \in BOOLEAN
    BY <1>1 DEF Start, StartsUp, assert_kernel_floor
  <2>2. starts' \in 0 .. MaxStarts /\ env' \in Environments
    BY <1>1, AssumedTypes DEF Start, TypeOK
  <2> QED BY <1>1, <2>1, <2>2 DEF Start, TypeOK, process
<1>2. CASE Stop
  <2>1. pc' \in [Calls -> {"idle", "run", "attach", "wait", "read", "report",
                          "done", "lost"}]
    BY <1>2 DEF Stop, TypeOK
  <2>2. monitor' \in [Calls -> {"none", "alive", "killed", "gone"}]
    BY <1>2 DEF Stop, TypeOK
  <2> QED BY <1>2, <2>1, <2>2 DEF Stop, TypeOK
<1>3. CASE Crash
  <2>1. pc' \in [Calls -> {"idle", "run", "attach", "wait", "read", "report",
                          "done", "lost"}]
    BY <1>3 DEF Crash, TypeOK
  <2>2. monitor' \in [Calls -> {"none", "alive", "killed", "gone"}]
    BY <1>3 DEF Crash, TypeOK
  <2> QED BY <1>3, <2>1, <2>2 DEF Crash, TypeOK
<1> QED BY <1>1, <1>2, <1>3 DEF Server

LEMMA MatchesAreTyped ==
    ASSUME TypeOK, NEW c \in Calls, NEW last \in Int
    PROVE  Matches(c, last) \subseteq Nat
<1>1. opened[c] + 1 \in Nat
  BY DEF TypeOK, Unset
<1> QED BY <1>1 DEF Matches

LEMMA TaskTypeOK == ASSUME NEW c \in Calls, TypeOK, Task(c) PROVE TypeOK'
<1> USE DEF audit
<1>1. CASE OpenAudit(c)
  BY <1>1 DEF OpenAudit, TypeOK, server, process, Unset
<1>2. CASE Refuse(c)
  BY <1>2 DEF Refuse, Return, AfterRun, TypeOK, server, process
<1>3. CASE SpawnBwrap(c)
  <2>1. PICK f \in compose_seccomp_fd(mode, profile[c]) :
            args' = [args EXCEPT ![c] =
                        build_bwrap_args(profile[c], f, build_init_policy(host, env, mode),
                                         Wrapped(host, profile[c]))]
    BY <1>3 DEF SpawnBwrap
  <2>2. build_init_policy(host, env, mode) \in Policies
    BY <1>3, PolicyIsTyped, AssumedTypes DEF SpawnBwrap, TypeOK
  <2>3. f \in Filters
    BY <2>1 DEF compose_seccomp_fd, Filters
  <2>4. Wrapped(host, profile[c]) \in BOOLEAN /\ profile[c].deny_net \in BOOLEAN
    BY AssumedTypes DEF Wrapped, TypeOK, SandboxProfile
  <2>5. build_bwrap_args(profile[c], f, build_init_policy(host, env, mode),
                         Wrapped(host, profile[c])) \in Arguments
    BY <2>2, <2>3, <2>4 DEF build_bwrap_args, Arguments
  <2>6. args' \in [Calls -> Arguments]
    BY <2>1, <2>5 DEF TypeOK
  <2>7. audit_pids' \in [Calls -> SUBSET Pids]
    BY <1>3, SampleIsTyped, PidsAreTyped DEF SpawnBwrap, TypeOK
  <2> QED BY <1>3, <2>6, <2>7 DEF SpawnBwrap, TypeOK, server
<1>4. CASE SpawnPlain(c)
  <2>1. audit_pids' \in [Calls -> SUBSET Pids]
    BY <1>4, SampleIsTyped, PidsAreTyped DEF SpawnPlain, TypeOK
  <2> QED BY <1>4, <2>1, PlainIsTyped DEF SpawnPlain, TypeOK, server
<1>5. CASE attach_cgroup_to_child(c)
  <2>1. capped' \in [Calls -> SUBSET {"monitor", "main"}]
    <3>1. CASE profile[c].cgroup
      <4>1. capped' = [capped EXCEPT ![c] = {"monitor"}]
        BY <1>5, <3>1 DEF attach_cgroup_to_child
      <4>2. capped \in [Calls -> SUBSET {"monitor", "main"}]
        BY DEF TypeOK
      <4>3. {"monitor"} \in SUBSET {"monitor", "main"}
        OBVIOUS
      <4> QED BY <4>1, <4>2, <4>3
    <3>2. CASE ~profile[c].cgroup
      BY <1>5, <3>2 DEF attach_cgroup_to_child, TypeOK
    <3> QED BY <3>1, <3>2
  <2> QED BY <1>5, <2>1 DEF attach_cgroup_to_child, TypeOK, server
<1>6. CASE AttachFails(c)
  <2>1. CASE mode = "enforce"
    <3>1. /\ monitor' = [monitor EXCEPT ![c] = IF @ = "alive" THEN "killed" ELSE @]
          /\ audit_pids' = [audit_pids EXCEPT ![c] = {}]
          /\ outcome' = [outcome EXCEPT ![c] = "Err"]
          /\ pc' = [pc EXCEPT ![c] = AfterRun(c)]
      BY <1>6, <2>1 DEF AttachFails, Return
    <3> QED BY <1>6, <3>1 DEF AttachFails, AfterRun, TypeOK, server
  <2>2. CASE mode # "enforce"
    <3>1. pc' = [pc EXCEPT ![c] = "wait"] /\ UNCHANGED <<monitor, audit_pids, outcome>>
      BY <1>6, <2>2 DEF AttachFails
    <3> QED BY <1>6, <3>1 DEF AttachFails, TypeOK, server
  <2> QED BY <2>1, <2>2
<1>7. CASE collect_process_tree_pids(c)
  <2>1. audit_pids' \in [Calls -> SUBSET Pids]
    <3>1. PICK seen \in SUBSET Tree(c) :
              audit_pids' = [audit_pids EXCEPT ![c] = @ \cup {Pid(c, role) : role \in seen}]
      BY <1>7 DEF collect_process_tree_pids
    <3>2. {Pid(c, role) : role \in seen} \subseteq Pids
      BY SampleIsTyped, PidsAreTyped
    <3> QED BY <3>1, <3>2 DEF TypeOK
  <2> QED BY <1>7, <2>1 DEF collect_process_tree_pids, TypeOK, server
<1>8. CASE WaitEnds(c)
  BY <1>8 DEF WaitEnds, Return, AfterRun, TypeOK, server, process
<1>9. CASE TimesOut(c)
  BY <1>9 DEF TimesOut, Return, AfterRun, TypeOK, server
<1>10. CASE AppendDenials(c)
  <2>1. denials' \in [Calls -> SUBSET Nat] /\ opened' \in [Calls -> Nat \cup {Unset}]
    BY <1>10, MatchesAreTyped DEF AppendDenials, TypeOK
  <2> QED BY <1>10, <2>1 DEF AppendDenials, TypeOK, server, process
<1>11. CASE ReadFails(c)
  <2>1. denials' \in [Calls -> SUBSET Nat]
    <3>1. PICK last \in opened[c] .. logged :
              denials' = [denials EXCEPT ![c] = @ \cup Matches(c, last)]
      BY <1>11 DEF ReadFails
    <3> QED BY <3>1, MatchesAreTyped DEF TypeOK
  <2> QED BY <1>11, <2>1 DEF ReadFails, TypeOK, server, process, Unset
<1>12. CASE append_sandbox_syscall_denied_event(c)
  <2>1. reported' \in [Calls -> BOOLEAN]
    <3> DEFINE sigsys == outcome[c] = "Ok" /\ exit_code[c] = 159
    <3>1. sigsys \in BOOLEAN
      OBVIOUS
    <3>2. reported' = reported \/ reported' = [reported EXCEPT ![c] = sigsys]
      BY <1>12 DEF append_sandbox_syscall_denied_event
    <3> HIDE DEF sigsys
    <3> QED BY <3>1, <3>2 DEF TypeOK
  <2> QED BY <1>12, <2>1 DEF append_sandbox_syscall_denied_event, TypeOK, server, process
<1> QED BY <1>1, <1>2, <1>3, <1>4, <1>5, <1>6, <1>7, <1>8, <1>9, <1>10, <1>11, <1>12
        DEF Task

LEMMA RecordAppended ==
    ASSUME TypeOK, NEW who \in Calls \cup {Nobody}, NEW pids \in SUBSET Pids,
           NEW made \in {"during", "skew", "past"},
           journal' = Append(journal, [call |-> who, pids |-> pids, made |-> made])
    PROVE  journal' \in Seq(Records) /\ logged \in 0 .. Len(journal')
<1> DEFINE r == [call |-> who, pids |-> pids, made |-> made]
<1>1. r \in Records
  BY DEF Records
<1> HIDE DEF r
<1>2. journal \in Seq(Records) /\ logged \in 0 .. Len(journal)
  BY DEF TypeOK
<1>3. journal' = Append(journal, r)
  BY DEF r
<1> HIDE DEF TypeOK
<1> QED BY <1>1, <1>2, <1>3

LEMMA ElsewhereTypeOK == TypeOK /\ (DenyElsewhere \/ Logged) => TypeOK'
<1> SUFFICES ASSUME TypeOK, DenyElsewhere \/ Logged PROVE TypeOK'
  OBVIOUS
<1>1. CASE DenyElsewhere
  <2>1. journal' \in Seq(Records) /\ logged \in 0 .. Len(journal')
    BY <1>1, RecordAppended DEF DenyElsewhere
  <2> QED BY <1>1, <2>1 DEF DenyElsewhere, TypeOK, server, process
<1>2. CASE Logged
  <2>1. journal' = journal /\ logged' \in 0 .. Len(journal)
    BY <1>2 DEF Logged, TypeOK
  <2> QED BY <1>2, <2>1 DEF Logged, TypeOK, server, process
<1> QED BY <1>1, <1>2

LEMMA ProcessesTypeOK == ASSUME NEW c \in Calls, TypeOK, Processes(c) PROVE TypeOK'
<1> USE DEF audit
<1>1. CASE Fork(c)
  BY <1>1 DEF Fork, TypeOK, server
<1>2. CASE SetUp(c)
  <2>1. conf' \in [Calls -> Confinements]
    BY <1>2, SetUpIsTyped DEF SetUp, TypeOK
  <2> QED BY <1>2, <2>1 DEF SetUp, TypeOK, server, WrapperStages
<1>3. CASE SetUpFails(c)
  BY <1>3 DEF SetUpFails, Over, TypeOK, server
<1>4. CASE WrapperStep(c)
  <2>1. args[c].policy \in Policies
    BY DEF TypeOK, Arguments
  <2>2. /\ conf' \in [Calls -> Confinements]
        /\ stage' \in [Calls -> {"none", "forked", "command", "over"} \cup WrapperStages]
    BY <1>4, <2>1, StageIsTyped DEF WrapperStep, TypeOK
  <2> QED BY <1>4, <2>2 DEF WrapperStep, TypeOK, server
<1>5. CASE WrapperFails(c)
  BY <1>5 DEF WrapperFails, Over, TypeOK, server
<1>6. CASE Killed(c)
  BY <1>6 DEF Killed, Over, TypeOK, server
<1>7. CASE Spawn(c)
  BY <1>7 DEF Spawn, TypeOK, server
<1>8. CASE ChildExits(c)
  BY <1>8 DEF ChildExits, TypeOK, server
<1>9. CASE Exit(c)
  BY <1>9 DEF Exit, Over, TypeOK, server
<1>10. CASE Deny(c)
  <2>1. PICK pids \in Denied(c), made \in Moments(c) :
            journal' = Append(journal, [call |-> c, pids |-> pids, made |-> made])
    BY <1>10 DEF Deny
  <2>2. pids \in SUBSET Pids /\ made \in {"during", "skew", "past"}
    BY DeniedIsTyped, PidsAreTyped DEF Moments
  <2>3. journal' \in Seq(Records) /\ logged \in 0 .. Len(journal')
    BY <2>1, <2>2, RecordAppended DEF TypeOK
  <2> QED BY <1>10, <2>3 DEF Deny, TypeOK, server, process
<1>11. CASE MonitorEnds(c)
  BY <1>11 DEF MonitorEnds, TypeOK, server
<1>12. CASE NamespaceDies(c)
  BY <1>12 DEF NamespaceDies, TypeOK, server
<1> QED BY <1>1, <1>2, <1>3, <1>4, <1>5, <1>6, <1>7, <1>8, <1>9, <1>10, <1>11, <1>12
        DEF Processes

\* The state of the server, of every call and of every process keeps its type.
THEOREM SandboxTypeCorrect == Spec => []TypeOK
<1>1. Init => TypeOK
  BY InitTypeOK
<1>2. TypeOK /\ [Next]_vars => TypeOK'
  <2> SUFFICES ASSUME TypeOK, [Next]_vars PROVE TypeOK'
    OBVIOUS
  <2>1. CASE Server
    BY <2>1, ServerTypeOK
  <2>2. CASE DenyElsewhere \/ Logged
    BY <2>2, ElsewhereTypeOK
  <2>3. CASE \E c \in Calls : Task(c) \/ Processes(c)
    BY <2>3, TaskTypeOK, ProcessesTypeOK
  <2>4. CASE UNCHANGED vars
    BY <2>4 DEF vars, TypeOK
  <2> QED BY <2>1, <2>2, <2>3, <2>4 DEF Next
<1> QED BY <1>1, <1>2, PTL DEF Spec
-----------------------------------------------------------------------------
(***************************************************************************)
(* Confinement.  A call that has not spawned has no process; a spawned     *)
(* call's arguments are those its mode and profile ask for and no longer   *)
(* change; bwrap's part holds from the wrapper's first stage on and the    *)
(* wrapper only adds to it, Landlock from the stage after its own.         *)
(***************************************************************************)

NotSpawned(c) == pc[c] \in {"idle", "run"} => stage[c] = "none" /\ monitor[c] = "none"

ArgumentsAsked(c) ==
    args[c].unshare =>
        /\ args[c].policy.seccomp_bpf = "none"
        /\ args[c].deny_net = profile[c].deny_net
        /\ args[c].policy.require_fully_enforced =>
              /\ profile[c].seccomp => args[c].filter = "kill"
              /\ profile[c].landlock => args[c].wrapped /\ args[c].policy.scopes

Confining == WrapperStages \cup {"command"}

BwrapsPart(c) ==
    args[c].unshare /\ stage[c] \in Confining =>
        /\ conf[c].isolated /\ conf[c].no_caps /\ conf[c].no_new_privs
        /\ conf[c].ids = args[c].policy.ids
        /\ conf[c].offline = args[c].deny_net
        /\ conf[c].filter = args[c].filter

WrappersPart(c) ==
    args[c].wrapped /\ stage[c] \in {"seccomp", "verify", "exec", "command"} =>
        conf[c].fs = "full" /\ conf[c].scoped = args[c].policy.scopes

ConfinedInv ==
    /\ TypeOK
    /\ \A c \in Calls :
          NotSpawned(c) /\ ArgumentsAsked(c) /\ BwrapsPart(c) /\ WrappersPart(c)

\* A call's part of the invariant reads nothing but its own pc, stage, monitor,
\* arguments, profile and confinement.
LEMMA OtherCallsKeep ==
    ASSUME NEW d \in Calls,
           NotSpawned(d), ArgumentsAsked(d), BwrapsPart(d), WrappersPart(d),
           profile' = profile, args'[d] = args[d], conf'[d] = conf[d],
           \/ stage'[d] = stage[d] /\ monitor'[d] = monitor[d]
           \/ /\ pc[d] \notin {"idle", "run"}
              /\ stage'[d] = stage[d] \/ stage'[d] \notin Confining,
           pc'[d] \in {"idle", "run"} => /\ pc[d] \in {"idle", "run"}
                                         /\ monitor'[d] = monitor[d]
    PROVE  NotSpawned(d)' /\ ArgumentsAsked(d)' /\ BwrapsPart(d)' /\ WrappersPart(d)'
BY DEF NotSpawned, ArgumentsAsked, BwrapsPart, WrappersPart, Confining, WrapperStages

LEMMA InitConfined == Init => ConfinedInv
<1> SUFFICES ASSUME Init PROVE ConfinedInv
  OBVIOUS
<1>1. ASSUME NEW c \in Calls
      PROVE  NotSpawned(c) /\ ArgumentsAsked(c) /\ BwrapsPart(c) /\ WrappersPart(c)
  BY DEF Init, NotSpawned, ArgumentsAsked, BwrapsPart, WrappersPart, PlainArgs
<1> QED BY <1>1, InitTypeOK DEF ConfinedInv

\* A task's steps: they start nothing, except the two that spawn.
LEMMA TaskConfined ==
    ASSUME NEW c \in Calls, ConfinedInv, Task(c), NEW d \in Calls
    PROVE  NotSpawned(d)' /\ ArgumentsAsked(d)' /\ BwrapsPart(d)' /\ WrappersPart(d)'
<1> USE DEF ConfinedInv
<1>1. CASE OpenAudit(c)
  BY <1>1, OtherCallsKeep DEF OpenAudit, TypeOK, server, process
<1>2. CASE Refuse(c)
  BY <1>2, OtherCallsKeep DEF Refuse, Return, AfterRun, TypeOK, server, process
<1>3. CASE attach_cgroup_to_child(c)
  <2>1. /\ UNCHANGED <<profile, args, conf, stage, monitor>>
        /\ pc' = [pc EXCEPT ![c] = "wait"]
    BY <1>3 DEF attach_cgroup_to_child
  <2> QED BY <2>1, OtherCallsKeep DEF TypeOK
<1>4. CASE AttachFails(c)
  BY <1>4, OtherCallsKeep DEF AttachFails, Return, AfterRun, TypeOK, server
<1>5. CASE collect_process_tree_pids(c)
  BY <1>5, OtherCallsKeep DEF collect_process_tree_pids, TypeOK, server
<1>6. CASE WaitEnds(c)
  BY <1>6, OtherCallsKeep DEF WaitEnds, Return, AfterRun, TypeOK, server, process
<1>7. CASE TimesOut(c)
  BY <1>7, OtherCallsKeep DEF TimesOut, Return, AfterRun, TypeOK, server
<1>8. CASE AppendDenials(c)
  BY <1>8, OtherCallsKeep DEF AppendDenials, TypeOK, server, process
<1>9. CASE ReadFails(c)
  BY <1>9, OtherCallsKeep DEF ReadFails, TypeOK, server, process
<1>10. CASE append_sandbox_syscall_denied_event(c)
  BY <1>10, OtherCallsKeep DEF append_sandbox_syscall_denied_event, TypeOK, server, process
<1>11. CASE SpawnBwrap(c)
  <2>1. CASE d # c
    BY <1>11, <2>1, OtherCallsKeep DEF SpawnBwrap, TypeOK, server
  <2>2. CASE d = c
    <3>1. PICK f \in compose_seccomp_fd(mode, profile[c]) :
              args' = [args EXCEPT ![c] =
                          build_bwrap_args(profile[c], f, build_init_policy(host, env, mode),
                                           Wrapped(host, profile[c]))]
      BY <1>11 DEF SpawnBwrap
    <3>2. args'[c] = build_bwrap_args(profile[c], f, build_init_policy(host, env, mode),
                                      Wrapped(host, profile[c]))
      BY <3>1 DEF TypeOK
    <3>3. stage'[c] = "none" /\ pc'[c] = "attach" /\ profile' = profile
      BY <1>11 DEF SpawnBwrap, NotSpawned, TypeOK
    <3>4. host.abi \in Nat
      BY AssumedTypes DEF TypeOK, Host
    <3>5. mode = "enforce" /\ profile[c].landlock =>
              Wrapped(host, profile[c]) /\ build_init_policy(host, env, mode).scopes
      <4> SUFFICES ASSUME mode = "enforce", profile[c].landlock
                   PROVE  Wrapped(host, profile[c]) /\ build_init_policy(host, env, mode).scopes
        OBVIOUS
      <4>1. ~LandlockRefuses(host, mode, profile[c])
        BY <1>11 DEF SpawnBwrap
      <4>2. host.abi >= 6
        BY <3>4, <4>1 DEF LandlockRefuses, LANDLOCK_ABI_FLOOR
      <4>3. Wrapped(host, profile[c])
        BY <3>4, <4>2 DEF Wrapped
      <4>4. landlock_scope_bits_for_abi(host.abi)
        BY <3>4, <4>2 DEF landlock_scope_bits_for_abi, LANDLOCK_ABI_FLOOR
      <4>5. build_init_policy(host, env, mode).scopes = landlock_scope_bits_for_abi(host.abi)
        BY DEF build_init_policy
      <4> QED BY <4>3, <4>4, <4>5
    <3>6. mode = "enforce" /\ profile[c].seccomp => f = "kill"
      BY <3>1 DEF compose_seccomp_fd
    <3>7. ArgumentsAsked(c)'
      <4> DEFINE p == build_init_policy(host, env, mode)
      <4>1. /\ args'[c].policy = p /\ args'[c].filter = f
            /\ args'[c].deny_net = profile[c].deny_net
            /\ args'[c].wrapped = Wrapped(host, profile[c])
        BY <3>2 DEF build_bwrap_args
      <4>2. p.seccomp_bpf = "none" /\ (p.require_fully_enforced <=> mode = "enforce")
        BY DEF build_init_policy
      <4> HIDE DEF p
      <4> QED BY <3>3, <3>5, <3>6, <4>1, <4>2 DEF ArgumentsAsked, p
    <3> QED BY <2>2, <3>3, <3>7
            DEF NotSpawned, BwrapsPart, WrappersPart, Confining, WrapperStages
  <2> QED BY <2>1, <2>2
<1>12. CASE SpawnPlain(c)
  <2>1. CASE d # c
    BY <1>12, <2>1, OtherCallsKeep DEF SpawnPlain, TypeOK, server
  <2>2. CASE d = c
    <3>1. args'[c] = PlainArgs /\ pc'[c] = "wait"
      BY <1>12 DEF SpawnPlain, TypeOK
    <3> QED BY <2>2, <3>1
            DEF PlainArgs, NotSpawned, ArgumentsAsked, BwrapsPart, WrappersPart
  <2> QED BY <2>1, <2>2
<1> QED BY <1>1, <1>2, <1>3, <1>4, <1>5, <1>6, <1>7, <1>8, <1>9, <1>10, <1>11, <1>12
        DEF Task

\* The processes' steps: none of them touches a call that has not spawned.
LEMMA ProcessesConfined ==
    ASSUME NEW c \in Calls, ConfinedInv, Processes(c), NEW d \in Calls
    PROVE  NotSpawned(d)' /\ ArgumentsAsked(d)' /\ BwrapsPart(d)' /\ WrappersPart(d)'
<1> USE DEF ConfinedInv
<1>1. CASE Fork(c)
  BY <1>1, OtherCallsKeep
     DEF Fork, TypeOK, server, NotSpawned, Confining, WrapperStages, MainAlive
<1>2. CASE SetUpFails(c)
  BY <1>2, OtherCallsKeep
     DEF SetUpFails, Over, TypeOK, server, NotSpawned, Confining, WrapperStages, MainAlive
<1>3. CASE WrapperFails(c)
  BY <1>3, OtherCallsKeep
     DEF WrapperFails, Over, TypeOK, server, NotSpawned, Confining, WrapperStages, MainAlive
<1>4. CASE Killed(c)
  BY <1>4, OtherCallsKeep
     DEF Killed, Over, TypeOK, server, NotSpawned, Confining, WrapperStages, MainAlive
<1>5. CASE Spawn(c)
  BY <1>5, OtherCallsKeep
     DEF Spawn, TypeOK, server, NotSpawned, Confining, WrapperStages, MainAlive
<1>6. CASE ChildExits(c)
  BY <1>6, OtherCallsKeep
     DEF ChildExits, TypeOK, server, NotSpawned, Confining, WrapperStages, MainAlive
<1>7. CASE Exit(c)
  BY <1>7, OtherCallsKeep
     DEF Exit, Over, TypeOK, server, NotSpawned, Confining, WrapperStages, MainAlive
<1>8. CASE Deny(c)
  BY <1>8, OtherCallsKeep
     DEF Deny, TypeOK, server, process, NotSpawned, Confining, WrapperStages, MainAlive
<1>9. CASE MonitorEnds(c)
  BY <1>9, OtherCallsKeep
     DEF MonitorEnds, TypeOK, server, NotSpawned, Confining, WrapperStages, MainAlive
<1>10. CASE NamespaceDies(c)
  BY <1>10, OtherCallsKeep
     DEF NamespaceDies, TypeOK, server, NotSpawned, Confining, WrapperStages, MainAlive
<1>11. CASE SetUp(c)
  <2>1. CASE d # c
    BY <1>11, <2>1, OtherCallsKeep DEF SetUp, TypeOK, server
  <2>2. CASE d = c
    <3>1. /\ conf'[c] = SetUpBy(args[c]) /\ args' = args /\ profile' = profile
          /\ stage'[c] = IF args[c].wrapped THEN "read" ELSE "command"
          /\ pc' = pc /\ pc[c] \notin {"idle", "run"}
      BY <1>11 DEF SetUp, TypeOK, NotSpawned
    <3>2. args[c].unshare => BwrapsPart(c)'
      BY <3>1 DEF BwrapsPart, SetUpBy, Unconfined
    <3>3. NotSpawned(c)' /\ ArgumentsAsked(c)'
      BY <3>1 DEF NotSpawned, ArgumentsAsked
    <3>4. BwrapsPart(c)' /\ WrappersPart(c)'
      BY <3>1, <3>2 DEF BwrapsPart, WrappersPart
    <3> QED BY <2>2, <3>3, <3>4
  <2> QED BY <2>1, <2>2
<1>12. CASE WrapperStep(c)
  <2>1. CASE d # c
    BY <1>12, <2>1, OtherCallsKeep DEF WrapperStep, TypeOK, server
  <2>2. CASE d = c
    <3> DEFINE p == args[c].policy
    <3>1. /\ conf'[c] = After(stage[c], conf[c], p) /\ args' = args /\ profile' = profile
          /\ stage'[c] = NextStage(stage[c]) /\ stage[c] \in WrapperStages
          /\ pc' = pc /\ pc[c] \notin {"idle", "run"}
      BY <1>12 DEF WrapperStep, TypeOK, NotSpawned, WrapperStages
    <3>2. conf[c] \in Confinements
      BY DEF TypeOK
    <3>3. BwrapsPart(c)'
      BY <3>1, <3>2
         DEF BwrapsPart, ArgumentsAsked, After, Confining, Confinements, WrapperStages,
             apply_no_new_privs, apply_empty_capabilities, apply_landlock, apply_seccomp,
             install_landlock_scopes, install_landlock_with_restrict_flags
    <3>4. WrappersPart(c)'
      <4>1. CASE stage[c] = "landlock"
        BY <3>1, <3>2, <4>1
           DEF WrappersPart, After, Confinements, apply_landlock, install_landlock_scopes,
               install_landlock_with_restrict_flags
      <4>2. CASE stage[c] # "landlock"
        <5>1. stage'[c] \in {"seccomp", "verify", "exec", "command"} =>
                  stage[c] \in {"seccomp", "verify", "exec"}
          BY <3>1, <4>2 DEF NextStage, WrapperStages
        <5>2. stage[c] \in {"seccomp", "verify", "exec"} =>
                  conf'[c].fs = conf[c].fs /\ conf'[c].scoped = conf[c].scoped
          BY <3>1, <3>2 DEF After, apply_seccomp, Confinements
        <5> QED BY <3>1, <5>1, <5>2 DEF WrappersPart
      <4> QED BY <4>1, <4>2
    <3>5. NotSpawned(c)' /\ ArgumentsAsked(c)'
      BY <3>1 DEF NotSpawned, ArgumentsAsked
    <3> QED BY <2>2, <3>3, <3>4, <3>5
  <2> QED BY <2>1, <2>2
<1> QED BY <1>1, <1>2, <1>3, <1>4, <1>5, <1>6, <1>7, <1>8, <1>9, <1>10, <1>11, <1>12
        DEF Processes

LEMMA ServerConfined ==
    ASSUME ConfinedInv, Server, NEW d \in Calls
    PROVE  NotSpawned(d)' /\ ArgumentsAsked(d)' /\ BwrapsPart(d)' /\ WrappersPart(d)'
<1> USE DEF ConfinedInv
<1>1. CASE Start
  BY <1>1, OtherCallsKeep DEF Start, process
<1>2. CASE Stop
  BY <1>2 DEF Stop, InFlight, TypeOK, NotSpawned, ArgumentsAsked, BwrapsPart, WrappersPart
<1>3. CASE Crash
  BY <1>3 DEF Crash, InFlight, TypeOK, NotSpawned, ArgumentsAsked, BwrapsPart, WrappersPart
<1> QED BY <1>1, <1>2, <1>3 DEF Server

-----------------------------------------------------------------------------
(***************************************************************************)
(* The cgroup.  A call is in flight only while the server that spawned it  *)
(* serves, so the mode its attachment goes by is the one its arguments     *)
(* were made with; and nothing leaves a cgroup.                            *)
(***************************************************************************)

AttachedInv(c) ==
    /\ InFlight(c) => serving
    /\ pc[c] = "attach" /\ args[c].policy.require_fully_enforced => mode = "enforce"
    /\ pc[c] = "wait" /\ args[c].policy.require_fully_enforced /\ profile[c].cgroup =>
          "monitor" \in capped[c]

AllAttached == \A c \in Calls : AttachedInv(c)

LEMMA TaskAttached ==
    ASSUME NEW c \in Calls, TypeOK, Task(c), NEW d \in Calls, AttachedInv(d)
    PROVE  AttachedInv(d)'
<1> USE DEF AttachedInv, InFlight, mode
<1>1. serving /\ UNCHANGED <<serving, env, profile>>
  BY DEF Task, OpenAudit, Refuse, SpawnBwrap, SpawnPlain, attach_cgroup_to_child, AttachFails,
         collect_process_tree_pids, WaitEnds, TimesOut, AppendDenials, ReadFails,
         append_sandbox_syscall_denied_event, server
<1>2. CASE d # c
  <2>1. pc'[d] = pc[d] /\ args'[d] = args[d] /\ capped'[d] = capped[d]
    BY <1>2 DEF Task, OpenAudit, Refuse, Return, SpawnBwrap, SpawnPlain,
         attach_cgroup_to_child, AttachFails, collect_process_tree_pids, WaitEnds, TimesOut,
         AppendDenials, ReadFails, append_sandbox_syscall_denied_event, process, TypeOK
  <2> QED BY <1>1, <2>1
<1>3. CASE d = c
  <2>1. CASE SpawnBwrap(c)
    <3>1. PICK f \in compose_seccomp_fd(mode, profile[c]) :
              args' = [args EXCEPT ![c] =
                          build_bwrap_args(profile[c], f, build_init_policy(host, env, mode),
                                           Wrapped(host, profile[c]))]
      BY <2>1 DEF SpawnBwrap
    <3>2. args'[c].policy.require_fully_enforced <=> mode = "enforce"
      <4>1. args \in [Calls -> Arguments]
        BY DEF TypeOK
      <4> QED BY <3>1, <4>1 DEF build_bwrap_args, build_init_policy
    <3>3. pc'[c] = "attach"
      BY <2>1 DEF SpawnBwrap, TypeOK
    <3> QED BY <1>1, <1>3, <3>2, <3>3
  <2>2. CASE SpawnPlain(c)
    <3>1. args'[c] = PlainArgs
      BY <2>2 DEF SpawnPlain, TypeOK
    <3>2. pc'[c] = "wait"
      BY <2>2 DEF SpawnPlain, TypeOK
    <3> QED BY <1>1, <1>3, <3>1, <3>2 DEF PlainArgs, NoPolicy
  <2>3. CASE attach_cgroup_to_child(c)
    <3>1. pc'[c] = "wait" /\ args' = args /\ (profile[c].cgroup => "monitor" \in capped'[c])
      BY <2>3 DEF attach_cgroup_to_child, TypeOK
    <3> QED BY <1>1, <1>3, <3>1
  <2>4. CASE AttachFails(c)
    <3>1. args' = args /\ pc[c] = "attach"
      BY <2>4 DEF AttachFails
    <3>2. CASE mode = "enforce"
      <4>1. pc'[c] \in {"read", "report"}
        BY <2>4, <3>2 DEF AttachFails, Return, AfterRun, TypeOK
      <4> QED BY <1>1, <1>3, <4>1
    <3>3. CASE mode # "enforce"
      <4>1. pc'[c] = "wait"
        BY <2>4, <3>3 DEF AttachFails, TypeOK
      <4> QED BY <1>1, <1>3, <3>1, <3>3, <4>1
    <3> QED BY <3>2, <3>3
  <2>5. CASE collect_process_tree_pids(c)
    BY <1>1, <1>3, <2>5 DEF collect_process_tree_pids
  <2>6. CASE \/ OpenAudit(c) \/ Refuse(c) \/ WaitEnds(c) \/ TimesOut(c) \/ AppendDenials(c)
             \/ ReadFails(c) \/ append_sandbox_syscall_denied_event(c)
    <3>1. pc'[c] \in {"run", "read", "report", "done"}
      BY <2>6 DEF OpenAudit, Refuse, WaitEnds, TimesOut, AppendDenials, ReadFails,
           append_sandbox_syscall_denied_event, Return, AfterRun, TypeOK
    <3> QED BY <1>1, <1>3, <3>1
  <2> QED BY <2>1, <2>2, <2>3, <2>4, <2>5, <2>6 DEF Task
<1> QED BY <1>2, <1>3

LEMMA ProcessesAttached ==
    ASSUME NEW c \in Calls, TypeOK, Processes(c), NEW d \in Calls, AttachedInv(d)
    PROVE  AttachedInv(d)'
<1>1. UNCHANGED <<serving, env, pc, args, profile>>
  BY DEF Processes, Fork, SetUp, SetUpFails, WrapperStep, WrapperFails, Killed, Spawn,
         ChildExits, Exit, Deny, MonitorEnds, NamespaceDies, server, process
<1>2. capped[d] \subseteq capped'[d]
  BY DEF Processes, Fork, SetUp, SetUpFails, WrapperStep, WrapperFails, Killed, Spawn,
         ChildExits, Exit, Deny, MonitorEnds, NamespaceDies, process, TypeOK
<1> QED BY <1>1, <1>2 DEF AttachedInv, InFlight, mode

LEMMA ServerAttached ==
    ASSUME TypeOK, Server, NEW d \in Calls, AttachedInv(d)
    PROVE  AttachedInv(d)'
<1>1. CASE Start
  BY <1>1 DEF Start, AttachedInv, InFlight
<1>2. CASE Stop \/ Crash
  <2>1. ~InFlight(d)'
    BY <1>2 DEF Stop, Crash, InFlight, TypeOK
  <2> QED BY <2>1 DEF AttachedInv, InFlight
<1> QED BY <1>1, <1>2 DEF Server

LEMMA ConfinedInvariant == Spec => []ConfinedInv
<1>1. Init => ConfinedInv
  BY InitConfined
<1>2. ConfinedInv /\ [Next]_vars => ConfinedInv'
  <2> SUFFICES ASSUME ConfinedInv, [Next]_vars PROVE ConfinedInv'
    OBVIOUS
  <2>1. TypeOK'
    <3>1. CASE Server
      BY <3>1, ServerTypeOK DEF ConfinedInv
    <3>2. CASE \E c \in Calls : Task(c) \/ Processes(c)
      BY <3>2, TaskTypeOK, ProcessesTypeOK DEF ConfinedInv
    <3>3. CASE DenyElsewhere \/ Logged
      BY <3>3, ElsewhereTypeOK DEF ConfinedInv
    <3>4. CASE UNCHANGED vars
      BY <3>4 DEF vars, ConfinedInv, TypeOK
    <3> QED BY <3>1, <3>2, <3>3, <3>4 DEF Next
  <2>2. ASSUME NEW d \in Calls
        PROVE  NotSpawned(d)' /\ ArgumentsAsked(d)' /\ BwrapsPart(d)' /\ WrappersPart(d)'
    <3>1. CASE Server
      BY <3>1, ServerConfined
    <3>2. CASE \E c \in Calls : Task(c) \/ Processes(c)
      BY <3>2, TaskConfined, ProcessesConfined
    <3>3. CASE DenyElsewhere \/ Logged
      BY <3>3, OtherCallsKeep DEF DenyElsewhere, Logged, ConfinedInv, process
    <3>4. CASE UNCHANGED vars
      BY <3>4, OtherCallsKeep DEF vars, ConfinedInv
    <3> QED BY <3>1, <3>2, <3>3, <3>4 DEF Next
  <2> QED BY <2>1, <2>2 DEF ConfinedInv
<1> QED BY <1>1, <1>2, PTL DEF Spec

\* Whatever is running as a command is confined as its settings and profile ask.
THEOREM CommandsAreConfined == Spec => []CommandIsConfined
<1>1. Init => AllAttached
  BY DEF Init, AllAttached, AttachedInv, InFlight
<1>2. TypeOK /\ AllAttached /\ [Next]_vars => AllAttached'
  <2> SUFFICES ASSUME TypeOK, [Next]_vars, NEW d \in Calls, AttachedInv(d)
               PROVE  AttachedInv(d)'
    BY DEF AllAttached
  <2>1. CASE Server
    BY <2>1, ServerAttached
  <2>2. CASE \E c \in Calls : Task(c) \/ Processes(c)
    BY <2>2, TaskAttached, ProcessesAttached
  <2>3. CASE DenyElsewhere \/ Logged \/ UNCHANGED vars
    BY <2>3 DEF DenyElsewhere, Logged, vars, server, process, AttachedInv, InFlight, mode
  <2> QED BY <2>1, <2>2, <2>3 DEF Next
<1>3. ConfinedInv => TypeOK
  BY DEF ConfinedInv
<1>4. ConfinedInv /\ AllAttached => CommandIsConfined
  <2> SUFFICES ASSUME ConfinedInv, NEW c \in Calls, AttachedInv(c), stage[c] = "command",
                      args[c].unshare
               PROVE  /\ conf[c].isolated /\ conf[c].no_caps /\ conf[c].no_new_privs
                      /\ conf[c].ids = args[c].policy.ids
                      /\ profile[c].deny_net => conf[c].offline
                      /\ args[c].policy.require_fully_enforced =>
                            /\ profile[c].seccomp => conf[c].filter = "kill"
                            /\ profile[c].landlock => conf[c].fs = "full" /\ conf[c].scoped
                            /\ profile[c].cgroup /\ pc[c] = "wait" => "monitor" \in capped[c]
    BY DEF CommandIsConfined, AllAttached
  <2>1. NotSpawned(c) /\ ArgumentsAsked(c) /\ BwrapsPart(c) /\ WrappersPart(c)
    BY DEF ConfinedInv
  <2> QED BY <2>1 DEF ArgumentsAsked, BwrapsPart, WrappersPart, Confining, AttachedInv
<1> QED BY <1>1, <1>2, <1>3, <1>4, ConfinedInvariant, PTL DEF Spec

\* The floor of the start and the floor of a call agree under the strict setting.
THEOREM FloorsAgree == Spec => []StrictFloorAdmitsCalls
<1> DEFINE Started == host \in Hosts /\ env \in Environments
                        /\ (serving => StartsUp(host, env))
<1>1. Init => Started
  BY DEF Init
<1>2. Started /\ [Next]_vars => Started'
  <2> SUFFICES ASSUME Started, [Next]_vars PROVE Started'
    OBVIOUS
  <2>1. CASE Start
    BY <2>1 DEF Start
  <2>2. CASE Stop \/ Crash
    BY <2>2 DEF Stop, Crash
  <2>3. ASSUME NEW c \in Calls, Task(c) PROVE Started'
    BY <2>3 DEF Task, OpenAudit, Refuse, SpawnBwrap, SpawnPlain, attach_cgroup_to_child,
         AttachFails, collect_process_tree_pids, WaitEnds, TimesOut, AppendDenials,
         ReadFails, append_sandbox_syscall_denied_event, server
  <2>4. ASSUME NEW c \in Calls, Processes(c) PROVE Started'
    BY <2>4 DEF Processes, Fork, SetUp, SetUpFails, WrapperStep, WrapperFails, Killed, Spawn,
         ChildExits, Exit, Deny, MonitorEnds, NamespaceDies, server
  <2>5. CASE DenyElsewhere \/ Logged \/ UNCHANGED vars
    BY <2>5 DEF DenyElsewhere, Logged, vars, server
  <2> QED BY <2>1, <2>2, <2>3, <2>4, <2>5 DEF Next, Server
<1>3. Started => StrictFloorAdmitsCalls
  <2> SUFFICES ASSUME Started, serving, ~env.relaxed, NEW p \in Profiles
               PROVE  ~LandlockRefuses(host, mode, p)
    BY DEF StrictFloorAdmitsCalls
  <2>1. host.abi >= LANDLOCK_ABI_FLOOR /\ host.abi \in Nat
    BY AssumedTypes DEF StartsUp, assert_kernel_floor, RequiredAbi, Host
  <2> QED BY <2>1 DEF LandlockRefuses, LANDLOCK_ABI_FLOOR
<1> QED BY <1>1, <1>2, <1>3, PTL DEF Spec
-----------------------------------------------------------------------------
(***************************************************************************)
(* Denials.  SIGSYS: an exit code that tells of one belongs to a process   *)
(* that is over, and one that got as far as the command.                   *)
(***************************************************************************)

SyscallInv(c) ==
    /\ exit_code[c] = 159 => /\ stage[c] = "over"
                             /\ args[c].wrapped => conf[c].fs = "full"
    /\ reported[c] => pc[c] = "done" /\ exit_code[c] = 159

\* No stage of the wrapper makes a call that the filter it runs under would kill it for.
LEMMA FilterListsTheWrappers ==
    ASSUME NEW s \in WrapperStages, NEW f
    PROVE  ~DeniedAt(s, f)
<1>1. SyscallsOf(s) \subseteq allowed_syscalls
  BY DEF SyscallsOf, WrapperStages, allowed_syscalls
<1> QED BY <1>1 DEF DeniedAt

\* A step that writes no exit code and does not touch a process that is over.
LEMMA SyscallKept ==
    ASSUME NEW d \in Calls, SyscallInv(d),
           exit_code'[d] = exit_code[d], reported'[d] = reported[d],
           pc[d] = "done" => pc'[d] = "done",
           stage[d] = "over" =>
               stage'[d] = "over" /\ args'[d] = args[d] /\ conf'[d] = conf[d]
    PROVE  SyscallInv(d)'
BY DEF SyscallInv

LEMMA TaskSyscall ==
    ASSUME NEW c \in Calls, ConfinedInv, Task(c), NEW d \in Calls, SyscallInv(d)
    PROVE  SyscallInv(d)'
<1>0. TypeOK /\ NotSpawned(d) BY DEF ConfinedInv
<1>1. CASE SpawnBwrap(c)
  <2>1. /\ UNCHANGED <<exit_code, reported, stage, conf>>
        /\ pc' = [pc EXCEPT ![c] = "attach"] /\ pc[c] = "run"
        /\ d # c => args'[d] = args[d]
    BY <1>0, <1>1 DEF SpawnBwrap, TypeOK
  <2> QED BY <1>0, <2>1, SyscallKept DEF NotSpawned, TypeOK
<1>2. CASE SpawnPlain(c)
  <2>1. /\ UNCHANGED <<exit_code, reported, conf>>
        /\ pc' = [pc EXCEPT ![c] = "wait"] /\ pc[c] = "run"
        /\ d # c => args'[d] = args[d] /\ stage'[d] = stage[d]
    BY <1>0, <1>2 DEF SpawnPlain, TypeOK
  <2> QED BY <1>0, <2>1, SyscallKept DEF NotSpawned, TypeOK
<1>3. CASE append_sandbox_syscall_denied_event(c)
  <2>1. /\ UNCHANGED <<exit_code, stage, args, conf>>
        /\ pc' = [pc EXCEPT ![c] = "done"]
        /\ reported'[d] => reported[d] \/ (d = c /\ exit_code[c] = 159)
    BY <1>0, <1>3 DEF append_sandbox_syscall_denied_event, process, TypeOK
  <2> QED BY <1>0, <2>1 DEF SyscallInv, TypeOK
<1>4. CASE \/ OpenAudit(c) \/ Refuse(c) \/ attach_cgroup_to_child(c) \/ AttachFails(c)
           \/ collect_process_tree_pids(c) \/ WaitEnds(c) \/ TimesOut(c) \/ AppendDenials(c)
           \/ ReadFails(c)
  <2>1. UNCHANGED <<exit_code, reported, stage, args, conf>>
    BY <1>4 DEF OpenAudit, Refuse, attach_cgroup_to_child, AttachFails,
         collect_process_tree_pids, WaitEnds, TimesOut, AppendDenials, ReadFails, process
  <2>2. pc'[d] = pc[d] \/ pc[d] # "done"
    BY <1>0, <1>4 DEF OpenAudit, Refuse, attach_cgroup_to_child, AttachFails,
         collect_process_tree_pids, WaitEnds, TimesOut, AppendDenials, ReadFails, Return, TypeOK
  <2> QED BY <2>1, <2>2, SyscallKept
<1> QED BY <1>1, <1>2, <1>3, <1>4 DEF Task

LEMMA ProcessesSyscall ==
    ASSUME NEW c \in Calls, ConfinedInv, Processes(c), NEW d \in Calls, SyscallInv(d)
    PROVE  SyscallInv(d)'
<1>0. TypeOK /\ NotSpawned(c) /\ WrappersPart(c) BY DEF ConfinedInv
<1>1. UNCHANGED <<pc, reported, args>>
  BY DEF Processes, Fork, SetUp, SetUpFails, WrapperStep, WrapperFails, Killed, Spawn,
         ChildExits, Exit, Deny, MonitorEnds, NamespaceDies, process
<1>2. CASE SetUpFails(c) \/ WrapperFails(c)
  <2>1. /\ \/ exit_code' = [exit_code EXCEPT ![c] = 1]
           \/ exit_code' = [exit_code EXCEPT ![c] = 125]
        /\ stage' = [stage EXCEPT ![c] = "over"]
        /\ stage[c] # "over" /\ UNCHANGED conf
    BY <1>2 DEF SetUpFails, WrapperFails, Over, WrapperStages
  <2> QED BY <1>0, <1>1, <2>1 DEF SyscallInv, TypeOK
<1>3. CASE Killed(c) \/ Exit(c)
  <2>1. stage[c] = "command"
    BY <1>3, FilterListsTheWrappers DEF Killed, Exit
  <2>2. /\ exit_code' \in {[exit_code EXCEPT ![c] = 0], [exit_code EXCEPT ![c] = 159]}
        /\ stage' = [stage EXCEPT ![c] = "over"]
        /\ UNCHANGED conf
    BY <1>3 DEF Killed, Exit, Over
  <2>3. CASE d # c
    BY <1>0, <1>1, <2>2, <2>3, SyscallKept DEF TypeOK
  <2>4. CASE d = c
    <3>1. args'[c].wrapped => conf'[c].fs = "full"
      BY <1>0, <1>1, <2>1, <2>2 DEF WrappersPart
    <3>2. ~reported'[c]
      BY <1>1, <2>1, <2>4 DEF SyscallInv
    <3> QED BY <1>0, <2>2, <2>4, <3>1, <3>2 DEF SyscallInv, TypeOK
  <2> QED BY <2>3, <2>4
<1>4. CASE \/ Fork(c) \/ SetUp(c) \/ WrapperStep(c) \/ Spawn(c) \/ ChildExits(c) \/ Deny(c)
           \/ MonitorEnds(c) \/ NamespaceDies(c)
  <2>1. UNCHANGED exit_code
    BY <1>4 DEF Fork, SetUp, WrapperStep, Spawn, ChildExits, Deny, MonitorEnds, NamespaceDies,
         process
  <2>2. stage[d] = "over" => stage'[d] = "over" /\ conf'[d] = conf[d]
    BY <1>0, <1>4 DEF Fork, SetUp, WrapperStep, Spawn, ChildExits, Deny, MonitorEnds,
         NamespaceDies, process, WrapperStages, TypeOK
  <2> QED BY <1>1, <2>1, <2>2, SyscallKept
<1> QED BY <1>2, <1>3, <1>4 DEF Processes

LEMMA ServerSyscall ==
    ASSUME TypeOK, Server, NEW d \in Calls, SyscallInv(d)
    PROVE  SyscallInv(d)'
<1>1. UNCHANGED <<exit_code, reported, stage, args, conf>>
  BY DEF Server, Start, Stop, Crash, process
<1>2. pc[d] = "done" => pc'[d] = "done"
  BY DEF Server, Start, Stop, Crash, InFlight, TypeOK
<1> QED BY <1>1, <1>2, SyscallKept

\* A reported SIGSYS was never the wrapper's: by then Landlock was in force.
THEOREM ReportsAreTheCommands == Spec => []ReportedDenialIsTheCommands
<1> DEFINE AllSyscall == \A c \in Calls : SyscallInv(c)
<1>1. Init => AllSyscall
  BY DEF Init, SyscallInv
<1>2. ConfinedInv /\ AllSyscall /\ [Next]_vars => AllSyscall'
  <2> SUFFICES ASSUME ConfinedInv, [Next]_vars, NEW d \in Calls, SyscallInv(d)
               PROVE  SyscallInv(d)'
    OBVIOUS
  <2>1. CASE Server
    BY <2>1, ServerSyscall DEF ConfinedInv
  <2>2. CASE \E c \in Calls : Task(c) \/ Processes(c)
    BY <2>2, TaskSyscall, ProcessesSyscall
  <2>3. CASE DenyElsewhere \/ Logged \/ UNCHANGED vars
    BY <2>3 DEF DenyElsewhere, Logged, vars, process, SyscallInv
  <2> QED BY <2>1, <2>2, <2>3 DEF Next
<1>3. AllSyscall => ReportedDenialIsTheCommands
  BY DEF SyscallInv, ReportedDenialIsTheCommands
<1> QED BY <1>1, <1>2, <1>3, ConfinedInvariant, PTL DEF Spec
-----------------------------------------------------------------------------

(***************************************************************************)
(* A record's pids and a call's sample are those of one call's processes,  *)
(* so a record that matches is the call's own.  What the log had shown     *)
(* when the source was opened is not, and from the result on the sample    *)
(* stands, so each pass takes what matches of what it reads for good.      *)
(***************************************************************************)

AuditInv(c) ==
    /\ pc[c] = "idle" => child[c] = "none" /\ \A i \in DOMAIN journal : journal[i].call # c
    /\ pc[c] = "read" => opened[c] # Unset
    /\ opened[c] <= logged
    /\ audit_pids[c] \subseteq {c} \X Roles
    /\ \A i \in DOMAIN journal :
          journal[i].call # c => journal[i].pids \cap ({c} \X Roles) = {}
    /\ \A i \in denials[c] :
          i \in DOMAIN journal /\ journal[i].call = c /\ journal[i].made # "past"
    /\ pc[c] \in {"run", "attach", "wait"} =>
          \A i \in 1 .. opened[c] : journal[i].call # c
    /\ pc[c] \in {"read", "report", "done"} =>
          \A i \in 1 .. opened[c] :
             audit_record_matches_context(c, journal[i]) => i \in denials[c]

Numbers == /\ DOMAIN journal = 1 .. Len(journal) /\ Len(journal) \in Nat
           /\ logged \in Nat /\ logged <= Len(journal)
           /\ \A c \in Calls : opened[c] \in Nat \cup {Unset}

LEMMA TypedNumbers == TypeOK => Numbers
BY DEF TypeOK, Numbers

\* A record that a call's source shows and that matches is the call's, within its time.
LEMMA MatchesAreItsOwn ==
    ASSUME Numbers, NEW c \in Calls, AuditInv(c), NEW last \in 0 .. logged,
           opened[c] # Unset, NEW i \in Matches(c, last)
    PROVE  i \in DOMAIN journal /\ journal[i].call = c /\ journal[i].made # "past"
<1>1. i \in opened[c] + 1 .. last /\ audit_record_matches_context(c, journal[i])
  BY DEF Matches
<1>2. i \in DOMAIN journal
  BY <1>1 DEF Numbers
<1>3. journal[i].pids \cap audit_pids[c] # {} /\ journal[i].made # "past"
  BY <1>1 DEF audit_record_matches_context
<1> QED BY <1>2, <1>3 DEF AuditInv

\* A step that records nothing and reads nothing of this call's source.
LEMMA AuditKept ==
    ASSUME Numbers, NEW d \in Calls, AuditInv(d), UNCHANGED journal, logged' >= logged,
           logged' \in Nat, opened'[d] = opened[d], denials'[d] = denials[d],
           audit_pids'[d] \subseteq {d} \X Roles,
           pc'[d] = "idle" => pc[d] = "idle" /\ child'[d] = "none",
           pc'[d] = "read" => pc[d] = "read" \/ opened[d] # Unset,
           pc'[d] \in {"run", "attach", "wait"} => pc[d] \in {"run", "attach", "wait"},
           pc'[d] \in {"read", "report", "done"} =>
               \/ pc[d] \in {"run", "attach", "wait"}
               \/ pc[d] \in {"read", "report", "done"} /\ audit_pids'[d] = audit_pids[d]
    PROVE  AuditInv(d)'
<1>1. opened'[d] <= logged'
  BY DEF AuditInv, Numbers, Unset
<1>2. ASSUME pc'[d] \in {"read", "report", "done"}, NEW i \in 1 .. opened[d],
             audit_record_matches_context(d, journal[i])'
      PROVE  i \in denials[d]
  <2>1. journal[i].pids \cap audit_pids'[d] # {} /\ journal[i].made # "past"
    BY <1>2 DEF audit_record_matches_context
  <2>2. i \in DOMAIN journal
    BY DEF AuditInv, Numbers, Unset
  <2>3. journal[i].call = d
    BY <2>1, <2>2 DEF AuditInv
  <2>4. pc[d] \in {"read", "report", "done"} /\ audit_pids'[d] = audit_pids[d]
    BY <1>2, <2>3 DEF AuditInv
  <2> QED BY <2>1, <2>4 DEF AuditInv, audit_record_matches_context
<1>3. \A i \in 1 .. opened'[d] :
          pc'[d] \in {"read", "report", "done"}
          /\ audit_record_matches_context(d, journal[i])' => i \in denials'[d]
  BY <1>2
<1> QED BY <1>1, <1>3 DEF AuditInv, audit_record_matches_context

\* A record more is behind everything that any source has shown.
LEMMA RecordAdded ==
    ASSUME TypeOK, NEW d \in Calls, AuditInv(d),
           NEW who \in Calls \cup {Nobody}, NEW pids, NEW made,
           journal' = Append(journal, [call |-> who, pids |-> pids, made |-> made]),
           UNCHANGED <<pc, opened, denials, audit_pids, child, logged>>,
           who = d => pc[d] # "idle",
           who # d => pids \cap ({d} \X Roles) = {}
    PROVE  AuditInv(d)'
<1>1. PICK n \in Nat :
          /\ n = Len(journal) /\ DOMAIN journal = 1 .. n
          /\ Len(journal') = n + 1 /\ DOMAIN journal' = 1 .. n + 1
          /\ \A i \in 1 .. n : journal'[i] = journal[i]
          /\ journal'[n + 1] = [call |-> who, pids |-> pids, made |-> made]
  BY DEF TypeOK
<1>2. \A i \in 1 .. n + 1 : i \in 1 .. n \/ i = n + 1
  BY <1>1, SMT
<1>3. journal'[n + 1].call = who /\ journal'[n + 1].pids = pids
  BY <1>1
<1>4. opened[d] \in Nat \cup {Unset} /\ opened[d] <= logged /\ logged \in Nat /\ logged <= n
  BY <1>1, TypedNumbers DEF AuditInv, Numbers
<1>5. \A i \in 1 .. opened[d] : i \in 1 .. n /\ journal'[i] = journal[i]
  BY <1>1, <1>4 DEF Unset
<1>6. pc'[d] = "idle" =>
          child'[d] = "none" /\ \A i \in DOMAIN journal' : journal'[i].call # d
  BY <1>1, <1>2, <1>3 DEF AuditInv
<1>7. \A i \in DOMAIN journal' :
          journal'[i].call # d => journal'[i].pids \cap ({d} \X Roles) = {}
  BY <1>1, <1>2, <1>3 DEF AuditInv
<1>8. \A i \in denials'[d] :
          i \in DOMAIN journal' /\ journal'[i].call = d /\ journal'[i].made # "past"
  BY <1>1 DEF AuditInv
<1>9. pc'[d] \in {"run", "attach", "wait"} =>
          \A i \in 1 .. opened'[d] : journal'[i].call # d
  BY <1>5 DEF AuditInv
<1>10. pc'[d] \in {"read", "report", "done"} =>
          \A i \in 1 .. opened'[d] :
             audit_record_matches_context(d, journal[i])' => i \in denials'[d]
  BY <1>5 DEF AuditInv, audit_record_matches_context
<1>11. /\ pc'[d] = "read" => opened'[d] # Unset
       /\ opened'[d] <= logged'
       /\ audit_pids'[d] \subseteq {d} \X Roles
  BY DEF AuditInv
<1> QED BY <1>6, <1>7, <1>8, <1>9, <1>10, <1>11 DEF AuditInv

LEMMA TaskAudit ==
    ASSUME NEW c \in Calls, ConfinedInv, Task(c), NEW d \in Calls, AuditInv(d)
    PROVE  AuditInv(d)'
<1>0. TypeOK /\ Numbers
  BY TypedNumbers DEF ConfinedInv
<1>1. UNCHANGED <<journal, logged, child>>
  BY DEF Task, OpenAudit, Refuse, SpawnBwrap, SpawnPlain, attach_cgroup_to_child,
         AttachFails, collect_process_tree_pids, WaitEnds, TimesOut, AppendDenials,
         ReadFails, append_sandbox_syscall_denied_event, process, audit
<1>2. logged' >= logged /\ logged' \in Nat /\ audit_pids[d] \subseteq {d} \X Roles
  BY <1>0, <1>1 DEF Numbers, AuditInv
<1>3. CASE d # c
  <2>1. /\ pc'[d] = pc[d] /\ opened'[d] = opened[d] /\ denials'[d] = denials[d]
        /\ audit_pids'[d] = audit_pids[d]
    BY <1>0, <1>3 DEF Task, OpenAudit, Refuse, Return, SpawnBwrap, SpawnPlain,
         attach_cgroup_to_child, AttachFails, collect_process_tree_pids, WaitEnds, TimesOut,
         AppendDenials, ReadFails, append_sandbox_syscall_denied_event, process, TypeOK
  <2> QED BY <1>0, <1>1, <1>2, <2>1, AuditKept DEF AuditInv
<1>4. CASE d = c
  <2>1. CASE OpenAudit(c)
    <3>1. /\ pc[c] = "idle" /\ pc'[c] = "run" /\ opened'[c] \in {logged, Unset}
          /\ UNCHANGED <<denials, audit_pids>>
      BY <1>0, <2>1 DEF OpenAudit, process, TypeOK
    <3>2. opened'[c] <= logged /\ \A i \in 1 .. opened'[c] : i \in DOMAIN journal
      BY <1>0, <3>1 DEF Unset, Numbers
    <3> QED BY <1>1, <1>4, <3>1, <3>2 DEF AuditInv
  <2>2. CASE Refuse(c) \/ AttachFails(c) \/ WaitEnds(c) \/ TimesOut(c)
    <3>1. UNCHANGED <<opened, denials>> /\ pc[c] \in {"run", "attach", "wait"}
      BY <2>2 DEF Refuse, AttachFails, WaitEnds, TimesOut
    <3>2. audit_pids'[c] \in {audit_pids[c], {}}
      BY <1>0, <2>2 DEF Refuse, AttachFails, WaitEnds, TimesOut, process, TypeOK
    <3>3. pc'[c] \in {"wait", AfterRun(c)}
      BY <1>0, <2>2 DEF Refuse, AttachFails, WaitEnds, TimesOut, Return, TypeOK
    <3> QED BY <1>0, <1>1, <1>2, <1>4, <3>1, <3>2, <3>3, AuditKept DEF AfterRun
  <2>3. CASE SpawnBwrap(c) \/ SpawnPlain(c) \/ attach_cgroup_to_child(c)
             \/ collect_process_tree_pids(c)
    <3>1. /\ UNCHANGED <<opened, denials>>
          /\ pc[c] \in {"run", "attach", "wait"} /\ pc'[c] \in {"attach", "wait"}
      BY <1>0, <2>3 DEF SpawnBwrap, SpawnPlain, attach_cgroup_to_child,
           collect_process_tree_pids, TypeOK
    <3>2. audit_pids'[c] \subseteq {c} \X Roles
      <4>1. CASE SpawnBwrap(c) \/ SpawnPlain(c)
        BY <1>0, <4>1, SampleIsTyped DEF SpawnBwrap, SpawnPlain, TypeOK
      <4>2. CASE attach_cgroup_to_child(c)
        BY <1>2, <1>4, <4>2 DEF attach_cgroup_to_child
      <4>3. CASE collect_process_tree_pids(c)
        <5>1. PICK seen \in SUBSET Tree(c) :
                  audit_pids' = [audit_pids EXCEPT ![c] =
                                    @ \cup {Pid(c, role) : role \in seen}]
          BY <4>3 DEF collect_process_tree_pids
        <5>2. {Pid(c, role) : role \in seen} \subseteq {c} \X Roles
          BY SampleIsTyped, PidsAreTyped
        <5>3. audit_pids'[c] = audit_pids[c] \cup {Pid(c, role) : role \in seen}
          BY <1>0, <5>1 DEF TypeOK
        <5> QED BY <1>2, <1>4, <5>2, <5>3
      <4> QED BY <2>3, <4>1, <4>2, <4>3
    <3> QED BY <1>0, <1>1, <1>2, <1>4, <3>1, <3>2, AuditKept
  <2>4. CASE AppendDenials(c)
    <3>1. /\ pc[c] = "read" /\ pc'[c] \in {"read", "report"} /\ UNCHANGED audit_pids
          /\ denials'[c] = denials[c] \cup Matches(c, logged) /\ opened'[c] = logged
      BY <1>0, <2>4 DEF AppendDenials, process, TypeOK
    <3>2. opened[c] \in Nat /\ logged \in 0 .. logged /\ logged # Unset
      BY <1>0, <1>4, <3>1 DEF AuditInv, Numbers, Unset
    <3>3. \A i \in denials'[c] :
              i \in DOMAIN journal /\ journal[i].call = c /\ journal[i].made # "past"
      BY <1>0, <1>4, <3>1, <3>2, MatchesAreItsOwn DEF AuditInv, Unset
    <3>4. ASSUME NEW i \in 1 .. logged, audit_record_matches_context(c, journal[i])
          PROVE  i \in denials'[c]
      <4>1. i \in 1 .. opened[c] \/ i \in opened[c] + 1 .. logged
        BY <1>0, <3>2 DEF Numbers
      <4> QED BY <1>4, <3>1, <3>4, <4>1 DEF AuditInv, Matches
    <3>5. \A i \in 1 .. opened'[c] :
              audit_record_matches_context(c, journal[i])' => i \in denials'[c]
      BY <1>1, <3>1, <3>4 DEF audit_record_matches_context
    <3> QED BY <1>0, <1>1, <1>4, <3>1, <3>2, <3>3, <3>5 DEF AuditInv, Numbers
  <2>5. CASE ReadFails(c)
    <3>1. PICK last \in opened[c] .. logged :
              denials' = [denials EXCEPT ![c] = @ \cup Matches(c, last)]
      BY <2>5 DEF ReadFails
    <3>2. /\ pc[c] = "read" /\ pc'[c] = "report" /\ UNCHANGED audit_pids
          /\ denials'[c] = denials[c] \cup Matches(c, last) /\ opened'[c] = Unset
      BY <1>0, <2>5, <3>1 DEF ReadFails, process, TypeOK
    <3>3. opened[c] # Unset /\ last \in 0 .. logged
      BY <1>0, <1>4, <3>2 DEF AuditInv, Numbers
    <3>4. \A i \in denials'[c] :
              i \in DOMAIN journal /\ journal[i].call = c /\ journal[i].made # "past"
      BY <1>0, <1>4, <3>2, <3>3, MatchesAreItsOwn DEF AuditInv
    <3>5. Unset <= logged /\ 1 .. Unset = {}
      BY <1>0 DEF Numbers, Unset
    <3> QED BY <1>1, <1>4, <3>2, <3>4, <3>5 DEF AuditInv
  <2>6. CASE append_sandbox_syscall_denied_event(c)
    <3>1. /\ UNCHANGED <<opened, denials, audit_pids>>
          /\ pc[c] = "report" /\ pc'[c] = "done"
      BY <1>0, <2>6 DEF append_sandbox_syscall_denied_event, process, TypeOK
    <3> QED BY <1>0, <1>1, <1>2, <1>4, <3>1, AuditKept
  <2> QED BY <2>1, <2>2, <2>3, <2>4, <2>5, <2>6 DEF Task
<1> QED BY <1>3, <1>4

LEMMA ProcessesAudit ==
    ASSUME NEW c \in Calls, ConfinedInv, Processes(c), NEW d \in Calls, AuditInv(d)
    PROVE  AuditInv(d)'
<1>0. TypeOK /\ NotSpawned(d) /\ Numbers
  BY TypedNumbers DEF ConfinedInv
<1>1. UNCHANGED <<pc, opened, denials, audit_pids, logged>>
  BY DEF Processes, Fork, SetUp, SetUpFails, WrapperStep, WrapperFails, Killed, Spawn,
         ChildExits, Exit, Deny, MonitorEnds, NamespaceDies, process, audit
<1>2. CASE Deny(c)
  <2>1. PICK pids \in Denied(c), made \in Moments(c) :
            journal' = Append(journal, [call |-> c, pids |-> pids, made |-> made])
    BY <1>2 DEF Deny
  <2>2. UNCHANGED child
    BY <1>2 DEF Deny, process
  <2>3. pids \subseteq {c} \X Roles /\ (stage[c] = "command" \/ ChildAlive(c))
    BY DeniedIsTyped
  <2>4. c = d => pc[d] # "idle"
    BY <1>0, <2>3 DEF NotSpawned, AuditInv, ChildAlive
  <2>5. c # d => pids \cap ({d} \X Roles) = {}
    BY <2>3
  <2> QED BY <1>0, <1>1, <2>1, <2>2, <2>4, <2>5, RecordAdded
<1>3. CASE ~Deny(c)
  <2>1. UNCHANGED journal
    BY <1>3 DEF Processes, Fork, SetUp, SetUpFails, WrapperStep, WrapperFails, Killed, Spawn,
         ChildExits, Exit, MonitorEnds, NamespaceDies, audit
  <2>2. stage[c] # "command" /\ child[c] = "none" => child'[c] = "none"
    BY <1>0, <1>3 DEF Processes, Fork, SetUp, SetUpFails, WrapperStep, WrapperFails, Killed,
         Spawn, ChildExits, Exit, MonitorEnds, NamespaceDies, ChildAlive, TypeOK
  <2>3. d # c => child'[d] = child[d]
    BY <1>0, <1>3 DEF Processes, Fork, SetUp, SetUpFails, WrapperStep, WrapperFails, Killed,
         Spawn, ChildExits, Exit, MonitorEnds, NamespaceDies, TypeOK
  <2>4. pc[d] = "idle" => child'[d] = "none"
    BY <1>0, <2>2, <2>3 DEF NotSpawned, AuditInv
  <2>5. logged' >= logged /\ logged' \in Nat /\ audit_pids'[d] \subseteq {d} \X Roles
    BY <1>0, <1>1 DEF Numbers, AuditInv
  <2> QED BY <1>0, <1>1, <2>1, <2>4, <2>5, AuditKept DEF AuditInv
<1> QED BY <1>2, <1>3

\* A call's denials in the event log are its own and in time, and those of its sample that
\* the source showed it are all there.
THEOREM DenialsAreAppended == Spec => []SampledDenialsAreAppended
<1> DEFINE AllAudit == \A c \in Calls : AuditInv(c)
<1>1. Init => AllAudit
  BY DEF Init, AuditInv, Unset
<1>2. ConfinedInv /\ AllAudit /\ [Next]_vars => AllAudit'
  <2> SUFFICES ASSUME ConfinedInv, [Next]_vars, NEW d \in Calls, AuditInv(d)
               PROVE  AuditInv(d)'
    OBVIOUS
  <2>0. TypeOK /\ Numbers BY TypedNumbers DEF ConfinedInv
  <2>1. CASE Server
    <3>1. UNCHANGED <<journal, logged, opened, denials, audit_pids, child>>
      BY <2>1 DEF Server, Start, Stop, Crash, process, audit
    <3>2. pc'[d] \in {pc[d], "lost"}
      BY <2>0, <2>1 DEF Server, Start, Stop, Crash, TypeOK
    <3>3. logged' >= logged /\ logged' \in Nat /\ audit_pids'[d] \subseteq {d} \X Roles
      BY <2>0, <3>1 DEF Numbers, AuditInv
    <3> QED BY <2>0, <3>1, <3>2, <3>3, AuditKept DEF AuditInv
  <2>2. CASE \E c \in Calls : Task(c) \/ Processes(c)
    BY <2>2, TaskAudit, ProcessesAudit
  <2>3. CASE DenyElsewhere
    <3>1. /\ journal' = Append(journal, [call |-> Nobody, pids |-> {}, made |-> "during"])
          /\ UNCHANGED <<pc, opened, denials, audit_pids, child, logged>>
      BY <2>3 DEF DenyElsewhere, process
    <3>2. Nobody # d BY SandboxAssumption
    <3> QED BY <2>0, <3>1, <3>2, RecordAdded
  <2>4. CASE Logged
    <3>1. UNCHANGED <<journal, pc, opened, denials, audit_pids, child>> /\ logged' = logged + 1
      BY <2>4 DEF Logged, process
    <3>2. logged' >= logged /\ logged' \in Nat /\ audit_pids'[d] \subseteq {d} \X Roles
      BY <2>0, <3>1 DEF Numbers, AuditInv
    <3> QED BY <2>0, <3>1, <3>2, AuditKept DEF AuditInv
  <2>5. CASE UNCHANGED vars
    <3>1. logged' >= logged /\ logged' \in Nat /\ audit_pids'[d] \subseteq {d} \X Roles
      BY <2>0, <2>5 DEF Numbers, AuditInv, vars
    <3> QED BY <2>0, <2>5, <3>1, AuditKept DEF vars, AuditInv
  <2> QED BY <2>1, <2>2, <2>3, <2>4, <2>5 DEF Next
<1>3. ConfinedInv /\ AllAudit => SampledDenialsAreAppended
  BY DEF AuditInv, SampledDenialsAreAppended, audit_record_matches_context
<1> QED BY <1>1, <1>2, <1>3, ConfinedInvariant, PTL DEF Spec
=============================================================================
