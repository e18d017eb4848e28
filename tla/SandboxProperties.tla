-------------------------- MODULE SandboxProperties --------------------------
(***************************************************************************)
(* What a shell call promises: how its command is confined, what is left   *)
(* of it afterwards, and what the event log says of what it was denied.    *)
(***************************************************************************)
EXTENDS Sandbox

Filters == {"none", "kill", "log"}
Ids == (Nat \X Nat) \cup {<< >>}
Policies == [ids : Ids, scopes : BOOLEAN, log_denials : BOOLEAN,
             seccomp_bpf : Filters, require_fully_enforced : BOOLEAN]
Arguments == [die_with_parent : BOOLEAN, unshare : BOOLEAN, deny_net : BOOLEAN,
              filter : Filters, policy : Policies, wrapped : BOOLEAN]
Confinements == [isolated : BOOLEAN, offline : BOOLEAN, ids : Ids,
                 no_caps : BOOLEAN, no_new_privs : BOOLEAN, filter : Filters,
                 fs : {"none", "full"}, scoped : BOOLEAN, logging : BOOLEAN]

Records == [call : Calls \cup {Nobody}, pids : SUBSET Pids, made : {"during", "skew", "past"}]

\* Types of the server's, the calls' and the processes' state.
TypeOK ==
    /\ host \in Hosts /\ env \in Environments
    /\ serving \in BOOLEAN /\ starts \in 0 .. MaxStarts
    /\ pc \in [Calls -> {"idle", "run", "attach", "wait", "read", "report",
                         "done", "lost"}]
    /\ outcome \in [Calls -> {"none", "Rejected", "Err", "Timeout", "Ok"}]
    /\ opened \in [Calls -> Nat \cup {Unset}]
    /\ profile \in [Calls -> Profiles]
    /\ args \in [Calls -> Arguments]
    /\ monitor \in [Calls -> {"none", "alive", "killed", "gone"}]
    /\ stage \in [Calls -> {"none", "forked", "command", "over"} \cup WrapperStages]
    /\ conf \in [Calls -> Confinements]
    /\ child \in [Calls -> {"none", "attached", "detached", "gone"}]
    /\ exit_code \in [Calls -> {0, 1, 125, 159}]
    /\ audit_pids \in [Calls -> SUBSET Pids]
    /\ capped \in [Calls -> SUBSET {"monitor", "main"}]
    /\ journal \in Seq(Records) /\ logged \in 0 .. Len(journal)
    /\ denials \in [Calls -> SUBSET Nat]
    /\ reported \in [Calls -> BOOLEAN]

\* AC-53, AC-85, AC-86: a command that runs in a sandbox has the identity, the namespaces
\* and the empty capabilities its policy asks for and, in Enforce, every layer its profile
\* asks for, whatever failed on the way and whoever restarted the server since; and the
\* server waits for none in Enforce whose bwrap it could not put under its caps.
CommandIsConfined ==
    \A c \in Calls :
        stage[c] = "command" /\ args[c].unshare =>
            /\ conf[c].isolated /\ conf[c].no_caps /\ conf[c].no_new_privs
            /\ conf[c].ids = args[c].policy.ids
            /\ profile[c].deny_net => conf[c].offline
            /\ args[c].policy.require_fully_enforced =>
                  /\ profile[c].seccomp => conf[c].filter = "kill"
                  /\ profile[c].landlock => conf[c].fs = "full" /\ conf[c].scoped
                  /\ profile[c].cgroup /\ pc[c] = "wait" => "monitor" \in capped[c]

\* AC-77: what is reported as a denied system call was a call of the command: the
\* set-up that runs under the same filter does not fall to it.
ReportedDenialIsTheCommands ==
    \A c \in Calls :
        reported[c] /\ args[c].wrapped => conf[c].fs = "full"

\* AC-88: a denial in the event log under a call was met by a process of that call, before
\* its return or within the skew that is allowed after it, by whomever else the audit log
\* is used and however long a process stays behind.  And if its source held, every denial
\* that the source had shown when the call gave up reading, of a process that was sampled
\* or is a sampled one's child, is in the event log.
SampledDenialsAreAppended ==
    \A c \in Calls :
        /\ \A i \in denials[c] : journal[i].call = c /\ journal[i].made # "past"
        /\ pc[c] = "done" /\ opened[c] # Unset =>
              \A i \in 1 .. opened[c] :
                  /\ journal[i].call = c /\ journal[i].made # "past"
                  /\ journal[i].pids \cap audit_pids[c] # {}
                  => i \in denials[c]

\* AC-84: a server that came up in Enforce under the strict floor never has to refuse
\* a call for what its kernel lacks.
StrictFloorAdmitsCalls ==
    serving /\ mode = "enforce" /\ ~env.relaxed =>
        \A p \in Profiles : ~LandlockRefuses(host, mode, p)

\* A sandboxed call that is answered, or lost with the server, leaves nothing running.
NothingIsLeftRunning ==
    \A c \in Calls :
        pc[c] \in {"done", "lost"} /\ args[c].unshare ~> ~Alive(c)
=============================================================================
