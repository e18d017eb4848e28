------------------------------ MODULE MCSandbox ------------------------------
(***************************************************************************)
(* Values for the constants of Sandbox.                                    *)
(***************************************************************************)
EXTENDS SandboxProperties

CONSTANTS c1, nobody

Modern == [abi |-> 7, seccomp |-> TRUE, cgroup_v2 |-> TRUE, cgroup_writable |-> TRUE,
           memory_max |-> TRUE, userns_clone |-> "absent", userns_quota |-> TRUE,
           root |-> FALSE, bwrap_version |-> <<0, 8, 0>>, wrapper |-> TRUE,
           audit_log |-> TRUE]

\* Landlock without scopes; no delegation; no wrapper; an old bwrap.
Old       == [Modern EXCEPT !.abi = 3]
Undeleg   == [Modern EXCEPT !.abi = 6, !.cgroup_writable = FALSE, !.memory_max = FALSE]
Bare      == [Modern EXCEPT !.wrapper = FALSE, !.userns_clone = "0", !.root = TRUE]
Outdated  == [Modern EXCEPT !.bwrap_version = <<0, 7, 9>>]

Strict    == [mode |-> "unset", allow_unsafe |-> FALSE, relaxed |-> FALSE,
              uid |-> Unset, gid |-> Unset]
Watching  == [Strict EXCEPT !.mode = "audit", !.allow_unsafe = TRUE, !.relaxed = TRUE]
Off       == [Strict EXCEPT !.mode = "disabled", !.allow_unsafe = TRUE]
Rootish   == [Strict EXCEPT !.uid = 0]
Relaxed   == [Strict EXCEPT !.allow_unsafe = TRUE, !.relaxed = TRUE]

Production == [deny_net |-> TRUE, seccomp |-> TRUE, landlock |-> TRUE, cgroup |-> FALSE]
Limited    == [Production EXCEPT !.cgroup = TRUE]

OneCall == {c1}
AllHosts == {Modern, Old, Undeleg, Bare, Outdated}
AllEnvironments == {Strict, Watching, Off, Rootish, Relaxed}
BothProfiles == {Production, Limited}

\* Denials are met in a first start in Enforce, on a host that keeps an audit log.
DenialsWhereAudited ==
    journal # << >> =>
        /\ host = Modern /\ env = Strict /\ starts <= 1
        /\ \A c \in Calls : profile[c] = Production
=============================================================================
