----------------------------- MODULE Providers ------------------------------
(***************************************************************************)
(* The LLM providers of the workspace that Bootstrap creates, the default  *)
(* among them, and the client that a wake builds from the default and its  *)
(* credential.  Administrators' requests run beside each other, a database *)
(* statement per step; only set_default uses a transaction.                *)
(*                                                                         *)
(* A provider row is known by its number, which stands for its base URL:   *)
(* a name that was deleted may come back with another URL.                 *)
(***************************************************************************)
EXTENDS Bootstrap, Credentials, FiniteSets

CONSTANTS
    Admins,             \* connections of administrators
    Wakes,              \* wakes that resolve their LLM
    ProviderNames,      \* provider names
    NoName,             \* where a request names nothing
    MaxProviders        \* bound: provider rows ever inserted

ASSUME ProvidersAssumption ==
    MaxProviders \in Nat /\ NoName \notin ProviderNames \union Names

VARIABLES
    providers,          \* the rows ever inserted
    live_rows,          \* those not deleted
    is_default,         \* those with is_default, as committed
    request,            \* what an administrator's request asks for, and how far it is
    held,               \* the rows its open transaction has updated
    chosen,             \* the row its open transaction has made the default: {} or {row}
    resolving,          \* where a wake's resolve_workspace_llm is
    picked,             \* the provider row it read
    client              \* the client it built: a base URL and the key sent there

table == <<providers, live_rows, is_default>>
transaction == <<held, chosen>>
registry == <<table, request, transaction>>
resolution == <<resolving, picked, client>>
setupVars == <<bootstrapVars, credentials>>

Env == [base |-> 0, key |-> 0]          \* the process-wide client of the environment

\* rows_then and default_then are history: the table as it was at the request's last look.
Request(step, name, c) ==
    [step |-> step, name |-> name, credential |-> c, first |-> FALSE,
     rows_then |-> {}, default_then |-> {}]

Idle == Request("idle", NoName, NoName)

RegistryInit ==
    /\ BootstrapInit /\ CredentialsInit
    /\ providers = << >> /\ live_rows = {} /\ is_default = {}
    /\ request = [a \in Admins |-> Idle]
    /\ held = [a \in Admins |-> {}]
    /\ chosen = [a \in Admins |-> {}]
    /\ resolving = [w \in Wakes |-> "idle"]
    /\ picked = [w \in Wakes |-> 0]
    /\ client = [w \in Wakes |-> Env]

Named(name) == {r \in live_rows : providers[r].name = name}

\* A row that another open transaction has updated is locked.
Locked(r) == \E a \in Admins : r \in held[a]

Step(a, to) == request' = [request EXCEPT ![a].step = to]

Look(a, to, first) ==
    request' = [request EXCEPT ![a] = [@ EXCEPT
        !.step = to, !.first = first, !.rows_then = live_rows, !.default_then = is_default]]

Reply(a) == request' = [request EXCEPT ![a] = Idle]

\* auth_middleware and require_admin let the request in.
Ask(a) ==
    /\ request[a].step = "idle"
    /\ auth_middleware
    /\ \E name \in ProviderNames :
          \/ \E step \in {"clear", "lookup"} :
                request' = [request EXCEPT ![a] = Request(step, name, NoName)]
          \/ \E c \in Names :
                request' = [request EXCEPT ![a] = Request("credential_exists", name, c)]
    /\ UNCHANGED <<setupVars, table, transaction, resolution>>

-----------------------------------------------------------------------------
(* create *)

\* 400 if no active credential has the name.
credential_exists(a) ==
    /\ request[a].step = "credential_exists"
    /\ IF find_active(request[a].credential) # {} THEN Step(a, "count") ELSE Reply(a)
    /\ UNCHANGED <<setupVars, table, transaction, resolution>>

CountProviders(a) ==
    /\ request[a].step = "count"
    /\ Look(a, "insert", live_rows = {})
    /\ UNCHANGED <<setupVars, table, transaction, resolution>>

\* Mutant: no llm_providers_one_default_per_workspace.
NoDefaultIndex(a) == {}

\* The rows that the partial unique index on is_default sets against a's new default.
DefaultIndex(a) == is_default \ held[a]

\* Whether such a row is one that another transaction has yet to commit: wait for it.
DefaultIsInDoubt(a) ==
    \E b \in Admins \ {a} : chosen[b] # {} \/ held[b] \intersect DefaultIndex(a) # {}

InsertProvider(a) ==
    /\ request[a].step = "insert"
    /\ Len(providers) < MaxProviders
    /\ request[a].first /\ Named(request[a].name) = {} => ~DefaultIsInDoubt(a)
    /\ IF Named(request[a].name) # {} \/ (request[a].first /\ DefaultIndex(a) # {})
       THEN UNCHANGED table
       ELSE LET r == Len(providers) + 1 IN
            /\ providers' = Append(providers, [name |-> request[a].name,
                                               credential |-> request[a].credential])
            /\ live_rows' = live_rows \union {r}
            /\ is_default' = IF request[a].first THEN is_default \union {r} ELSE is_default
    /\ Reply(a)
    /\ UNCHANGED <<setupVars, transaction, resolution>>

-----------------------------------------------------------------------------
(* set_default *)

\* UPDATE of every row of the workspace, which waits for those that are locked.
ClearDefault(a) ==
    /\ request[a].step = "clear"
    /\ \A r \in live_rows : ~Locked(r)
    /\ held' = [held EXCEPT ![a] = live_rows]
    /\ Step(a, "set")
    /\ UNCHANGED <<setupVars, table, chosen, resolution>>

RollBack(a) ==
    /\ held' = [held EXCEPT ![a] = {}]
    /\ chosen' = [chosen EXCEPT ![a] = {}]
    /\ Reply(a)

\* The row of that name, if there is one (404 otherwise) and the index admits it.
SetDefault(a) ==
    /\ request[a].step = "set"
    /\ \A r \in Named(request[a].name), b \in Admins \ {a} : r \notin held[b]
    /\ Named(request[a].name) # {} => ~DefaultIsInDoubt(a)
    /\ IF Named(request[a].name) = {} \/ DefaultIndex(a) \ Named(request[a].name) # {}
       THEN RollBack(a)
       ELSE /\ held' = [held EXCEPT ![a] = @ \union Named(request[a].name)]
            /\ chosen' = [chosen EXCEPT ![a] = Named(request[a].name)]
            /\ Step(a, "commit")
    /\ UNCHANGED <<setupVars, table, resolution>>

CommitDefault(a) ==
    /\ request[a].step = "commit"
    /\ is_default' = (is_default \ held[a]) \union chosen[a]
    /\ RollBack(a)
    /\ UNCHANGED <<setupVars, providers, live_rows, resolution>>

-----------------------------------------------------------------------------
(* delete *)

\* 404 if there is no such row.
LookUp(a) ==
    /\ request[a].step = "lookup"
    /\ LET found == Named(request[a].name) IN
          \/ found = {} /\ Reply(a)
          \/ found # {} /\ Look(a, IF found \subseteq is_default THEN "siblings" ELSE "delete", FALSE)
    /\ UNCHANGED <<setupVars, table, transaction, resolution>>

\* Mutant: a default is deleted whatever the count.
CountNoSiblings(a) ==
    /\ request[a].step = "siblings"
    /\ Look(a, "delete", FALSE)
    /\ UNCHANGED <<setupVars, table, transaction, resolution>>

\* 400 for a default among others.
CountSiblings(a) ==
    /\ request[a].step = "siblings"
    /\ IF live_rows \ Named(request[a].name) # {} THEN Reply(a) ELSE Look(a, "delete", FALSE)
    /\ UNCHANGED <<setupVars, table, transaction, resolution>>

\* One DELETE by name, whatever has become of the row since.
DeleteProvider(a) ==
    /\ request[a].step = "delete"
    /\ LET found == Named(request[a].name) IN
          /\ \A r \in found : ~Locked(r)
          /\ live_rows' = live_rows \ found
          /\ is_default' = is_default \ found
    /\ Reply(a)
    /\ UNCHANGED <<setupVars, providers, transaction, resolution>>

\* A statement fails, the client hangs up, or the server crashes: an open transaction
\* is rolled back.
AbandonRequest(a) ==
    /\ request[a].step # "idle"
    /\ RollBack(a)
    /\ UNCHANGED <<setupVars, table, resolution>>

-----------------------------------------------------------------------------
(* resolve_workspace_llm *)

\* A new wake: one SELECT of base_url and credential_name.
resolve_default(w) ==
    /\ resolving[w] = "idle"
    /\ client' = [client EXCEPT ![w] = Env]
    /\ \/ is_default = {} /\ UNCHANGED <<resolving, picked>>
       \/ \E r \in is_default :
             /\ picked' = [picked EXCEPT ![w] = r]
             /\ resolving' = [resolving EXCEPT ![w] = "find_active"]
    /\ UNCHANGED <<setupVars, registry>>

\* Mutant: the credential of the provider that is the default by now.
CredentialOfDefault(w) == UNION {find_active(providers[r].credential) : r \in is_default}

\* The active credential of the name that came with the URL.
CredentialOf(w) == find_active(providers[picked[w]].credential)

\* The key is opened and used with that URL; without one the environment's client is.
FindKey(w) ==
    /\ resolving[w] = "find_active"
    /\ \/ \E key \in CredentialOf(w) :
             client' = [client EXCEPT ![w] = [base |-> picked[w], key |-> key]]
       \/ CredentialOf(w) = {} /\ client' = [client EXCEPT ![w] = Env]
    /\ resolving' = [resolving EXCEPT ![w] = "idle"]
    /\ picked' = [picked EXCEPT ![w] = 0]
    /\ UNCHANGED <<setupVars, registry>>

\* Either read fails, or the key does not open.
ResolutionFails(w) ==
    /\ client' = [client EXCEPT ![w] = Env]
    /\ resolving' = [resolving EXCEPT ![w] = "idle"]
    /\ picked' = [picked EXCEPT ![w] = 0]
    /\ UNCHANGED <<setupVars, registry>>

-----------------------------------------------------------------------------
\* The administrator's other requests: credentials are added and revoked.
ChangeCredential ==
    /\ auth_middleware
    /\ \E name \in Names : create(name) \/ revoke(name)
    /\ UNCHANGED <<bootstrapVars, registry, resolution>>

Handle(a) ==
    \/ credential_exists(a) \/ CountProviders(a) \/ InsertProvider(a)
    \/ ClearDefault(a) \/ SetDefault(a) \/ CommitDefault(a)
    \/ LookUp(a) \/ CountSiblings(a) \/ DeleteProvider(a)

RegistryNext ==
    \/ BootstrapNext /\ UNCHANGED <<credentials, registry, resolution>>
    \/ ChangeCredential
    \/ \E a \in Admins : Ask(a) \/ Handle(a) \/ AbandonRequest(a)
    \/ \E w \in Wakes : resolve_default(w) \/ FindKey(w) \/ ResolutionFails(w)

registryVars == <<setupVars, registry, resolution>>

RegistrySpec == RegistryInit /\ [][RegistryNext]_registryVars
=============================================================================
