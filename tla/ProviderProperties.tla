------------------------- MODULE ProviderProperties --------------------------
(***************************************************************************)
(* What an installation promises of its bootstrap and of its default       *)
(* provider.                                                               *)
(***************************************************************************)
EXTENDS Providers

RegistryTypeOK ==
    /\ BootstrapTypeOK /\ CredentialsTypeOK
    /\ providers \in Seq([name : ProviderNames, credential : Names])
    /\ live_rows \subseteq DOMAIN providers
    /\ is_default \subseteq live_rows
    /\ request \in [Admins ->
          [step : {"idle", "credential_exists", "count", "insert", "clear", "set", "commit",
                   "lookup", "siblings", "delete"},
           name : ProviderNames \union {NoName}, credential : Names \union {NoName}, first : BOOLEAN,
           rows_then : SUBSET Nat, default_then : SUBSET Nat]]
    /\ held \in [Admins -> SUBSET live_rows]
    /\ chosen \in [Admins -> SUBSET live_rows]
    /\ resolving \in [Wakes -> {"idle", "find_active"}]
    /\ picked \in [Wakes -> 0 .. Len(providers)]
    /\ client \in [Wakes -> [base : 0 .. Len(providers), key : 0 .. Len(credentials)]]

\* However bootstraps race, fail or are dropped, one of them is answered 201 at most,
\* no table gets a second row, and the tables are filled in order: whoever was answered
\* 201 has all of them, and a session is of an administrator who exists.
BootstrapsOnce ==
    /\ \A table_name \in Tables : rows[table_name] <= 1
    /\ \A i \in 1 .. 4 : rows[Order[i + 1]] <= rows[Order[i]]
    /\ bootstrapped <= rows["workspace_memberships"]
    /\ sessions => rows["users"] = 1

\* The table has changed since the last look of a's request.
OutOfDate(a) == request[a].rows_then # live_rows \/ request[a].default_then # is_default

\* There is one default at most, whatever requests run beside each other.  Providers come
\* to be without a default only by a create or a delete whose look at the table is out of
\* date: none that acts on the table it looked at leaves siblings without one, and a
\* set_default never does.  (AC-93 allows no such end at all: see
\* ProvidersHaveADefault.)
DefaultIsHandedOn ==
    [][/\ \A r, s \in is_default' : r = s
       /\ live_rows' # {} /\ is_default' = {} /\ ~(live_rows # {} /\ is_default = {}) =>
             \E a \in Admins : /\ request[a].step \in {"insert", "delete"}
                               /\ request'[a] = Idle
                               /\ OutOfDate(a)]_registryVars

\* AC-93: the environment's key and URL are used only when the workspace has no provider,
\* so where there are providers, one of them is the default: a create makes the first one
\* so, and a delete refuses to take it from the others.
ProvidersHaveADefault == live_rows # {} => is_default # {}

\* AC-93: a key is sent only to the URL of a provider that was added for its credential,
\* although the default and the credentials may change between the two reads.
KeyGoesToItsProvider ==
    \A w \in Wakes :
        client[w] # Env =>
            credentials[client[w].key].name = providers[client[w].base].credential
=============================================================================
