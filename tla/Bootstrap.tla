------------------------------ MODULE Bootstrap ------------------------------
(***************************************************************************)
(* How a fresh installation gets its administrator, organisation and       *)
(* workspace, and how the administrator signs in.  bootstrap inserts its   *)
(* rows one statement after the other, outside a transaction, beside other *)
(* bootstraps and logins; it may fail or be dropped between any two.       *)
(*                                                                         *)
(* Every row it inserts has the same values each time, so a table is the   *)
(* number of its rows.                                                     *)
(***************************************************************************)
EXTENDS Naturals, Sequences

CONSTANT Clients        \* connections, each making one request after the other

VARIABLES
    rows,               \* rows per table
    setup,              \* the statement a client's request is about to execute
    bootstrapped,       \* bootstraps answered 201
    sessions            \* somebody holds a session that is valid

bootstrapVars == <<rows, setup, bootstrapped, sessions>>

\* The tables in the order bootstrap fills them.
Order == <<"users", "organizations", "workspaces",
           "organization_memberships", "workspace_memberships">>

Tables == {Order[i] : i \in 1 .. 5}

BootstrapTypeOK ==
    /\ rows \in [Tables -> 0 .. 1]
    /\ setup \in [Clients -> Tables \union {"idle", "bootstrap_session", "login_session"}]
    /\ bootstrapped \in 0 .. 1
    /\ sessions \in BOOLEAN

BootstrapInit ==
    /\ rows = [table \in Tables |-> 0]
    /\ setup = [c \in Clients |-> "idle"]
    /\ bootstrapped = 0
    /\ sessions = FALSE

GoOn(c, to) == setup' = [setup EXCEPT ![c] = to]

\* A bootstrap request with the right token: 409 if the administrator exists, even if
\* what came after him failed.
find_local_admin(c) ==
    /\ setup[c] = "idle"
    /\ rows["users"] = 0
    /\ GoOn(c, Order[1])
    /\ UNCHANGED <<rows, bootstrapped, sessions>>

\* Mutant: a table without its unique constraint.
AcceptsAny(table) == TRUE

\* UNIQUE (auth_provider, auth_subject), slug, (organization_id, slug), and the primary
\* keys of the memberships: each admits one of the rows that bootstrap inserts.
Accepts(table) == rows[table] = 0

\* One INSERT, or its failure, which ends the request.
Insert(c) ==
    \E i \in 1 .. 5 :
        /\ setup[c] = Order[i]
        /\ \/ /\ Accepts(Order[i])
              /\ rows' = [rows EXCEPT ![Order[i]] = @ + 1]
              /\ GoOn(c, IF i < 5 THEN Order[i + 1] ELSE "bootstrap_session")
           \/ ~Accepts(Order[i]) /\ GoOn(c, "idle") /\ UNCHANGED rows
        /\ UNCHANGED <<bootstrapped, sessions>>

\* The session is inserted and the token answered, with 201.
BootstrapSession(c) ==
    /\ setup[c] = "bootstrap_session"
    /\ GoOn(c, "idle")
    /\ bootstrapped' = bootstrapped + 1
    /\ sessions' = TRUE
    /\ UNCHANGED rows

\* A login request with the right token: 400 if there is no administrator.
FindForLogin(c) ==
    /\ setup[c] = "idle"
    /\ rows["users"] > 0
    /\ GoOn(c, "login_session")
    /\ UNCHANGED <<rows, bootstrapped, sessions>>

LoginSession(c) ==
    /\ setup[c] = "login_session"
    /\ GoOn(c, "idle")
    /\ sessions' = TRUE
    /\ UNCHANGED <<rows, bootstrapped>>

\* A statement fails, the client hangs up, or the server crashes.
AbandonSetup(c) ==
    /\ setup[c] # "idle"
    /\ GoOn(c, "idle")
    /\ UNCHANGED <<rows, bootstrapped, sessions>>

\* The last valid session expires after its thirty days.
SessionEnds == sessions /\ sessions' = FALSE /\ UNCHANGED <<rows, setup, bootstrapped>>

\* auth_middleware: a valid session of a user with a workspace.
auth_middleware == sessions /\ rows["workspace_memberships"] > 0

BootstrapNext ==
    \/ \E c \in Clients :
          \/ AbandonSetup(c)
          \/ find_local_admin(c) \/ Insert(c) \/ BootstrapSession(c)
          \/ FindForLogin(c) \/ LoginSession(c)
    \/ SessionEnds

BootstrapSpec == BootstrapInit /\ [][BootstrapNext]_bootstrapVars
=============================================================================
