----------------------------- MODULE Credentials -----------------------------
(***************************************************************************)
(* The credentials of one workspace.  A row is one sealed value; a name    *)
(* may have many rows over time, of which the partial unique index admits  *)
(* one that is not revoked.                                                *)
(***************************************************************************)
EXTENDS Naturals, Sequences

CONSTANTS
    Names,              \* credential names
    MaxCredentials      \* bound: rows ever created

ASSUME CredentialsAssumption == MaxCredentials \in Nat

VARIABLE credentials

CredentialsTypeOK == credentials \in Seq([name : Names, revoked : BOOLEAN])

CredentialsInit == credentials = << >>

ActiveRows(name) ==
    {r \in DOMAIN credentials : credentials[r].name = name /\ ~credentials[r].revoked}

\* Mutant: a look-up that forgets `revoked_at IS NULL`.
find_any(name) == {r \in DOMAIN credentials : credentials[r].name = name}

\* At most one row; None is the empty set.
find_active(name) == ActiveRows(name)

Active == UNION {ActiveRows(name) : name \in Names}

\* create: the unique index answers a second active row with a conflict.
create(name) ==
    /\ Len(credentials) < MaxCredentials
    /\ ActiveRows(name) = {}
    /\ credentials' = Append(credentials, [name |-> name, revoked |-> FALSE])

\* revoke: there may be nothing to revoke, and then nothing happens.
revoke(name) ==
    /\ ActiveRows(name) # {}
    /\ credentials' = [r \in DOMAIN credentials |->
                          IF r \in ActiveRows(name)
                          THEN [credentials[r] EXCEPT !.revoked = TRUE]
                          ELSE credentials[r]]
=============================================================================
