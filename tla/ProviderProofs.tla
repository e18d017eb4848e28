--------------------------- MODULE ProviderProofs ----------------------------
(***************************************************************************)
(* For any number of clients, administrators, wakes and names: one         *)
(* bootstrap succeeds, providers lose their default only to looks that are *)
(* out of date, and a key goes to the provider it was added for.           *)
(***************************************************************************)
EXTENDS ProviderProperties, TLAPS

-----------------------------------------------------------------------------
(* Bootstrap. *)

\* Past the insertion of the administrator.
Past(c) == setup[c] \notin {"idle", "users", "login_session"}

OneGetsPast ==
    /\ \A c, d \in Clients : Past(c) /\ Past(d) => c = d
    /\ \A c \in Clients : Past(c) => bootstrapped = 0

\* The row a client has just inserted is there, the one to come is not.
Frontier ==
    \A c \in Clients :
        /\ setup[c] = "organizations" => rows["users"] = 1 /\ rows["organizations"] = 0
        /\ setup[c] = "workspaces" => rows["organizations"] = 1 /\ rows["workspaces"] = 0
        /\ setup[c] = "organization_memberships" =>
              rows["workspaces"] = 1 /\ rows["organization_memberships"] = 0
        /\ setup[c] = "workspace_memberships" =>
              rows["organization_memberships"] = 1 /\ rows["workspace_memberships"] = 0
        /\ setup[c] = "bootstrap_session" => rows["workspace_memberships"] = 1
        /\ setup[c] = "login_session" => rows["users"] = 1

BootstrapInv == BootstrapTypeOK /\ OneGetsPast /\ Frontier /\ BootstrapsOnce

LEMMA OrderIs ==
    /\ Order[1] = "users" /\ Order[2] = "organizations" /\ Order[3] = "workspaces"
    /\ Order[4] = "organization_memberships" /\ Order[5] = "workspace_memberships"
    /\ Tables = {"users", "organizations", "workspaces",
                 "organization_memberships", "workspace_memberships"}
<1>1. 1 .. 5 = {1, 2, 3, 4, 5}
  OBVIOUS
<1> QED BY <1>1 DEF Order, Tables

\* BootstrapsOnce, table by table.
FilledInOrder ==
    /\ rows["organizations"] <= rows["users"]
    /\ rows["workspaces"] <= rows["organizations"]
    /\ rows["organization_memberships"] <= rows["workspaces"]
    /\ rows["workspace_memberships"] <= rows["organization_memberships"]
    /\ bootstrapped <= rows["workspace_memberships"]
    /\ sessions => rows["users"] = 1

LEMMA ByTable == BootstrapTypeOK => (BootstrapsOnce <=> FilledInOrder)
<1>1. 1 .. 4 = {1, 2, 3, 4} /\ 0 .. 1 = {0, 1} /\ 1 + 1 = 2 /\ 2 + 1 = 3 /\ 3 + 1 = 4 /\ 4 + 1 = 5
  OBVIOUS
<1> QED BY <1>1, OrderIs DEF BootstrapsOnce, FilledInOrder, BootstrapTypeOK

LEMMA BootstrapBegins == BootstrapInit => BootstrapInv
<1>1. BootstrapInit => BootstrapTypeOK /\ OneGetsPast /\ Frontier /\ FilledInOrder
  <2> USE DEF BootstrapInit
  <2>1. BootstrapInit => BootstrapTypeOK
    <3>1. 0 \in 0 .. 1
      OBVIOUS
    <3> QED BY <3>1 DEF BootstrapTypeOK
  <2>2. BootstrapInit => OneGetsPast /\ Frontier
    BY DEF OneGetsPast, Frontier, Past
  <2>3. BootstrapInit => FilledInOrder
    BY OrderIs DEF FilledInOrder
  <2> QED BY <2>1, <2>2, <2>3
<1> QED BY <1>1, ByTable DEF BootstrapInv

LEMMA InsertKeeps ==
    ASSUME NEW c \in Clients, BootstrapInv, Insert(c)
    PROVE  BootstrapTypeOK' /\ OneGetsPast' /\ Frontier' /\ FilledInOrder'
<1> DEFINE Goal == BootstrapTypeOK /\ OneGetsPast /\ Frontier /\ FilledInOrder
<1>1. FilledInOrder
  BY ByTable DEF BootstrapInv
<1>2. PICK i \in 1 .. 5 :
        /\ setup[c] = Order[i]
        /\ \/ /\ rows[Order[i]] = 0
              /\ rows' = [rows EXCEPT ![Order[i]] = @ + 1]
              /\ GoOn(c, IF i < 5 THEN Order[i + 1] ELSE "bootstrap_session")
           \/ rows[Order[i]] # 0 /\ GoOn(c, "idle") /\ UNCHANGED rows
        /\ UNCHANGED <<bootstrapped, sessions>>
  BY DEF Insert, Accepts
<1> USE <1>1, OrderIs
    DEF BootstrapInv, BootstrapTypeOK, OneGetsPast, Frontier, FilledInOrder, Past, GoOn
<1>3. CASE i = 1
  <2>1. CASE rows[Order[1]] = 0 /\ rows' = [rows EXCEPT ![Order[1]] = @ + 1]
             /\ setup' = [setup EXCEPT ![c] = Order[2]]
    BY <1>2, <1>3, <2>1
  <2>2. CASE setup' = [setup EXCEPT ![c] = "idle"] /\ UNCHANGED rows
    BY <1>2, <1>3, <2>2
  <2> QED BY <1>2, <1>3, <2>1, <2>2
<1>4. CASE i = 2
  <2>1. CASE rows[Order[2]] = 0 /\ rows' = [rows EXCEPT ![Order[2]] = @ + 1]
             /\ setup' = [setup EXCEPT ![c] = Order[3]]
    BY <1>2, <1>4, <2>1
  <2>2. CASE setup' = [setup EXCEPT ![c] = "idle"] /\ UNCHANGED rows
    BY <1>2, <1>4, <2>2
  <2> QED BY <1>2, <1>4, <2>1, <2>2
<1>5. CASE i = 3
  <2>1. CASE rows[Order[3]] = 0 /\ rows' = [rows EXCEPT ![Order[3]] = @ + 1]
             /\ setup' = [setup EXCEPT ![c] = Order[4]]
    BY <1>2, <1>5, <2>1
  <2>2. CASE setup' = [setup EXCEPT ![c] = "idle"] /\ UNCHANGED rows
    BY <1>2, <1>5, <2>2
  <2> QED BY <1>2, <1>5, <2>1, <2>2
<1>6. CASE i = 4
  <2>1. CASE rows[Order[4]] = 0 /\ rows' = [rows EXCEPT ![Order[4]] = @ + 1]
             /\ setup' = [setup EXCEPT ![c] = Order[5]]
    BY <1>2, <1>6, <2>1
  <2>2. CASE setup' = [setup EXCEPT ![c] = "idle"] /\ UNCHANGED rows
    BY <1>2, <1>6, <2>2
  <2> QED BY <1>2, <1>6, <2>1, <2>2
<1>7. CASE i = 5
  <2>1. CASE rows[Order[5]] = 0 /\ rows' = [rows EXCEPT ![Order[5]] = @ + 1]
             /\ setup' = [setup EXCEPT ![c] = "bootstrap_session"]
    BY <1>2, <1>7, <2>1
  <2>2. CASE setup' = [setup EXCEPT ![c] = "idle"] /\ UNCHANGED rows
    BY <1>2, <1>7, <2>2
  <2> QED BY <1>2, <1>7, <2>1, <2>2
<1> QED BY <1>3, <1>4, <1>5, <1>6, <1>7

LEMMA BootstrapKeeps == BootstrapInv /\ [BootstrapNext]_bootstrapVars => BootstrapInv'
<1> SUFFICES ASSUME BootstrapInv, [BootstrapNext]_bootstrapVars
             PROVE  BootstrapTypeOK' /\ OneGetsPast' /\ Frontier' /\ FilledInOrder'
  <2>1. BootstrapTypeOK' => (BootstrapsOnce' <=> FilledInOrder')
    BY ByTable, PTL
  <2> QED BY <2>1 DEF BootstrapInv
<1>1. FilledInOrder
  BY ByTable DEF BootstrapInv
<1>2. ASSUME NEW c \in Clients, Insert(c)
      PROVE  BootstrapTypeOK' /\ OneGetsPast' /\ Frontier' /\ FilledInOrder'
  BY <1>2, InsertKeeps
<1> USE <1>1, OrderIs
    DEF BootstrapInv, BootstrapTypeOK, OneGetsPast, Frontier, FilledInOrder, Past, GoOn
<1>3. ASSUME NEW c \in Clients,
             find_local_admin(c) \/ FindForLogin(c) \/ LoginSession(c) \/ AbandonSetup(c)
      PROVE  BootstrapTypeOK' /\ OneGetsPast' /\ Frontier' /\ FilledInOrder'
  <2>1. CASE find_local_admin(c)
    BY <2>1 DEF find_local_admin
  <2>2. CASE FindForLogin(c)
    BY <2>2 DEF FindForLogin
  <2>3. CASE LoginSession(c)
    BY <2>3 DEF LoginSession
  <2>4. CASE AbandonSetup(c)
    BY <2>4 DEF AbandonSetup
  <2> QED BY <1>3, <2>1, <2>2, <2>3, <2>4
<1>4. ASSUME NEW c \in Clients, BootstrapSession(c)
      PROVE  BootstrapTypeOK' /\ OneGetsPast' /\ Frontier' /\ FilledInOrder'
  BY <1>4 DEF BootstrapSession
<1>5. CASE SessionEnds
  BY <1>5 DEF SessionEnds
<1>6. CASE UNCHANGED bootstrapVars
  BY <1>6 DEF bootstrapVars
<1> QED BY <1>2, <1>3, <1>4, <1>5, <1>6 DEF BootstrapNext

-----------------------------------------------------------------------------
(* Providers. *)

UniqueNames == \A r, s \in live_rows : providers[r].name = providers[s].name => r = s

RequestsAreNamed ==
    \A a \in Admins :
        /\ request[a].step # "idle" => request[a].name \in ProviderNames
        /\ request[a].step \in {"credential_exists", "count", "insert"} =>
              request[a].credential \in Names

\* Only a set_default holds locks, no two of them the same, and it holds the one row
\* it has made the default.
LocksAreTheirs ==
    /\ \A a \in Admins :
          /\ request[a].step \notin {"set", "commit"} => held[a] = {}
          /\ request[a].step = "commit" <=> chosen[a] # {}
          /\ chosen[a] \subseteq held[a]
          /\ \A r, s \in chosen[a] : r = s
    /\ \A a, b \in Admins : a # b => held[a] \intersect held[b] = {}

OneDefault == \A r, s \in is_default : r = s

\* While one set_default is about to commit, no other is, and it has cleared all there is.
OneCommits ==
    \A a \in Admins :
        chosen[a] # {} => /\ is_default \subseteq held[a]
                          /\ \A b \in Admins : b # a => chosen[b] = {}

KeysMatch ==
    \A w \in Wakes :
        /\ resolving[w] = "find_active" => picked[w] \in DOMAIN providers
        /\ client[w] # Env =>
              /\ client[w].base \in DOMAIN providers
              /\ client[w].key \in DOMAIN credentials
              /\ credentials[client[w].key].name = providers[client[w].base].credential

TableInv ==
    /\ RegistryTypeOK
    /\ UniqueNames /\ RequestsAreNamed /\ LocksAreTheirs /\ OneDefault /\ OneCommits
    /\ KeysMatch

\* Credentials are appended and revoked; none loses its name.
LEMMA CredentialsGrow ==
    ASSUME CredentialsTypeOK, NEW name \in Names, create(name) \/ revoke(name)
    PROVE  /\ CredentialsTypeOK'
           /\ Len(credentials) <= Len(credentials')
           /\ \A r \in DOMAIN credentials :
                 r \in DOMAIN credentials' /\ credentials'[r].name = credentials[r].name
<1> DEFINE Rows == [name : Names, revoked : BOOLEAN]
<1>1. credentials \in Seq(Rows)
  BY DEF CredentialsTypeOK
<1>2. CASE create(name)
  <2>1. [name |-> name, revoked |-> FALSE] \in Rows
    OBVIOUS
  <2> QED BY <1>1, <1>2, <2>1 DEF create, CredentialsTypeOK
<1>3. CASE revoke(name)
  <2>1. \A r \in DOMAIN credentials : credentials[r] \in Rows
    <3> HIDE DEF Rows
    <3>1. credentials \in [1 .. Len(credentials) -> Rows]
      BY <1>1
    <3> QED BY <3>1
  <2>2. \A r \in DOMAIN credentials :
           /\ [credentials[r] EXCEPT !.revoked = TRUE] \in Rows
           /\ [credentials[r] EXCEPT !.revoked = TRUE].name = credentials[r].name
    BY <2>1
  <2>3. credentials' = [r \in DOMAIN credentials |->
                          IF r \in ActiveRows(name)
                          THEN [credentials[r] EXCEPT !.revoked = TRUE] ELSE credentials[r]]
    BY <1>3 DEF revoke
  <2>4. credentials' \in Seq(Rows) /\ Len(credentials') = Len(credentials)
    BY <1>1, <2>1, <2>2, <2>3
  <2>5. \A r \in DOMAIN credentials :
           r \in DOMAIN credentials' /\ credentials'[r].name = credentials[r].name
    BY <2>2, <2>3
  <2> QED BY <2>4, <2>5 DEF CredentialsTypeOK
<1> QED BY <1>2, <1>3

LEMMA TableBegins == RegistryInit => TableInv
<1> USE DEF RegistryInit, CredentialsInit, Idle, Request, Env
<1>1. RegistryInit => RegistryTypeOK
  <2>1. RegistryInit => BootstrapTypeOK
    BY BootstrapBegins DEF BootstrapInv
  <2>2. RegistryInit => CredentialsTypeOK
    BY DEF CredentialsTypeOK
  <2>3. RegistryInit => providers \in Seq([name : ProviderNames, credential : Names]) /\ Len(providers) = 0
    OBVIOUS
  <2> QED BY <2>1, <2>2, <2>3 DEF RegistryTypeOK
<1>2. RegistryInit => UniqueNames /\ RequestsAreNamed /\ LocksAreTheirs /\ OneDefault /\ OneCommits
  BY DEF UniqueNames, RequestsAreNamed, LocksAreTheirs, OneDefault, OneCommits
<1>3. RegistryInit => KeysMatch
  BY DEF KeysMatch
<1> QED BY <1>1, <1>2, <1>3 DEF TableInv

RequestType ==
    [step : {"idle", "credential_exists", "count", "insert", "clear", "set", "commit",
             "lookup", "siblings", "delete"},
     name : ProviderNames \union {NoName}, credential : Names \union {NoName}, first : BOOLEAN,
     rows_then : SUBSET Nat, default_then : SUBSET Nat]

\* What the invariant says of the registry alone.
Settled ==
    /\ providers \in Seq([name : ProviderNames, credential : Names])
    /\ live_rows \subseteq DOMAIN providers
    /\ is_default \subseteq live_rows
    /\ request \in [Admins -> RequestType]
    /\ held \in [Admins -> SUBSET live_rows]
    /\ chosen \in [Admins -> SUBSET live_rows]
    /\ UniqueNames /\ RequestsAreNamed /\ LocksAreTheirs /\ OneDefault /\ OneCommits

Resolved ==
    /\ resolving \in [Wakes -> {"idle", "find_active"}]
    /\ picked \in [Wakes -> 0 .. Len(providers)]
    /\ client \in [Wakes -> [base : 0 .. Len(providers), key : 0 .. Len(credentials)]]
    /\ KeysMatch

LEMMA TableParts == TableInv <=> BootstrapTypeOK /\ CredentialsTypeOK /\ Settled /\ Resolved
BY DEF TableInv, RegistryTypeOK, Settled, Resolved, RequestType

\* A request that is outside a transaction and stays there.
LEMMA MoveKeepsSettled ==
    ASSUME Settled, NEW a \in Admins, NEW q \in RequestType,
           request[a].step \notin {"set", "commit"}, q.step \notin {"set", "commit"},
           q.step # "idle" => q.name \in ProviderNames,
           q.step \in {"credential_exists", "count", "insert"} => q.credential \in Names,
           request' = [request EXCEPT ![a] = q], UNCHANGED <<table, transaction>>
    PROVE  Settled'
<1>1. UNCHANGED <<providers, live_rows, is_default, held, chosen>>
  BY DEF table, transaction
<1>2. request' \in [Admins -> RequestType]
  BY DEF Settled, RequestType
<1>3. \A b \in Admins : request'[b] = IF b = a THEN q ELSE request[b]
  BY DEF Settled
<1>4. RequestsAreNamed'
  BY <1>3 DEF Settled, RequestsAreNamed
<1>5. LocksAreTheirs'
  BY <1>1, <1>3 DEF Settled, LocksAreTheirs
<1>6. (UniqueNames /\ OneDefault /\ OneCommits)'
  BY <1>1 DEF Settled, UniqueNames, OneDefault, OneCommits
<1> QED BY <1>1, <1>2, <1>4, <1>5, <1>6 DEF Settled

LEMMA MovesKeepSettled ==
    ASSUME Settled, NEW a \in Admins,
           Ask(a) \/ credential_exists(a) \/ CountProviders(a) \/ LookUp(a) \/ CountSiblings(a)
    PROVE  Settled'
<1>1. Idle \in RequestType /\ request[a] \in RequestType
  BY DEF Idle, Request, RequestType, Settled
<1>2. CASE Ask(a)
  <2>1. ASSUME NEW step \in {"clear", "lookup", "credential_exists"}, NEW name \in ProviderNames,
               NEW c \in Names \union {NoName}, step = "credential_exists" => c \in Names,
               request' = [request EXCEPT ![a] = Request(step, name, c)]
        PROVE  Settled'
    <3> DEFINE q == Request(step, name, c)
    <3>1. q \in RequestType /\ q.step = step /\ q.name = name /\ q.credential = c
      BY DEF RequestType, Request
    <3>2. request' = [request EXCEPT ![a] = q]
      BY <2>1
    <3> HIDE DEF q
    <3> QED BY <1>2, <2>1, <3>1, <3>2, MoveKeepsSettled DEF Ask
  <2> QED BY <1>2, <2>1 DEF Ask
<1>3. ASSUME NEW to \in {"insert", "siblings", "delete"}, NEW first \in BOOLEAN,
             Look(a, to, first),
             request[a].step \in {"count", "lookup", "siblings"},
             to = "insert" => request[a].step = "count",
             UNCHANGED <<table, transaction>>
      PROVE  Settled'
  <2> DEFINE q == [request[a] EXCEPT !.step = to, !.first = first, !.rows_then = live_rows,
                                     !.default_then = is_default]
  <2>1. live_rows \in SUBSET Nat /\ is_default \in SUBSET Nat
    BY DEF Settled
  <2>2. /\ q \in RequestType /\ q.step = to /\ q.name = request[a].name
        /\ q.credential = request[a].credential
    BY <1>1, <2>1 DEF RequestType
  <2>3. request' = [request EXCEPT ![a] = q]
    BY <1>3 DEF Look
  <2>4. /\ q.name \in ProviderNames
        /\ to = "insert" => q.credential \in Names
    BY <1>3, <2>2 DEF Settled, RequestsAreNamed
  <2> HIDE DEF q
  <2> QED BY <1>3, <2>2, <2>3, <2>4, MoveKeepsSettled
<1>4. ASSUME Reply(a), request[a].step \notin {"set", "commit"}, UNCHANGED <<table, transaction>>
      PROVE  Settled'
  BY <1>1, <1>4, MoveKeepsSettled DEF Reply, Idle, Request
<1>5. CASE credential_exists(a)
  <2>1. CASE Step(a, "count")
    <3> DEFINE q == [request[a] EXCEPT !.step = "count"]
    <3>1. /\ q \in RequestType /\ q.step = "count" /\ q.name = request[a].name
          /\ q.credential = request[a].credential
      BY <1>1 DEF RequestType
    <3>2. request' = [request EXCEPT ![a] = q]
      BY <2>1 DEF Step, Settled
    <3>3. q.name \in ProviderNames /\ q.credential \in Names
      BY <1>5, <3>1 DEF Settled, RequestsAreNamed, credential_exists
    <3> HIDE DEF q
    <3> QED BY <1>5, <3>1, <3>2, <3>3, MoveKeepsSettled DEF credential_exists
  <2> QED BY <1>4, <1>5, <2>1 DEF credential_exists
<1>6. CASE CountProviders(a)
  BY <1>3, <1>6 DEF CountProviders
<1>7. CASE LookUp(a)
  BY <1>3, <1>4, <1>7 DEF LookUp
<1>8. CASE CountSiblings(a)
  BY <1>3, <1>4, <1>8 DEF CountSiblings
<1> QED BY <1>2, <1>5, <1>6, <1>7, <1>8

LEMMA InsertKeepsSettled ==
    ASSUME Settled, NEW a \in Admins, InsertProvider(a)
    PROVE  /\ Settled'
           /\ Len(providers) <= Len(providers')
           /\ \A r \in DOMAIN providers : r \in DOMAIN providers' /\ providers'[r] = providers[r]
<1> DEFINE new == [name |-> request[a].name, credential |-> request[a].credential]
           r == Len(providers) + 1
<1>1. /\ new \in [name : ProviderNames, credential : Names]
      /\ held[a] = {} /\ chosen[a] = {} /\ request[a].step = "insert"
  BY DEF InsertProvider, Settled, RequestsAreNamed, LocksAreTheirs, RequestType
<1>2. /\ request' = [request EXCEPT ![a] = Idle] /\ UNCHANGED <<held, chosen>>
  BY DEF InsertProvider, Reply, transaction
<1>3. CASE UNCHANGED table
  BY <1>1, <1>2, <1>3
     DEF table, Settled, UniqueNames, RequestsAreNamed, LocksAreTheirs, OneDefault, OneCommits, Idle, Request,
         RequestType
<1>4. CASE /\ Named(request[a].name) = {}
           /\ request[a].first => DefaultIndex(a) = {} /\ ~DefaultIsInDoubt(a)
           /\ providers' = Append(providers, new)
           /\ live_rows' = live_rows \union {r}
           /\ is_default' = IF request[a].first THEN is_default \union {r} ELSE is_default
  <2>1. /\ providers' \in Seq([name : ProviderNames, credential : Names])
        /\ Len(providers') = r /\ r \in Nat /\ r \notin DOMAIN providers /\ r \in DOMAIN providers'
        /\ providers'[r] = new
        /\ \A s \in DOMAIN providers : s \in DOMAIN providers' /\ providers'[s] = providers[s]
    BY <1>1, <1>4 DEF Settled
  <2>2. request[a].first => is_default = {} /\ \A b \in Admins : chosen[b] = {}
    BY <1>1, <1>4 DEF DefaultIndex, DefaultIsInDoubt
  <2>3. UniqueNames'
    BY <1>4, <2>1 DEF Settled, UniqueNames, Named
  <2>4. RequestsAreNamed' /\ LocksAreTheirs' /\ OneDefault'
    BY <1>1, <1>2, <1>4, <2>2 DEF Settled, RequestsAreNamed, LocksAreTheirs, OneDefault, Idle, Request
  <2>5. OneCommits'
    BY <1>2, <1>4, <2>2 DEF Settled, OneCommits
  <2> QED BY <1>1, <1>2, <1>4, <2>1, <2>3, <2>4, <2>5 DEF Settled, Idle, Request, RequestType
<1> QED BY <1>3, <1>4 DEF InsertProvider, table

LEMMA StepIsTyped ==
    ASSUME request \in [Admins -> RequestType], NEW a \in Admins,
           NEW to \in {"set", "commit"}, Step(a, to)
    PROVE  /\ request' \in [Admins -> RequestType]
           /\ \A b \in Admins :
                 /\ request'[b].step = IF b = a THEN to ELSE request[b].step
                 /\ request'[b].name = request[b].name
                 /\ request'[b].credential = request[b].credential
<1> DEFINE q == [request[a] EXCEPT !.step = to]
<1>1. request[a] \in RequestType
  OBVIOUS
<1>2. /\ q \in RequestType /\ q.step = to /\ q.name = request[a].name
      /\ q.credential = request[a].credential
  BY <1>1 DEF RequestType
<1>3. request' = [request EXCEPT ![a] = q]
  BY DEF Step
<1> HIDE DEF q
<1> QED BY <1>2, <1>3

LEMMA TransactionsKeepSettled ==
    ASSUME Settled, NEW a \in Admins,
           ClearDefault(a) \/ SetDefault(a) \/ CommitDefault(a) \/ AbandonRequest(a)
    PROVE  Settled'
<1> USE DEF Settled, table
<1>1. CASE ClearDefault(a)
  <2>1. held' \in [Admins -> SUBSET live_rows] /\ request' \in [Admins -> RequestType]
    BY <1>1, StepIsTyped DEF ClearDefault
  <2>2. RequestsAreNamed'
    BY <1>1, StepIsTyped DEF ClearDefault, RequestsAreNamed
  <2>3. LocksAreTheirs'
    BY <1>1, StepIsTyped DEF ClearDefault, LocksAreTheirs, Locked
  <2>4. OneCommits'
    BY <1>1 DEF ClearDefault, OneCommits, LocksAreTheirs
  <2> QED BY <1>1, <2>1, <2>2, <2>3, <2>4 DEF ClearDefault, UniqueNames, OneDefault
<1>2. ASSUME RollBack(a),
             is_default' = is_default \/ (chosen[a] # {} /\ is_default' = (is_default \ held[a]) \union chosen[a]),
             UNCHANGED <<providers, live_rows>>
      PROVE  Settled'
  <2>1. /\ held' \in [Admins -> SUBSET live_rows] /\ chosen' \in [Admins -> SUBSET live_rows]
        /\ request' \in [Admins -> RequestType]
    BY <1>2 DEF RollBack, Reply, RequestType, Idle, Request
  <2>2. RequestsAreNamed' /\ LocksAreTheirs'
    BY <1>2 DEF RollBack, Reply, RequestsAreNamed, LocksAreTheirs, RequestType, Idle, Request
  <2>3. is_default' \subseteq live_rows /\ OneDefault' /\ OneCommits'
    BY <1>2 DEF RollBack, Reply, OneDefault, OneCommits, LocksAreTheirs
  <2> QED BY <1>2, <2>1, <2>2, <2>3 DEF UniqueNames
<1>3. CASE SetDefault(a)
  <2>1. CASE RollBack(a) /\ UNCHANGED table
    BY <1>2, <2>1
  <2> DEFINE named == Named(request[a].name)
  <2>2. CASE /\ \A r \in named, b \in Admins \ {a} : r \notin held[b]
             /\ named # {} /\ ~DefaultIsInDoubt(a) /\ DefaultIndex(a) \subseteq named
             /\ held' = [held EXCEPT ![a] = @ \union named]
             /\ chosen' = [chosen EXCEPT ![a] = named]
             /\ Step(a, "commit")
             /\ UNCHANGED table
    <3>1. named \subseteq live_rows /\ \A r, s \in named : r = s
      BY DEF Named, UniqueNames
    <3>2. request[a].step = "set"
      BY <1>3 DEF SetDefault
    <3> HIDE DEF named
    <3>3. /\ held' \in [Admins -> SUBSET live_rows] /\ chosen' \in [Admins -> SUBSET live_rows]
          /\ request' \in [Admins -> RequestType]
      BY <2>2, <3>1, StepIsTyped
    <3>4. RequestsAreNamed'
      BY <2>2, <3>2, StepIsTyped DEF RequestsAreNamed
    <3>5. LocksAreTheirs'
      BY <2>2, <3>1, <3>2, StepIsTyped DEF LocksAreTheirs
    <3>6. OneCommits'
      BY <2>2, <3>1 DEF OneCommits, DefaultIsInDoubt, DefaultIndex
    <3> QED BY <2>2, <3>3, <3>4, <3>5, <3>6 DEF UniqueNames, OneDefault
  <2> QED BY <1>3, <2>1, <2>2 DEF SetDefault
<1>4. CASE CommitDefault(a)
  BY <1>2, <1>4 DEF CommitDefault, LocksAreTheirs
<1>5. CASE AbandonRequest(a)
  BY <1>2, <1>5 DEF AbandonRequest
<1> QED BY <1>1, <1>3, <1>4, <1>5

LEMMA DeleteKeepsSettled ==
    ASSUME Settled, NEW a \in Admins, DeleteProvider(a)
    PROVE  Settled'
<1> DEFINE found == Named(request[a].name)
<1>1. /\ \A r \in found, b \in Admins : r \notin held[b]
      /\ live_rows' = live_rows \ found /\ is_default' = is_default \ found
      /\ request[a].step = "delete" /\ request' = [request EXCEPT ![a] = Idle]
      /\ UNCHANGED <<providers, held, chosen>>
  BY DEF DeleteProvider, Locked, Reply, transaction
<1> HIDE DEF found
<1> USE <1>1 DEF Settled
<1>2. /\ live_rows' \subseteq DOMAIN providers /\ is_default' \subseteq live_rows'
      /\ request' \in [Admins -> RequestType]
  BY DEF RequestType, Idle, Request
<1>3. held' \in [Admins -> SUBSET live_rows'] /\ chosen' \in [Admins -> SUBSET live_rows']
  BY DEF LocksAreTheirs
<1>4. RequestsAreNamed' /\ LocksAreTheirs'
  BY DEF RequestsAreNamed, LocksAreTheirs, RequestType, Idle, Request
<1>5. (UniqueNames /\ OneDefault /\ OneCommits)'
  BY DEF UniqueNames, OneDefault, OneCommits
<1> QED BY <1>2, <1>3, <1>4, <1>5

-----------------------------------------------------------------------------
(* Wakes. *)

\* Tables that only grow leave what the wakes have read as it was.
LEMMA GrowthKeepsResolved ==
    ASSUME Settled, CredentialsTypeOK, Resolved, UNCHANGED resolution,
           Settled', CredentialsTypeOK',
           Len(providers) <= Len(providers'), Len(credentials) <= Len(credentials'),
           \A r \in DOMAIN providers : r \in DOMAIN providers' /\ providers'[r] = providers[r],
           \A r \in DOMAIN credentials :
              r \in DOMAIN credentials' /\ credentials'[r].name = credentials[r].name
    PROVE  Resolved'
<1>1. UNCHANGED <<resolving, picked, client>>
  BY DEF resolution
<1>2. /\ Len(providers) \in Nat /\ Len(providers') \in Nat
      /\ Len(credentials) \in Nat /\ Len(credentials') \in Nat
  BY DEF Settled, CredentialsTypeOK
<1>3. /\ picked' \in [Wakes -> 0 .. Len(providers')]
      /\ client' \in [Wakes -> [base : 0 .. Len(providers'), key : 0 .. Len(credentials')]]
  <2>1. /\ 0 .. Len(providers) \subseteq 0 .. Len(providers')
        /\ 0 .. Len(credentials) \subseteq 0 .. Len(credentials')
    BY <1>2
  <2> QED BY <1>1, <2>1 DEF Resolved
<1>4. KeysMatch'
  BY <1>1 DEF Resolved, KeysMatch, Env
<1> QED BY <1>1, <1>3, <1>4 DEF Resolved

LEMMA WakesKeepResolved ==
    ASSUME Settled, CredentialsTypeOK, Resolved, NEW w \in Wakes,
           resolve_default(w) \/ FindKey(w) \/ ResolutionFails(w)
    PROVE  Settled' /\ CredentialsTypeOK' /\ Resolved'
<1>1. UNCHANGED <<providers, live_rows, is_default, request, held, chosen, credentials>>
  BY DEF resolve_default, FindKey, ResolutionFails, setupVars, registry, table, transaction
<1>2. Settled' /\ CredentialsTypeOK'
  BY <1>1 DEF Settled, UniqueNames, RequestsAreNamed, LocksAreTheirs, OneDefault, OneCommits,
              CredentialsTypeOK
<1> SUFFICES Resolved'
  BY <1>2
<1>3. /\ DOMAIN providers = 1 .. Len(providers) /\ Len(providers) \in Nat
      /\ DOMAIN credentials = 1 .. Len(credentials) /\ Len(credentials) \in Nat
  BY DEF Settled, CredentialsTypeOK
<1>4. Env \in [base : 0 .. Len(providers), key : 0 .. Len(credentials)]
  BY <1>3 DEF Env
<1> USE <1>1, <1>3, <1>4 DEF Resolved
<1>5. CASE resolve_default(w)
  <2>1. is_default \subseteq 1 .. Len(providers)
    BY DEF Settled
  <2>2. client' = [client EXCEPT ![w] = Env]
    BY <1>5 DEF resolve_default
  <2>3. client' \in [Wakes -> [base : 0 .. Len(providers), key : 0 .. Len(credentials)]]
    BY <2>2
  <2>4. CASE UNCHANGED <<resolving, picked>>
    BY <2>2, <2>3, <2>4 DEF KeysMatch
  <2>5. ASSUME NEW r \in is_default,
               picked' = [picked EXCEPT ![w] = r],
               resolving' = [resolving EXCEPT ![w] = "find_active"]
        PROVE  Resolved'
    <3>1. r \in 1 .. Len(providers) /\ r \in 0 .. Len(providers)
      BY <2>1
    <3>2. picked' \in [Wakes -> 0 .. Len(providers)]
      BY <2>5, <3>1
    <3>3. KeysMatch'
      BY <2>2, <2>5, <3>1 DEF KeysMatch
    <3> QED BY <2>3, <2>5, <3>2, <3>3
  <2> QED BY <1>5, <2>4, <2>5 DEF resolve_default
<1>6. ASSUME NEW value \in [base : 0 .. Len(providers), key : 0 .. Len(credentials)],
             value # Env => /\ value.base \in DOMAIN providers /\ value.key \in DOMAIN credentials
                            /\ credentials[value.key].name = providers[value.base].credential,
             client' = [client EXCEPT ![w] = value],
             resolving' = [resolving EXCEPT ![w] = "idle"], picked' = [picked EXCEPT ![w] = 0]
      PROVE  Resolved'
  <2>1. /\ resolving' \in [Wakes -> {"idle", "find_active"}]
        /\ picked' \in [Wakes -> 0 .. Len(providers)]
        /\ client' \in [Wakes -> [base : 0 .. Len(providers), key : 0 .. Len(credentials)]]
    BY <1>6
  <2>2. KeysMatch'
    BY <1>6 DEF KeysMatch, Env
  <2> QED BY <2>1, <2>2
<1>7. CASE FindKey(w)
  <2>1. CASE client' = [client EXCEPT ![w] = Env]
    BY <1>6, <1>7, <2>1 DEF FindKey
  <2>2. ASSUME NEW key \in CredentialOf(w),
               client' = [client EXCEPT ![w] = [base |-> picked[w], key |-> key]]
        PROVE  Resolved'
    <3>1. picked[w] \in 1 .. Len(providers)
      BY <1>7 DEF FindKey, KeysMatch
    <3>2. key \in DOMAIN credentials /\ credentials[key].name = providers[picked[w]].credential
      BY DEF CredentialOf, find_active, ActiveRows
    <3> DEFINE value == [base |-> picked[w], key |-> key]
    <3>3. /\ value \in [base : 0 .. Len(providers), key : 0 .. Len(credentials)]
          /\ value.base = picked[w] /\ value.key = key
      BY <3>1, <3>2
    <3> HIDE DEF value
    <3> QED BY <1>6, <1>7, <2>2, <3>1, <3>2, <3>3 DEF FindKey, value
  <2> QED BY <1>7, <2>1, <2>2 DEF FindKey
<1>8. CASE ResolutionFails(w)
  BY <1>6, <1>8 DEF ResolutionFails
<1> QED BY <1>2, <1>5, <1>7, <1>8

-----------------------------------------------------------------------------
(* Every step. *)

RegistryInv == BootstrapInv /\ TableInv

LEMMA StepKeepsInv == RegistryInv /\ [RegistryNext]_registryVars => RegistryInv'
<1> SUFFICES ASSUME RegistryInv, [RegistryNext]_registryVars
             PROVE  RegistryInv'
  OBVIOUS
<1>1. /\ BootstrapInv /\ BootstrapTypeOK /\ CredentialsTypeOK /\ Settled /\ Resolved
  BY TableParts DEF RegistryInv, BootstrapInv
<1>2. ASSUME BootstrapInv', CredentialsTypeOK', Settled', Resolved'
      PROVE  RegistryInv'
  <2>1. BootstrapTypeOK' /\ CredentialsTypeOK' /\ Settled' /\ Resolved' => TableInv'
    BY TableParts, PTL
  <2> QED BY <1>2, <2>1 DEF RegistryInv, BootstrapInv
<1>3. UNCHANGED bootstrapVars => BootstrapInv'
  BY <1>1, BootstrapKeeps
<1>4. UNCHANGED credentials => CredentialsTypeOK'
  BY <1>1 DEF CredentialsTypeOK
<1>5. UNCHANGED registry => Settled'
  BY <1>1 DEF registry, table, transaction, Settled, UniqueNames, RequestsAreNamed,
              LocksAreTheirs, OneDefault, OneCommits
<1>6. UNCHANGED <<providers, credentials, resolution>> => Resolved'
  BY <1>1 DEF resolution, Resolved, KeysMatch
<1>7. CASE BootstrapNext /\ UNCHANGED <<credentials, registry, resolution>>
  <2>1. BootstrapInv'
    BY <1>1, <1>7, BootstrapKeeps
  <2>2. UNCHANGED providers
    BY <1>7 DEF registry, table
  <2> QED BY <1>2, <1>4, <1>5, <1>6, <1>7, <2>1, <2>2
<1>8. CASE ChangeCredential
  <2>1. UNCHANGED <<bootstrapVars, registry, resolution, providers>>
    BY <1>8 DEF ChangeCredential, registry, table
  <2>2. /\ CredentialsTypeOK' /\ Len(credentials) <= Len(credentials')
        /\ \A r \in DOMAIN credentials :
              r \in DOMAIN credentials' /\ credentials'[r].name = credentials[r].name
    BY <1>1, <1>8, CredentialsGrow DEF ChangeCredential
  <2>3. Len(providers) \in Nat
    BY <1>1 DEF Settled
  <2>4. Resolved'
    BY <1>1, <1>5, <2>1, <2>2, <2>3, GrowthKeepsResolved
  <2> QED BY <1>2, <1>3, <1>5, <2>1, <2>2, <2>4
<1>9. ASSUME NEW a \in Admins, Ask(a) \/ Handle(a) \/ AbandonRequest(a)
      PROVE  RegistryInv'
  <2>1. UNCHANGED <<bootstrapVars, credentials, resolution>>
    BY <1>9 DEF Ask, Handle, AbandonRequest, credential_exists, CountProviders, InsertProvider,
                ClearDefault, SetDefault, CommitDefault, LookUp, CountSiblings, DeleteProvider,
                setupVars
  <2>2. CASE InsertProvider(a)
    <3>1. /\ Settled' /\ Len(providers) <= Len(providers')
          /\ \A r \in DOMAIN providers : r \in DOMAIN providers' /\ providers'[r] = providers[r]
      BY <1>1, <2>2, InsertKeepsSettled
    <3>2. Len(credentials) \in Nat
      BY <1>1 DEF CredentialsTypeOK
    <3>3. Resolved'
      BY <1>1, <1>4, <2>1, <3>1, <3>2, GrowthKeepsResolved
    <3> QED BY <1>2, <1>3, <1>4, <2>1, <3>1, <3>3
  <2>3. CASE ~InsertProvider(a)
    <3>1. UNCHANGED providers
      BY <1>9, <2>3 DEF Ask, Handle, AbandonRequest, credential_exists, CountProviders,
                ClearDefault, SetDefault, CommitDefault, LookUp, CountSiblings, DeleteProvider, table
    <3>2. Settled'
      BY <1>1, <1>9, <2>3, MovesKeepSettled, TransactionsKeepSettled, DeleteKeepsSettled DEF Handle
    <3> QED BY <1>2, <1>3, <1>4, <1>6, <2>1, <3>1, <3>2
  <2> QED BY <2>2, <2>3
<1>10. ASSUME NEW w \in Wakes, resolve_default(w) \/ FindKey(w) \/ ResolutionFails(w)
       PROVE  RegistryInv'
  <2>1. UNCHANGED bootstrapVars
    BY <1>10 DEF resolve_default, FindKey, ResolutionFails, setupVars
  <2> QED BY <1>1, <1>2, <1>3, <1>10, <2>1, WakesKeepResolved
<1>11. CASE UNCHANGED registryVars
  <2>1. UNCHANGED <<bootstrapVars, credentials, registry, resolution, providers>>
    BY <1>11 DEF registryVars, setupVars, registry, table
  <2> QED BY <1>2, <1>3, <1>4, <1>5, <1>6, <2>1
<1> QED BY <1>7, <1>8, <1>9, <1>10, <1>11 DEF RegistryNext

LEMMA RegistryInvariant == RegistrySpec => []RegistryInv
<1>1. RegistryInit => RegistryInv
  BY BootstrapBegins, TableBegins DEF RegistryInit, RegistryInv
<1> QED BY <1>1, StepKeepsInv, PTL DEF RegistrySpec

\* The tables, requests and transactions of an installation keep their types: rows of
\* bootstrap, providers, credentials (Bootstrap, Providers), under every interleaving.
THEOREM RegistryTypeCorrect == RegistrySpec => []RegistryTypeOK
<1>1. RegistryInv => RegistryTypeOK
  BY DEF RegistryInv, TableInv
<1> QED BY RegistryInvariant, <1>1, PTL

\* bootstrap answers 201 at most once, fills its tables in order and with one row each,
\* for any number of concurrent, failing and abandoned requests (bootstrap.rs).
THEOREM OneBootstrap == RegistrySpec => []BootstrapsOnce
<1>1. RegistryInv => BootstrapsOnce
  BY DEF RegistryInv, BootstrapInv
<1> QED BY RegistryInvariant, <1>1, PTL

\* The client that resolve_workspace_llm builds sends a key only to a provider that was
\* added for that key's credential, whatever changes between its two reads.
THEOREM KeysGoToTheirProviders == RegistrySpec => []KeyGoesToItsProvider
<1>1. RegistryInv => KeyGoesToItsProvider
  BY DEF RegistryInv, TableInv, KeysMatch, KeyGoesToItsProvider
<1> QED BY RegistryInvariant, <1>1, PTL

-----------------------------------------------------------------------------
(* The default. *)

\* The row a request names, of those at its last look.
NamedThen(a) == {r \in request[a].rows_then : providers[r].name = request[a].name}

\* What a request's last look allows it: an insert as a sibling saw a row, and a delete saw
\* its row not to be the default, or no other.
LooksAreObeyed ==
    \A a \in Admins :
        /\ request[a].rows_then \subseteq DOMAIN providers
        /\ request[a].step = "insert" /\ ~request[a].first => request[a].rows_then # {}
        /\ request[a].step = "delete" =>
              \/ NamedThen(a) \intersect request[a].default_then = {}
              \/ request[a].rows_then \subseteq NamedThen(a)

LEMMA LooksBegin == RegistryInit => LooksAreObeyed
BY DEF RegistryInit, LooksAreObeyed, Idle, Request

\* A request whose look is in order, over rows that are only added to.
LEMMA OneLookKept ==
    ASSUME Settled, LooksAreObeyed, NEW a \in Admins, NEW q,
           request' = [request EXCEPT ![a] = q],
           \A r \in DOMAIN providers : r \in DOMAIN providers' /\ providers'[r] = providers[r],
           q.rows_then \subseteq DOMAIN providers,
           q.step = "insert" /\ ~q.first => q.rows_then # {},
           q.step = "delete" =>
              \/ {r \in q.rows_then : providers[r].name = q.name} \intersect q.default_then = {}
              \/ q.rows_then \subseteq {r \in q.rows_then : providers[r].name = q.name}
    PROVE  LooksAreObeyed'
<1>1. \A b \in Admins : request'[b] = IF b = a THEN q ELSE request[b]
  BY DEF Settled
<1> SUFFICES ASSUME NEW b \in Admins
             PROVE  /\ request'[b].rows_then \subseteq DOMAIN providers'
                    /\ request'[b].step = "insert" /\ ~request'[b].first => request'[b].rows_then # {}
                    /\ request'[b].step = "delete" =>
                          \/ NamedThen(b)' \intersect request'[b].default_then = {}
                          \/ request'[b].rows_then \subseteq NamedThen(b)'
  BY DEF LooksAreObeyed
<1>2. CASE b = a
  BY <1>1, <1>2 DEF NamedThen
<1>3. CASE b # a
  <2>1. request'[b] = request[b] /\ request[b].rows_then \subseteq DOMAIN providers
    BY <1>1, <1>3 DEF LooksAreObeyed
  <2>2. NamedThen(b)' = NamedThen(b)
    BY <2>1 DEF NamedThen
  <2> QED BY <2>1, <2>2 DEF LooksAreObeyed
<1> QED BY <1>2, <1>3

LEMMA RequestsLook ==
    ASSUME Settled, Settled', LooksAreObeyed, NEW a \in Admins,
           Ask(a) \/ Handle(a) \/ AbandonRequest(a),
           \A r \in DOMAIN providers : r \in DOMAIN providers' /\ providers'[r] = providers[r]
    PROVE  LooksAreObeyed'
<1>1. request[a].rows_then \subseteq DOMAIN providers
  BY DEF LooksAreObeyed
<1>2. ASSUME NEW step, step \notin {"insert", "delete"}, Step(a, step)
      PROVE  LooksAreObeyed'
  <2> DEFINE q == [request[a] EXCEPT !.step = step]
  <2>1. request' = [request EXCEPT ![a] = q]
    BY <1>2 DEF Step, Settled
  <2>2. q.step = step /\ q.rows_then = request[a].rows_then
    BY DEF Settled, RequestType
  <2> HIDE DEF q
  <2> QED BY <1>1, <1>2, <2>1, <2>2, OneLookKept
<1>3. ASSUME NEW step, NEW name, NEW c, step \notin {"insert", "delete"},
             request' = [request EXCEPT ![a] = Request(step, name, c)]
      PROVE  LooksAreObeyed'
  <2> DEFINE q == Request(step, name, c)
  <2>1. q.step = step /\ q.rows_then = {}
    BY DEF Request
  <2> HIDE DEF q
  <2> QED BY <1>3, <2>1, OneLookKept DEF q
<1>4. ASSUME Reply(a)
      PROVE  LooksAreObeyed'
  <2>1. request' = [request EXCEPT ![a] = Request("idle", NoName, NoName)]
    BY <1>4 DEF Reply, Idle
  <2>2. "idle" \notin {"insert", "delete"}
    OBVIOUS
  <2> QED BY <1>3, <2>1, <2>2, Zenon
<1>5. ASSUME NEW step, NEW first, Look(a, step, first),
             step = "insert" /\ ~first => live_rows # {},
             step = "delete" => \/ Named(request[a].name) \intersect is_default = {}
                                \/ live_rows \subseteq Named(request[a].name)
      PROVE  LooksAreObeyed'
  <2> DEFINE q == [request[a] EXCEPT !.step = step, !.first = first, !.rows_then = live_rows,
                                     !.default_then = is_default]
  <2>1. request' = [request EXCEPT ![a] = q]
    BY <1>5 DEF Look
  <2>2. /\ q.step = step /\ q.first = first /\ q.rows_then = live_rows
        /\ q.default_then = is_default /\ q.name = request[a].name
    BY DEF Settled, RequestType
  <2>3. Named(request[a].name) = {r \in live_rows : providers[r].name = request[a].name}
    BY DEF Named
  <2>4. live_rows \subseteq DOMAIN providers
    BY DEF Settled
  <2> HIDE DEF q
  <2> QED BY <1>5, <2>1, <2>2, <2>3, <2>4, OneLookKept
<1>6. CASE Ask(a)
  BY <1>3, <1>6 DEF Ask
<1>7. CASE credential_exists(a)
  BY <1>2, <1>4, <1>7 DEF credential_exists
<1>8. CASE CountProviders(a)
  BY <1>5, <1>8 DEF CountProviders
<1>9. CASE LookUp(a)
  <2>1. CASE Look(a, "siblings", FALSE)
    BY <1>5, <2>1
  <2>2. CASE ~(Named(request[a].name) \subseteq is_default) /\ Look(a, "delete", FALSE)
    <3>1. Named(request[a].name) \intersect is_default = {}
      BY <2>2 DEF Settled, UniqueNames, Named
    <3> QED BY <1>5, <2>2, <3>1
  <2> QED BY <1>4, <1>9, <2>1, <2>2 DEF LookUp
<1>10. CASE CountSiblings(a)
  <2>1. CASE live_rows \subseteq Named(request[a].name) /\ Look(a, "delete", FALSE)
    BY <1>5, <2>1
  <2> QED BY <1>4, <1>10, <2>1 DEF CountSiblings
<1>11. CASE ClearDefault(a) \/ SetDefault(a)
  BY <1>2, <1>4, <1>11 DEF ClearDefault, SetDefault, RollBack
<1>12. CASE InsertProvider(a) \/ CommitDefault(a) \/ DeleteProvider(a) \/ AbandonRequest(a)
  BY <1>4, <1>12 DEF InsertProvider, CommitDefault, DeleteProvider, AbandonRequest, RollBack
<1> QED BY <1>6, <1>7, <1>8, <1>9, <1>10, <1>11, <1>12 DEF Handle

LEMMA StepKeepsLooks ==
    RegistryInv /\ LooksAreObeyed /\ [RegistryNext]_registryVars => LooksAreObeyed'
<1> SUFFICES ASSUME RegistryInv, LooksAreObeyed, [RegistryNext]_registryVars
             PROVE  LooksAreObeyed'
  OBVIOUS
<1>1. RegistryInv'
  BY StepKeepsInv
<1>2. Settled /\ Settled'
  <2>1. TableInv' => Settled'
    BY TableParts, PTL
  <2> QED BY <1>1, <2>1, TableParts DEF RegistryInv
<1>3. ASSUME UNCHANGED registry
      PROVE  LooksAreObeyed'
  <2>1. request' = request /\ providers' = providers
    BY <1>3 DEF registry, table
  <2>2. \A a \in Admins : NamedThen(a)' = NamedThen(a)
    BY <2>1 DEF NamedThen
  <2> QED BY <2>1, <2>2 DEF LooksAreObeyed
<1>4. ASSUME NEW a \in Admins, Ask(a) \/ Handle(a) \/ AbandonRequest(a)
      PROVE  LooksAreObeyed'
  <2>1. CASE InsertProvider(a)
    BY <1>2, <1>4, <2>1, InsertKeepsSettled, RequestsLook
  <2>2. CASE ~InsertProvider(a)
    <3>1. UNCHANGED providers
      BY <1>4, <2>2 DEF Ask, Handle, AbandonRequest, credential_exists, CountProviders,
                ClearDefault, SetDefault, CommitDefault, LookUp, CountSiblings, DeleteProvider, table
    <3> QED BY <1>2, <1>4, <3>1, RequestsLook
  <2> QED BY <2>1, <2>2
<1>5. ChangeCredential => UNCHANGED registry
  BY DEF ChangeCredential
<1>6. ASSUME NEW w \in Wakes, resolve_default(w) \/ FindKey(w) \/ ResolutionFails(w)
      PROVE  UNCHANGED registry
  BY <1>6 DEF resolve_default, FindKey, ResolutionFails
<1>7. UNCHANGED registryVars => UNCHANGED registry
  BY DEF registryVars
<1> QED BY <1>3, <1>4, <1>5, <1>6, <1>7 DEF RegistryNext

\* What DefaultIsHandedOn says of a step.
HandsOn ==
    /\ \A r, s \in is_default' : r = s
    /\ live_rows' # {} /\ is_default' = {} /\ ~(live_rows # {} /\ is_default = {}) =>
          \E a \in Admins : /\ request[a].step \in {"insert", "delete"}
                            /\ request'[a] = Idle
                            /\ OutOfDate(a)

\* A step leaves a default where there was one, unless it acts on a look that is out of
\* date (llm_provider.rs).
LEMMA StepHandsOn ==
    ASSUME RegistryInv, RegistryInv', LooksAreObeyed, RegistryNext
    PROVE  HandsOn
<1>1. Settled /\ \A r, s \in is_default' : r = s
  BY TableParts DEF RegistryInv, TableInv, OneDefault
<1> SUFFICES ASSUME live_rows' # {}, is_default' = {}, ~(live_rows # {} /\ is_default = {})
             PROVE  \E a \in Admins : /\ request[a].step \in {"insert", "delete"}
                                      /\ request'[a] = Idle
                                      /\ OutOfDate(a)
  BY <1>1 DEF HandsOn
<1>2. ~UNCHANGED <<live_rows, is_default>>
  OBVIOUS
<1>3. ASSUME NEW a \in Admins, CommitDefault(a)
      PROVE  FALSE
  BY <1>1, <1>3 DEF CommitDefault, Settled, LocksAreTheirs
<1>4. ASSUME NEW a \in Admins, Reply(a)
      PROVE  request'[a] = Idle
  BY <1>1, <1>4 DEF Reply, Settled
<1>5. ASSUME NEW a \in Admins, InsertProvider(a)
      PROVE  request[a].step = "insert" /\ request'[a] = Idle /\ OutOfDate(a)
  <2>1. request[a].step = "insert" /\ Reply(a)
    BY <1>5 DEF InsertProvider
  <2>2. ~request[a].first /\ is_default' = is_default
    BY <1>2, <1>5 DEF InsertProvider, table
  <2>3. request[a].rows_then # {} /\ live_rows = {}
    BY <2>1, <2>2 DEF LooksAreObeyed
  <2> QED BY <1>4, <2>1, <2>3 DEF OutOfDate
<1>6. ASSUME NEW a \in Admins, DeleteProvider(a)
      PROVE  request[a].step = "delete" /\ request'[a] = Idle /\ OutOfDate(a)
  <2>1. /\ request[a].step = "delete" /\ Reply(a)
        /\ live_rows' = live_rows \ Named(request[a].name)
        /\ is_default' = is_default \ Named(request[a].name)
    BY <1>6 DEF DeleteProvider
  <2>2. ASSUME request[a].rows_then = live_rows, request[a].default_then = is_default
        PROVE  FALSE
    <3>1. NamedThen(a) = Named(request[a].name)
      BY <2>2 DEF NamedThen, Named
    <3>2. CASE Named(request[a].name) \intersect is_default = {}
      BY <2>1, <3>2
    <3>3. CASE live_rows \subseteq Named(request[a].name)
      BY <2>1, <3>3
    <3> QED BY <2>1, <2>2, <3>1, <3>2, <3>3 DEF LooksAreObeyed
  <2> QED BY <1>4, <2>1, <2>2 DEF OutOfDate
<1>7. ASSUME NEW a \in Admins, Ask(a) \/ Handle(a) \/ AbandonRequest(a),
             ~CommitDefault(a), ~DeleteProvider(a), ~InsertProvider(a)
      PROVE  FALSE
  BY <1>2, <1>7 DEF Ask, Handle, AbandonRequest, credential_exists, CountProviders,
              ClearDefault, SetDefault, LookUp, CountSiblings, table
<1>8. BootstrapNext /\ UNCHANGED registry => FALSE
  BY <1>2 DEF registry, table
<1>9. ChangeCredential => FALSE
  BY <1>2 DEF ChangeCredential, registry, table
<1>10. ASSUME NEW w \in Wakes, resolve_default(w) \/ FindKey(w) \/ ResolutionFails(w)
       PROVE  FALSE
  BY <1>2, <1>10 DEF resolve_default, FindKey, ResolutionFails, registry, table
<1> QED BY <1>3, <1>5, <1>6, <1>7, <1>8, <1>9, <1>10 DEF RegistryNext

\* There is one default provider at most, and providers come to be without one only by a
\* create or delete whose look at the table is out of date, for any number of
\* administrators whose requests run beside each other.
THEOREM DefaultsAreHandedOn == RegistrySpec => DefaultIsHandedOn
<1>1. RegistrySpec => []LooksAreObeyed
  <2>1. RegistryInit => LooksAreObeyed
    BY LooksBegin
  <2> QED BY <2>1, StepKeepsLooks, RegistryInvariant, PTL DEF RegistrySpec
<1>2. RegistryInv /\ RegistryInv' /\ LooksAreObeyed /\ [RegistryNext]_registryVars =>
        [HandsOn]_registryVars
  BY StepHandsOn
<1>3. RegistrySpec => [][HandsOn]_registryVars
  BY <1>1, <1>2, RegistryInvariant, PTL DEF RegistrySpec
<1> QED BY <1>3 DEF DefaultIsHandedOn, HandsOn
=============================================================================
