----------------------------- MODULE EventChain -----------------------------
(***************************************************************************)
(* The event log of one agent and its hash chain: INSERTs whose trigger    *)
(* stamps and links the row under a per-agent advisory lock, the walk that *)
(* verifies the chain, the gate that walks it before the server starts,    *)
(* and a client that follows the log page by page.                         *)
(*                                                                         *)
(* The chain of an agent reads and locks nothing of another agent's.       *)
(***************************************************************************)
EXTENDS Naturals, FiniteSets

CONSTANTS
    Writers,        \* connections that insert or verify
    Ids,            \* uuids, which gen_random_uuid() returns in any order
    Legacy,         \* the logs that the migration may have found and backfilled
    Digest(_, _),   \* SHA-256 over the previous hash and the payload
    Genesis,        \* the empty prev_hash of an agent's first event
    Readings,       \* what NOW() may return, each time any of them
    PageLimit,      \* EVENT_PAGE_LIMIT
    Overrides,      \* how the operator may set the gate's two variables
    Nobody          \* no connection, no row

VARIABLES
    rows,           \* the committed events of the agent
    lock,           \* the holder of the advisory lock, or Nobody
    pc,             \* where each connection stands
    body,           \* the event it is about to insert
    begun,          \* NOW() of its transaction
    row,            \* the row its trigger has filled in
    server,         \* "down", "gate" (the startup gate is running) or "up"
    override,       \* the two variables that relax the gate, read at the start
    gate,           \* the verdict of this start's walk, or "none"
    damaged,        \* history: a row was altered when this start began
    cursor,         \* the event a following client asks after, or Nobody
    shown           \* ids of the events it has printed

conns  == <<pc, body, begun, row>>
start  == <<server, override, gate, damaged>>
client == <<cursor, shown>>
vars   == <<rows, lock, conns, start, client>>

Verdicts == {"audit_chain_verified", "audit_chain_broken"}
Bodies   == Verdicts \cup {"event", "audit_chain_floor_relaxed", "altered"}

-----------------------------------------------------------------------------
(* The order of the log and the links of the chain.                        *)

\* ORDER BY created_at, id.
Before(q, r) == q.at < r.at \/ (q.at = r.at /\ q.id < r.id)

First(log, r) == \A q \in log : ~Before(q, r)

Predecessor(log, p, r) ==
    /\ Before(p, r)
    /\ \A q \in log : ~(Before(p, q) /\ Before(q, r))

\* The row that ORDER BY created_at DESC, id DESC LIMIT 1 returns.
Newest(log, p) == \A q \in log : q = p \/ Before(q, p)

\* canonical_payload; the id is not part of it.
Payload(r) == <<r.body, r.at>>

Linked(log, r) ==
    /\ First(log, r) => r.prev = Genesis
    /\ \A p \in log : Predecessor(log, p, r) => r.prev = p.hash

\* Mutant: the walk trusts the stored hash.
IntactByLink(log, r) == Linked(log, r)

\* One round of the walk: the link to the row before, then the recomputed hash.
Intact(log, r) == Linked(log, r) /\ r.hash = Digest(r.prev, Payload(r))

\* verify_audit_chain: the walk goes on while rows are intact.
Verified(log) == \A r \in log : Intact(log, r)

\* The migration leaves logs with unique ids that verify.
ASSUME LegacyAssumption ==
    \A log \in Legacy :
        /\ \A r \in log : r.id \in Ids /\ r.at \in Nat /\ r.body = "event"
        /\ \A q, r \in log : q.id = r.id => q = r
        /\ Verified(log)

ASSUME ChainAssumption ==
    /\ Ids \subseteq Nat
    /\ Readings \subseteq Nat
    /\ PageLimit \in Nat \ {0}
    /\ Overrides \subseteq [relaxed : BOOLEAN, allow_unsafe : BOOLEAN]
    /\ Nobody \notin Writers \cup Ids

RowOK(r) == r.id \in Ids /\ r.at \in Nat /\ r.body \in Bodies

TypeOK ==
    /\ \A r \in rows : RowOK(r)
    /\ lock \in Writers \cup {Nobody}
    /\ pc \in [Writers -> {"idle", "begin", "lock", "commit"}]
    /\ body \in [Writers -> Bodies \ {"altered"}]
    /\ begun \in [Writers -> Nat]
    /\ row = [w \in Writers |-> row[w]]
    /\ \A w \in Writers : pc[w] = "commit" => RowOK(row[w])
    /\ server \in {"down", "gate", "up"}
    /\ override \in [relaxed : BOOLEAN, allow_unsafe : BOOLEAN]
    /\ gate \in Verdicts \cup {"none", "audit_chain_floor_relaxed"}
    /\ damaged \in BOOLEAN
    /\ cursor \in Ids \cup {Nobody}
    /\ shown \subseteq Ids

NoOverride == [relaxed |-> FALSE, allow_unsafe |-> FALSE]

Init ==
    /\ rows \in Legacy
    /\ lock = Nobody
    /\ pc = [w \in Writers |-> "idle"]
    /\ body = [w \in Writers |-> "event"]
    /\ begun = [w \in Writers |-> 0]
    /\ row = [w \in Writers |-> Nobody]
    /\ server = "down"
    /\ override = NoOverride
    /\ gate = "none"
    /\ damaged = FALSE
    /\ cursor = Nobody
    /\ shown = {}

-----------------------------------------------------------------------------
(* An INSERT: the transaction begins, the trigger waits for the lock, reads *)
(* the newest row, stamps and links the new one; the commit frees the lock. *)

Stand(w, at) == pc' = [pc EXCEPT ![w] = at]

Idle(w) == pc[w] = "idle"

\* append_event by a request or a task, and the event of rotate_webhook_secret;
\* NOW() is the time of BEGIN, on a clock that may be set back.
BeginInsert(w) ==
    /\ \/ pc[w] = "begin" /\ UNCHANGED body
       \/ Idle(w) /\ server = "up" /\ body' = [body EXCEPT ![w] = "event"]
    /\ \E now \in Readings : begun' = [begun EXCEPT ![w] = now]
    /\ Stand(w, "lock")
    /\ UNCHANGED <<rows, lock, row, start, client>>

\* Mutant: created_at keeps what NOW() returned, and only an exact tie is moved.
StampTieOnly(w, p) == IF begun[w] = p.at THEN p.at + 1 ELSE begun[w]

\* IF NEW.created_at <= prior_created THEN prior_created + 1 microsecond.
StampAfter(w, p) == IF begun[w] <= p.at THEN p.at + 1 ELSE begun[w]

\* Mutant: the column default of the id is gone.
EntryWithoutId(w, id, at, prev) ==
    [id |-> Nobody, at |-> at, body |-> body[w], prev |-> prev,
     hash |-> Digest(prev, <<body[w], at>>)]

Entry(w, id, at, prev) ==
    [id |-> id, at |-> at, body |-> body[w], prev |-> prev,
     hash |-> Digest(prev, <<body[w], at>>)]

\* Mutant: without pg_advisory_xact_lock.
LockNothing(w) == UNCHANGED lock

\* pg_advisory_xact_lock, held to the end of the transaction.
TakeLock(w) == lock = Nobody /\ lock' = w

FreshIds ==
    Ids \ ({r.id : r \in rows} \cup {row[u].id : u \in {v \in Writers : pc[v] = "commit"}})

\* The trigger, from the lock to the row it returns.
ComputeHash(w) ==
    /\ pc[w] = "lock"
    /\ TakeLock(w)
    /\ \E id \in FreshIds :
           \/ /\ rows = {}
              /\ row' = [row EXCEPT ![w] = Entry(w, id, begun[w], Genesis)]
           \/ \E p \in rows :
                 /\ Newest(rows, p)
                 /\ row' = [row EXCEPT ![w] = Entry(w, id, StampAfter(w, p), p.hash)]
    /\ Stand(w, "commit")
    /\ UNCHANGED <<rows, body, begun, start, client>>

\* The connection is back in the pool, its transaction and its locks are gone.
Leave(w) ==
    /\ Stand(w, "idle")
    /\ lock' = IF lock = w THEN Nobody ELSE lock
    /\ row' = [row EXCEPT ![w] = Nobody]
    /\ body' = [body EXCEPT ![w] = "event"]
    /\ begun' = [begun EXCEPT ![w] = 0]

Commit(w) ==
    /\ pc[w] = "commit"
    /\ rows' = rows \cup {row[w]}
    /\ Leave(w)
    /\ UNCHANGED <<start, client>>

\* The process ends, and with it what it has read and found out.
Exit ==
    /\ server' = "down"
    /\ override' = NoOverride
    /\ gate' = "none"
    /\ damaged' = FALSE

\* A statement that fails.  The gate takes a failing verdict for a broken chain,
\* but only warns when the event of the override fails.
Fail(w) ==
    /\ pc[w] # "idle"
    /\ Leave(w)
    /\ \/ server = "gate" /\ gate \in Verdicts /\ Exit
       \/ ~(server = "gate" /\ gate \in Verdicts) /\ UNCHANGED start
    /\ UNCHANGED <<rows, client>>

-----------------------------------------------------------------------------
(* verify_and_emit and the startup gate.                                   *)

Verdict == IF Verified(rows) THEN "audit_chain_verified" ELSE "audit_chain_broken"

\* One SELECT reads the log; the verdict is an event like any other.
VerifyAuditChain(w) ==
    /\ Idle(w)
    /\ \/ server = "up" /\ UNCHANGED gate
       \/ server = "gate" /\ gate = "none" /\ gate' = Verdict
    /\ body' = [body EXCEPT ![w] = Verdict]
    /\ Stand(w, "begin")
    /\ UNCHANGED <<rows, lock, begun, row, server, override, damaged, client>>

\* main up to enforce_audit_chain_floor_at_startup.
Boot ==
    /\ server = "down"
    /\ server' = "gate"
    /\ override' \in Overrides
    /\ gate' = "none"
    /\ damaged' = \E r \in rows : r.body = "altered"
    /\ UNCHANGED <<rows, lock, conns, client>>

Overridden == override.relaxed /\ override.allow_unsafe

\* evaluate_startup_gate, once the verdict is in the log.
GateOpens ==
    /\ server = "gate"
    /\ \A w \in Writers : Idle(w)
    /\ gate \in {"audit_chain_verified", "audit_chain_floor_relaxed"}
    /\ server' = "up"
    /\ UNCHANGED <<rows, lock, conns, override, gate, damaged, client>>

GateAcknowledges(w) ==
    /\ server = "gate"
    /\ \A u \in Writers : Idle(u)
    /\ gate = "audit_chain_broken"
    /\ Overridden
    /\ gate' = "audit_chain_floor_relaxed"
    /\ body' = [body EXCEPT ![w] = "audit_chain_floor_relaxed"]
    /\ Stand(w, "begin")
    /\ UNCHANGED <<rows, lock, begun, row, server, override, damaged, client>>

\* Exit code 5; also when the walk itself raises an error.
GateRefuses ==
    /\ server = "gate"
    /\ \A w \in Writers : Idle(w)
    /\ gate = "none" \/ (gate = "audit_chain_broken" /\ ~Overridden)
    /\ Exit
    /\ UNCHANGED <<rows, lock, conns, client>>

-----------------------------------------------------------------------------
(* `pcy events`, which follows the log by the id of the last event seen.   *)

\* LIMIT rows of the log, or all of them.
Page(log, page) ==
    /\ page \subseteq log
    /\ Cardinality(page) =
           IF Cardinality(log) < PageLimit THEN Cardinality(log) ELSE PageLimit

\* The LIMIT of the two queries, with their orders of created_at alone.
NewestRows(log, page) == Page(log, page) /\ \A s \in page : \A r \in log \ page : r.at <= s.at
OldestRows(log, page) == Page(log, page) /\ \A s \in page : \A r \in log \ page : s.at <= r.at

\* The cursor moves to the page's last event in the order of created_at.
Show(page) ==
    /\ \E c \in page : (\A s \in page : s.at <= c.at) /\ cursor' = c.id
    /\ shown' = shown \cup {s.id : s \in page}
    /\ UNCHANGED <<rows, lock, conns, start>>

\* Without a cursor, recent_events.
TailRecent ==
    /\ server = "up"
    /\ cursor = Nobody
    /\ \E page \in SUBSET rows : NewestRows(rows, page) /\ Show(page)

\* --since: the user has seen the event he names.  The first request fails when
\* the server is down.
TailFrom(r) ==
    /\ server = "up"
    /\ cursor = Nobody
    /\ cursor' = r.id
    /\ shown' = {r.id}
    /\ UNCHANGED <<rows, lock, conns, start>>

\* events_since_id.
TailNext ==
    /\ server = "up"
    /\ \E c \in rows :
           /\ c.id = cursor
           /\ LET log == {r \in rows : r.at > c.at}
              IN  \E page \in SUBSET log : OldestRows(log, page) /\ Show(page)

TailStops ==
    /\ cursor # Nobody
    /\ cursor' = Nobody
    /\ shown' = {}
    /\ UNCHANGED <<rows, lock, conns, start>>

-----------------------------------------------------------------------------
(* An UPDATE that bypasses the trigger, and a crash.                       *)

\* The hash columns, the id and the time stamp stay as they were.
Altered(r) ==
    [id |-> r.id, at |-> r.at, body |-> "altered", prev |-> r.prev, hash |-> r.hash]

\* UPDATE events SET content = ...
Alter(r) ==
    /\ r.body # "altered"
    /\ rows' = (rows \ {r}) \cup {Altered(r)}
    /\ UNCHANGED <<lock, conns, start, client>>

Crash ==
    /\ Exit
    /\ lock' = Nobody
    /\ pc' = [w \in Writers |-> "idle"]
    /\ body' = [w \in Writers |-> "event"]
    /\ begun' = [w \in Writers |-> 0]
    /\ row' = [w \in Writers |-> Nobody]
    /\ UNCHANGED <<rows, client>>

Next ==
    \/ \E w \in Writers :
           \/ BeginInsert(w) \/ ComputeHash(w) \/ Commit(w) \/ Fail(w)
           \/ VerifyAuditChain(w) \/ GateAcknowledges(w)
    \/ Boot \/ GateOpens \/ GateRefuses
    \/ TailRecent \/ TailNext \/ TailStops
    \/ \E r \in rows : TailFrom(r) \/ Alter(r)
    \/ Crash

Spec == Init /\ [][Next]_vars

-----------------------------------------------------------------------------

\* AC-78: however inserts interleave, whatever the clock does, and also after
\* ties from before the migration, the walk finds a row at fault exactly when the
\* row was altered; so an untouched log verifies, and the first divergent event
\* of an altered one is the first altered row.
FaultsAreAlterations ==
    \A r \in rows : Intact(rows, r) <=> r.body # "altered"

\* created_at is the order of the commits: a row that commits is later than
\* every row that committed before it.
CommitsInOrder ==
    [][\A r \in rows' : (\A q \in rows : q.id # r.id) =>
           \A q \in rows : q.at < r.at]_rows

\* Following the log by created_at skips nothing: between two events that the
\* client has printed there is none it has not (but events from before the
\* migration may share a time stamp, and a page may end between them).
TailMissesNothing ==
    \A c, s, r \in rows :
        c.id = cursor /\ s.id \in shown /\ s.at < r.at /\ r.at < c.at
            /\ (\A q \in rows : q.at = r.at => q = r)
        => r.id \in shown

\* The server never runs on a log that was altered before it started, unless the
\* operator has set both variables.
DamageStopsTheStart == server = "up" /\ damaged => Overridden
=============================================================================
