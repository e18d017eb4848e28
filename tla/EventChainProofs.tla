-------------------------- MODULE EventChainProofs --------------------------
(***************************************************************************)
(* The chain of EventChain, proved for any number of connections, any      *)
(* clock and any legacy log.                                               *)
(***************************************************************************)
EXTENDS EventChain, TLAPS

\* Two payloads never have the same hash after the same previous hash.
DigestInjective == \A prev, p, q : Digest(prev, p) = Digest(prev, q) => p = q

UniqueIds(log) == \A q, r \in log : q.id = r.id => q = r

\* What the row's hash was computed from, also after the row was altered.
Hashed(r) ==
    /\ r.body # "altered" => r.hash = Digest(r.prev, Payload(r))
    /\ r.body = "altered" =>
           \E b \in Bodies \ {"altered"} : r.hash = Digest(r.prev, <<b, r.at>>)

LogOK(log) ==
    /\ \A r \in log : RowOK(r)
    /\ UniqueIds(log)
    /\ \A r \in log : Linked(log, r)
    /\ \A r \in log : Hashed(r)

\* n may be the next row of the log.
Follows(log, n) ==
    /\ RowOK(n)
    /\ n.body # "altered"
    /\ n.hash = Digest(n.prev, Payload(n))
    /\ \A q \in log : q.at < n.at /\ q.id # n.id
    /\ log = {} => n.prev = Genesis
    /\ \A p \in log : Newest(log, p) => n.prev = p.hash

LockInv == \A w \in Writers : pc[w] = "commit" <=> lock = w

ChainInv ==
    /\ TypeOK
    /\ LogOK(rows)
    /\ LockInv
    /\ \A w \in Writers : pc[w] = "commit" => Follows(rows, row[w])

-----------------------------------------------------------------------------
(* The log itself.                                                         *)

\* A row that follows the log leaves it well linked.
LEMMA ExtendLog ==
    ASSUME NEW log, NEW n, LogOK(log), Follows(log, n)
    PROVE  LogOK(log \cup {n})
<1> DEFINE new == log \cup {n}
<1>1. \A r \in new : r.id \in Nat /\ r.at \in Nat
  BY ChainAssumption DEF LogOK, Follows, RowOK
<1>2. \A r \in new : RowOK(r) /\ Hashed(r)
  BY DEF LogOK, Follows, Hashed
<1>3. UniqueIds(new)
  BY DEF LogOK, Follows, UniqueIds
<1>4. ASSUME NEW r \in log  PROVE Linked(new, r)
  <2>1. ~Before(n, r) /\ Before(r, n)
    BY <1>1 DEF Follows, Before
  <2>2. First(new, r) => First(log, r)
    BY DEF First
  <2>3. ASSUME NEW p \in new, Predecessor(new, p, r)  PROVE p \in log /\ Predecessor(log, p, r)
    BY <2>1, <2>3 DEF Predecessor
  <2> QED  BY <2>2, <2>3 DEF LogOK, Linked
<1>5. Linked(new, n)
  <2>1. \A q \in log : Before(q, n)
    BY <1>1 DEF Follows, Before
  <2>2. First(new, n) => n.prev = Genesis
    BY <2>1 DEF First, Follows
  <2>3. ASSUME NEW p \in new, Predecessor(new, p, n)  PROVE n.prev = p.hash
    <3>1. p # n
      BY <1>1, <2>3 DEF Predecessor, Before
    <3>2. \A q \in log : ~Before(p, q)
      BY <2>1, <2>3 DEF Predecessor
    <3>3. \A q \in log : q = p \/ Before(q, p)
      BY <3>1, <3>2, <1>1, <1>3 DEF Before, UniqueIds
    <3> QED  BY <3>1, <3>3 DEF Newest, Follows
  <2> QED  BY <2>2, <2>3 DEF Linked
<1> QED  BY <1>2, <1>3, <1>4, <1>5 DEF LogOK

Replaced(log, r) == (log \ {r}) \cup {Altered(r)}

\* Every row of the altered log has a twin in the log, and the other way round.
LEMMA Twins ==
    ASSUME NEW log, NEW r \in log
    PROVE  /\ \A q \in Replaced(log, r) : \E t \in log :
                  /\ t.id = q.id /\ t.at = q.at /\ t.prev = q.prev /\ t.hash = q.hash
                  /\ q = t \/ (t = r /\ q = Altered(r))
           /\ \A t \in log : \E q \in Replaced(log, r) :
                  /\ t.id = q.id /\ t.at = q.at /\ t.prev = q.prev /\ t.hash = q.hash
                  /\ q = t \/ (t = r /\ q = Altered(r))
<1>1. /\ Altered(r).id = r.id /\ Altered(r).at = r.at
      /\ Altered(r).prev = r.prev /\ Altered(r).hash = r.hash
  BY DEF Altered
<1> QED  BY <1>1 DEF Replaced

\* An altered log is still well linked.
LEMMA AlterLog ==
    ASSUME NEW log, NEW r \in log, LogOK(log), r.body # "altered"
    PROVE  LogOK(Replaced(log, r))
<1> DEFINE new == Replaced(log, r)
<1>1. \A q \in new : RowOK(q) /\ Hashed(q)
  <2>1. RowOK(Altered(r)) /\ Hashed(Altered(r))
    <3>1. RowOK(r) /\ Hashed(r)
      BY DEF LogOK
    <3> QED  BY <3>1 DEF RowOK, Hashed, Altered, Payload, Bodies
  <2> QED  BY <2>1 DEF LogOK, Replaced
<1>2. UniqueIds(new)
  BY DEF LogOK, UniqueIds, Replaced, Altered
<1>3. ASSUME NEW q \in new  PROVE Linked(new, q)
  <2>1. PICK t \in log : t.id = q.id /\ t.at = q.at /\ t.prev = q.prev /\ t.hash = q.hash
    BY Twins
  <2>2. Linked(log, t)
    BY DEF LogOK
  <2>3. First(new, q) => First(log, t)
    BY <2>1, Twins DEF First, Before
  <2>4. ASSUME NEW p \in new, Predecessor(new, p, q)  PROVE q.prev = p.hash
    <3>1. PICK u \in log : u.id = p.id /\ u.at = p.at /\ u.hash = p.hash
      BY Twins
    <3>2. Predecessor(log, u, t)
      <4>1. Before(u, t)
        BY <2>1, <2>4, <3>1 DEF Predecessor, Before
      <4>2. ASSUME NEW v \in log  PROVE ~(Before(u, v) /\ Before(v, t))
        <5>1. PICK x \in new : x.id = v.id /\ x.at = v.at
          BY Twins
        <5> QED  BY <5>1, <2>1, <2>4, <3>1 DEF Predecessor, Before
      <4> QED  BY <4>1, <4>2 DEF Predecessor
    <3> QED  BY <3>1, <3>2, <2>1, <2>2 DEF Linked
  <2> QED  BY <2>1, <2>2, <2>3, <2>4 DEF Linked
<1> QED  BY <1>1, <1>2, <1>3 DEF LogOK

\* The row that was about to follow the log still follows the altered one.
LEMMA AlterFollows ==
    ASSUME NEW log, NEW r \in log, NEW n, LogOK(log), Follows(log, n)
    PROVE  Follows(Replaced(log, r), n)
<1> DEFINE new == Replaced(log, r)
<1>1. \A q \in new : q.at < n.at /\ q.id # n.id
  BY Twins DEF Follows
<1>2. new # {}
  BY DEF Replaced
<1>3. ASSUME NEW p \in new, Newest(new, p)  PROVE n.prev = p.hash
  <2>1. PICK u \in log : u.id = p.id /\ u.at = p.at /\ u.hash = p.hash
    BY Twins
  <2>2. ASSUME NEW v \in log  PROVE v = u \/ Before(v, u)
    <3>1. PICK x \in new : x.id = v.id /\ x.at = v.at
      BY Twins
    <3> QED  BY <3>1, <2>1, <1>3 DEF Newest, Before, LogOK, UniqueIds
  <2> QED  BY <2>1, <2>2 DEF Newest, Follows
<1> QED  BY <1>1, <1>2, <1>3 DEF Follows

\* The trigger fills in a row that follows the log.
LEMMA ComputedFollows ==
    ASSUME TypeOK, LogOK(rows), NEW w \in Writers, ComputeHash(w)
    PROVE  Follows(rows, row'[w])
<1>1. PICK id \in FreshIds :
          \/ /\ rows = {}
             /\ row' = [row EXCEPT ![w] = Entry(w, id, begun[w], Genesis)]
          \/ \E p \in rows :
                /\ Newest(rows, p)
                /\ row' = [row EXCEPT ![w] = Entry(w, id, StampAfter(w, p), p.hash)]
  BY DEF ComputeHash
<1>2. id \in Ids /\ \A q \in rows : q.id # id
  BY DEF FreshIds
<1>3. begun[w] \in Nat /\ body[w] \in Bodies \ {"altered"}
  BY DEF TypeOK
<1>4. \A at, prev : /\ Entry(w, id, at, prev).id = id
                    /\ Entry(w, id, at, prev).at = at
                    /\ Entry(w, id, at, prev).body = body[w]
                    /\ Entry(w, id, at, prev).prev = prev
                    /\ Entry(w, id, at, prev).hash = Digest(prev, <<body[w], at>>)
  BY DEF Entry
<1>5. CASE rows = {} /\ row' = [row EXCEPT ![w] = Entry(w, id, begun[w], Genesis)]
  <2>1. row'[w] = Entry(w, id, begun[w], Genesis)
    BY <1>5 DEF TypeOK
  <2> QED  BY <1>2, <1>3, <1>4, <1>5, <2>1 DEF Follows, RowOK, Payload
<1>6. ASSUME NEW p \in rows, Newest(rows, p),
             row' = [row EXCEPT ![w] = Entry(w, id, StampAfter(w, p), p.hash)]
      PROVE  Follows(rows, row'[w])
  <2>1. row'[w] = Entry(w, id, StampAfter(w, p), p.hash)
    BY <1>6 DEF TypeOK
  <2>2. p.at \in Nat /\ \A q \in rows : q.at \in Nat /\ q.id \in Nat
    BY ChainAssumption DEF LogOK, RowOK
  <2>3. StampAfter(w, p) \in Nat /\ p.at < StampAfter(w, p)
    BY <1>3, <2>2 DEF StampAfter
  <2>4. \A q \in rows : q.at <= p.at
    BY <1>6, <2>2 DEF Newest, Before
  <2>5. \A q \in rows : Newest(rows, q) => q = p
    BY <1>6, <2>2 DEF Newest, Before
  <2>6. \A q \in rows : q.at < StampAfter(w, p)
    BY <2>2, <2>3, <2>4
  <2> QED  BY <1>2, <1>3, <1>4, <2>1, <2>3, <2>5, <2>6 DEF Follows, RowOK, Payload
<1> QED  BY <1>1, <1>5, <1>6

-----------------------------------------------------------------------------
(* Type correctness.                                                       *)

LEMMA InitType == Init => TypeOK
<1> SUFFICES ASSUME Init PROVE TypeOK
  OBVIOUS
<1>1. \A r \in rows : RowOK(r)
  BY LegacyAssumption DEF Init, RowOK, Bodies
<1>2. row = [w \in Writers |-> row[w]] /\ override \in [relaxed : BOOLEAN, allow_unsafe : BOOLEAN]
  BY DEF Init, NoOverride
<1> QED  BY <1>1, <1>2 DEF Init, TypeOK, Verdicts, Bodies

\* A connection that gives up its transaction leaves the types alone.
LEMMA LeaveType ==
    ASSUME TypeOK, NEW w \in Writers, Leave(w)
    PROVE  /\ lock' \in Writers \cup {Nobody}
           /\ pc' \in [Writers -> {"idle", "begin", "lock", "commit"}]
           /\ body' \in [Writers -> Bodies \ {"altered"}]
           /\ begun' \in [Writers -> Nat]
           /\ \A u \in Writers : pc'[u] = "commit" =>
                  pc[u] = "commit" /\ u # w /\ row'[u] = row[u]
BY DEF TypeOK, Leave, Stand, Bodies, Verdicts

\* The row that a trigger fills in has its type.
LEMMA ComputedType ==
    ASSUME TypeOK, NEW w \in Writers, ComputeHash(w)
    PROVE  /\ RowOK(row'[w]) /\ pc'[w] = "commit"
           /\ \A u \in Writers : u # w => row'[u] = row[u] /\ pc'[u] = pc[u]
<1>1. \A id, at, prev : id \in Ids /\ at \in Nat => RowOK(Entry(w, id, at, prev))
  BY DEF TypeOK, RowOK, Entry
<1>2. begun[w] \in Nat /\ \A p \in rows : StampAfter(w, p) \in Nat
  BY DEF TypeOK, RowOK, StampAfter
<1>3. pc'[w] = "commit" /\ \A u \in Writers : u # w => pc'[u] = pc[u]
  BY DEF TypeOK, ComputeHash, Stand
<1>4. PICK new : row' = [row EXCEPT ![w] = new] /\ RowOK(new)
  BY <1>1, <1>2 DEF ComputeHash, FreshIds
<1> QED  BY <1>3, <1>4 DEF TypeOK

\* So does the end of the process.
LEMMA ExitType ==
    ASSUME TypeOK, Exit \/ UNCHANGED <<server, override, gate, damaged>>
    PROVE  /\ server' \in {"down", "gate", "up"}
           /\ override' \in [relaxed : BOOLEAN, allow_unsafe : BOOLEAN]
           /\ gate' \in Verdicts \cup {"none", "audit_chain_floor_relaxed"}
           /\ damaged' \in BOOLEAN
<1>1. NoOverride \in [relaxed : BOOLEAN, allow_unsafe : BOOLEAN]
  BY DEF NoOverride
<1>2. CASE Exit
  BY <1>1, <1>2 DEF Exit
<1>3. CASE UNCHANGED <<server, override, gate, damaged>>
  BY <1>3 DEF TypeOK
<1> QED  BY <1>2, <1>3

\* Every step keeps the types.
LEMMA NextType == TypeOK /\ [Next]_vars => TypeOK'
<1> SUFFICES ASSUME TypeOK, [Next]_vars PROVE TypeOK'
  OBVIOUS
<1> USE DEF conns, start, client
<1>1. ASSUME NEW w \in Writers, BeginInsert(w)  PROVE TypeOK'
  BY <1>1, ChainAssumption DEF TypeOK, BeginInsert, Idle, Stand, Bodies
<1>2. ASSUME NEW w \in Writers, ComputeHash(w)  PROVE TypeOK'
  <2>1. row' = [u \in Writers |-> row'[u]] /\ lock' \in Writers
    BY <1>2 DEF TypeOK, ComputeHash, TakeLock
  <2>2. pc' \in [Writers -> {"idle", "begin", "lock", "commit"}]
    BY <1>2 DEF TypeOK, ComputeHash, Stand
  <2>3. \A u \in Writers : pc'[u] = "commit" => RowOK(row'[u])
    BY <1>2, ComputedType DEF TypeOK
  <2>4. UNCHANGED <<rows, body, begun, server, override, gate, damaged, cursor, shown>>
    BY <1>2 DEF ComputeHash
  <2> QED  BY <2>1, <2>2, <2>3, <2>4 DEF TypeOK, RowOK
<1>3. ASSUME NEW w \in Writers, Leave(w), UNCHANGED client,
             rows' = rows \/ (rows' = rows \cup {row[w]} /\ pc[w] = "commit"),
             UNCHANGED start \/ Exit
      PROVE  TypeOK'
  <2>1. row' = [u \in Writers |-> row'[u]]
    BY <1>3 DEF TypeOK, Leave
  <2>2. \A r \in rows' : RowOK(r)
    BY <1>3 DEF TypeOK
  <2>3. \A u \in Writers : pc'[u] = "commit" => RowOK(row'[u])
    BY <1>3, LeaveType DEF TypeOK
  <2> QED  BY <1>3, <2>1, <2>2, <2>3, LeaveType, ExitType DEF TypeOK, RowOK
<1>4. ASSUME NEW w \in Writers, VerifyAuditChain(w) \/ GateAcknowledges(w)  PROVE TypeOK'
  <2>1. Verdict \in Verdicts
    BY DEF Verdict, Verdicts
  <2>2. pc' \in [Writers -> {"idle", "begin", "lock", "commit"}]
        /\ \A u \in Writers : pc'[u] = "commit" => pc[u] = "commit"
    BY <1>4 DEF TypeOK, VerifyAuditChain, GateAcknowledges, Stand
  <2>3. body' \in [Writers -> Bodies \ {"altered"}]
        /\ gate' \in Verdicts \cup {"none", "audit_chain_floor_relaxed"}
    BY <1>4, <2>1 DEF TypeOK, VerifyAuditChain, GateAcknowledges, Bodies, Verdicts
  <2>4. UNCHANGED <<rows, lock, begun, row, server, override, damaged, cursor, shown>>
    BY <1>4 DEF VerifyAuditChain, GateAcknowledges
  <2>5. \A u \in Writers : pc'[u] = "commit" => RowOK(row'[u])
    BY <2>2, <2>4 DEF TypeOK
  <2>6. row' = [u \in Writers |-> row'[u]]
    BY <2>4 DEF TypeOK
  <2>7. \A r \in rows' : RowOK(r)
    BY <2>4 DEF TypeOK
  <2> QED  BY <2>2, <2>3, <2>4, <2>5, <2>6, <2>7 DEF TypeOK, RowOK
<1>5. CASE Boot \/ GateOpens \/ GateRefuses
  <2>1. CASE Boot
    <3>1. override' \in [relaxed : BOOLEAN, allow_unsafe : BOOLEAN] /\ damaged' \in BOOLEAN
      BY <2>1, ChainAssumption DEF Boot
    <3> QED  BY <2>1, <3>1 DEF Boot, TypeOK, RowOK
  <2>2. CASE GateOpens
    BY <2>2 DEF GateOpens, TypeOK, RowOK
  <2>3. CASE GateRefuses
    BY <2>3, ExitType DEF GateRefuses, TypeOK, RowOK
  <2> QED  BY <1>5, <2>1, <2>2, <2>3
<1>6. ASSUME NEW page \in SUBSET rows, Show(page)  PROVE TypeOK'
  <2>1. cursor' \in Ids /\ shown' \subseteq Ids
    BY <1>6 DEF Show, TypeOK, RowOK
  <2> QED  BY <1>6, <2>1 DEF Show, TypeOK, RowOK
<1>7. CASE TailRecent \/ TailNext
  BY <1>6, <1>7 DEF TailRecent, TailNext
<1>8. CASE TailStops \/ \E r \in rows : TailFrom(r)
  BY <1>8 DEF TailStops, TailFrom, TypeOK, RowOK
<1>9. ASSUME NEW r \in rows, Alter(r)  PROVE TypeOK'
  <2>1. RowOK(Altered(r))
    BY DEF TypeOK, RowOK, Altered, Bodies
  <2> QED  BY <1>9, <2>1 DEF Alter, TypeOK, RowOK
<1>10. CASE Crash
  <2>1. row' = [u \in Writers |-> row'[u]] /\ \A u \in Writers : pc'[u] = "idle"
    BY <1>10 DEF Crash
  <2>2. /\ lock' \in Writers \cup {Nobody}
        /\ pc' \in [Writers -> {"idle", "begin", "lock", "commit"}]
        /\ body' \in [Writers -> Bodies \ {"altered"}]
        /\ begun' \in [Writers -> Nat]
    BY <1>10 DEF Crash, Verdicts, Bodies
  <2>3. UNCHANGED <<rows, cursor, shown>> /\ Exit
    BY <1>10 DEF Crash
  <2>4. \A r \in rows' : RowOK(r)
    BY <2>3 DEF TypeOK
  <2>5. cursor' \in Ids \cup {Nobody} /\ shown' \subseteq Ids
    BY <2>3 DEF TypeOK
  <2>6. \A u \in Writers : pc'[u] = "commit" => RowOK(row'[u])
    BY <2>1
  <2> QED  BY <2>1, <2>2, <2>3, <2>4, <2>5, <2>6, ExitType DEF TypeOK, RowOK
<1>11. CASE UNCHANGED vars
  BY <1>11 DEF vars, TypeOK, RowOK
<1>12. ASSUME NEW w \in Writers, Commit(w) \/ Fail(w)  PROVE TypeOK'
  <2>1. UNCHANGED start \/ Exit
    BY <1>12 DEF Commit, Fail
  <2>2. Leave(w) /\ UNCHANGED client
    BY <1>12 DEF Commit, Fail
  <2>3. rows' = rows \/ (rows' = rows \cup {row[w]} /\ pc[w] = "commit")
    BY <1>12 DEF Commit, Fail
  <2> QED  BY <1>3, <2>1, <2>2, <2>3
<1> QED
  BY <1>1, <1>2, <1>4, <1>5, <1>7, <1>8, <1>9, <1>10, <1>11, <1>12 DEF Next

\* Every variable of the log, its connections, the gate and the client keeps its
\* type.
THEOREM TypeCorrect == Spec => []TypeOK
<1>1. Init => TypeOK
  BY InitType
<1>2. TypeOK /\ [Next]_vars => TypeOK'
  BY NextType
<1> QED  BY <1>1, <1>2, PTL DEF Spec

-----------------------------------------------------------------------------
(* The chain.                                                              *)

LEMMA InitChain == Init => ChainInv
<1> SUFFICES ASSUME Init PROVE ChainInv
  OBVIOUS
<1>1. LogOK(rows)
  BY LegacyAssumption
     DEF Init, LogOK, RowOK, UniqueIds, Verified, Intact, Hashed, Bodies
<1>2. LockInv /\ \A w \in Writers : pc[w] # "commit"
  BY ChainAssumption DEF Init, LockInv
<1> QED  BY <1>1, <1>2, InitType DEF ChainInv

\* A step that leaves the log, the lock and the filled-in rows alone.
LEMMA ChainKept ==
    ASSUME ChainInv, TypeOK', UNCHANGED <<rows, lock, row>>,
           \A w \in Writers : pc'[w] = "commit" <=> pc[w] = "commit"
    PROVE  ChainInv'
BY DEF ChainInv, LockInv

\* A connection that gives up its transaction.
LEMMA LeaveLock ==
    ASSUME ChainInv, NEW w \in Writers, Leave(w)
    PROVE  /\ LockInv'
           /\ \A u \in Writers : pc'[u] = "commit" =>
                  pc[u] = "commit" /\ u # w /\ row'[u] = row[u]
<1>1. pc'[w] = "idle" /\ \A u \in Writers : u # w => pc'[u] = pc[u]
  BY DEF ChainInv, TypeOK, Leave, Stand
<1>2. lock' = IF lock = w THEN Nobody ELSE lock
  BY DEF Leave
<1>3. LockInv'
  BY <1>1, <1>2, ChainAssumption DEF ChainInv, LockInv
<1> QED  BY <1>3, LeaveType DEF ChainInv

\* Every step keeps the chain, and a row is only added at its end.
LEMMA NextChain == ChainInv /\ [Next]_vars => ChainInv'
<1> SUFFICES ASSUME ChainInv, [Next]_vars PROVE ChainInv'
  OBVIOUS
<1>0. TypeOK /\ TypeOK'
  BY NextType DEF ChainInv
<1>1. ASSUME NEW w \in Writers, BeginInsert(w) \/ VerifyAuditChain(w) \/ GateAcknowledges(w)
      PROVE  ChainInv'
  <2>1. \A u \in Writers : pc'[u] = "commit" <=> pc[u] = "commit"
    BY <1>0, <1>1 DEF TypeOK, BeginInsert, VerifyAuditChain, GateAcknowledges, Idle, Stand
  <2> QED
    BY <1>0, <1>1, <2>1, ChainKept DEF BeginInsert, VerifyAuditChain, GateAcknowledges
<1>2. ASSUME NEW w \in Writers, ComputeHash(w)  PROVE ChainInv'
  <2>1. /\ pc'[w] = "commit"
        /\ \A u \in Writers : u # w => row'[u] = row[u] /\ pc'[u] = pc[u]
    BY <1>0, <1>2, ComputedType
  <2>2. lock = Nobody /\ lock' = w /\ rows' = rows
    BY <1>2 DEF ComputeHash, TakeLock
  <2>3. \A u \in Writers : pc[u] # "commit"
    BY <2>2, ChainAssumption DEF ChainInv, LockInv
  <2>4. LockInv'
    BY <2>1, <2>2, <2>3 DEF LockInv
  <2>5. Follows(rows, row'[w])
    BY <1>0, <1>2, ComputedFollows DEF ChainInv
  <2> QED  BY <1>0, <2>1, <2>2, <2>3, <2>4, <2>5 DEF ChainInv
<1>3. ASSUME NEW w \in Writers, Commit(w)  PROVE ChainInv'
  <2>1. rows' = rows \cup {row[w]} /\ pc[w] = "commit" /\ Leave(w)
    BY <1>3 DEF Commit
  <2>2. LogOK(rows')
    BY <2>1, ExtendLog DEF ChainInv
  <2>3. \A u \in Writers : pc[u] = "commit" => u = w
    BY <2>1 DEF ChainInv, LockInv
  <2> QED  BY <1>0, <2>1, <2>2, <2>3, LeaveLock DEF ChainInv
<1>4. ASSUME NEW w \in Writers, Fail(w)  PROVE ChainInv'
  BY <1>0, <1>4, LeaveLock DEF ChainInv, Fail
<1>5. ASSUME NEW r \in rows, Alter(r)  PROVE ChainInv'
  <2>1. rows' = Replaced(rows, r) /\ r.body # "altered" /\ UNCHANGED <<lock, pc, row>>
    BY <1>5 DEF Alter, Replaced, conns
  <2>2. LogOK(rows')
    BY <2>1, AlterLog DEF ChainInv
  <2>3. \A w \in Writers : pc[w] = "commit" => Follows(rows', row[w])
    BY <2>1, AlterFollows DEF ChainInv
  <2> QED  BY <1>0, <2>1, <2>2, <2>3 DEF ChainInv, LockInv
<1>6. CASE Crash
  <2>1. \A w \in Writers : pc'[w] = "idle"
    BY <1>6 DEF Crash
  <2>2. LockInv'
    BY <1>6, <2>1, ChainAssumption DEF Crash, LockInv
  <2> QED  BY <1>0, <1>6, <2>1, <2>2 DEF ChainInv, Crash
<1>7. CASE UNCHANGED <<rows, lock, pc, row>>
  BY <1>0, <1>7, ChainKept
<1>8. ASSUME Boot \/ GateOpens \/ GateRefuses \/ TailRecent \/ TailNext \/ TailStops
             \/ (\E r \in rows : TailFrom(r)) \/ UNCHANGED vars
      PROVE  UNCHANGED <<rows, lock, pc, row>>
  BY <1>8 DEF Boot, GateOpens, GateRefuses, TailRecent, TailNext, Show, TailStops,
              TailFrom, vars, conns
<1> QED
  BY <1>1, <1>2, <1>3, <1>4, <1>5, <1>6, <1>7, <1>8 DEF Next

LEMMA ChainHolds == Spec => []ChainInv
<1>1. Init => ChainInv
  BY InitChain
<1>2. ChainInv /\ [Next]_vars => ChainInv'
  BY NextChain
<1> QED  BY <1>1, <1>2, PTL DEF Spec

\* AC-78: the walk finds a row at fault exactly when the row was altered after
\* its insert, provided the hash tells payloads apart.
THEOREM ChainIsSound ==
    ASSUME DigestInjective
    PROVE  Spec => []FaultsAreAlterations
<1>1. ASSUME ChainInv  PROVE FaultsAreAlterations
  <2> SUFFICES ASSUME NEW r \in rows  PROVE Intact(rows, r) <=> r.body # "altered"
    BY DEF FaultsAreAlterations
  <2>1. Linked(rows, r) /\ Hashed(r)
    BY <1>1 DEF ChainInv, LogOK
  <2>2. ASSUME r.body = "altered"  PROVE r.hash # Digest(r.prev, Payload(r))
    <3>1. PICK b \in Bodies \ {"altered"} : r.hash = Digest(r.prev, <<b, r.at>>)
      BY <2>1, <2>2 DEF Hashed
    <3>2. <<b, r.at>> # Payload(r)
      BY <2>2 DEF Payload
    <3> QED  BY <3>1, <3>2, DigestInjective DEF DigestInjective
  <2> QED  BY <2>1, <2>2 DEF Intact, Hashed
<1> QED  BY <1>1, ChainHolds, PTL

\* created_at is the order of the commits, whatever the clock does.
THEOREM InOrder == Spec => CommitsInOrder
<1> DEFINE AtTheEnd == \A r \in rows' : (\A q \in rows : q.id # r.id) =>
                        \A q \in rows : q.at < r.at
<1>1. ASSUME ChainInv, [Next]_vars  PROVE [AtTheEnd]_rows
  <2>1. ASSUME NEW w \in Writers, Commit(w)  PROVE AtTheEnd
    <3>1. rows' = rows \cup {row[w]} /\ Follows(rows, row[w])
      BY <1>1, <2>1 DEF Commit, ChainInv
    <3> QED  BY <3>1 DEF Follows
  <2>2. ASSUME NEW r \in rows, Alter(r)  PROVE AtTheEnd
    <3>1. rows' = (rows \ {r}) \cup {Altered(r)} /\ Altered(r).id = r.id
      BY <2>2 DEF Alter, Altered
    <3> QED  BY <3>1
  <2>3. CASE UNCHANGED rows
    BY <2>3
  <2> QED
    BY <1>1, <2>1, <2>2, <2>3
       DEF Next, vars, BeginInsert, ComputeHash, Fail, VerifyAuditChain, GateAcknowledges,
           Boot, GateOpens, GateRefuses, TailRecent, TailNext, Show, TailStops, TailFrom,
           Crash
<1> QED  BY <1>1, ChainHolds, PTL DEF Spec, CommitsInOrder

-----------------------------------------------------------------------------
(* The client that follows the log.                                        *)

\* What the client has printed is in the log, and so is its cursor.
ClientOK ==
    /\ \A i \in shown : \E r \in rows : r.id = i
    /\ cursor # Nobody => cursor \in shown
    /\ cursor = Nobody => shown = {}

TailInv == ChainInv /\ ClientOK /\ TailMissesNothing

\* An event at the end of the log is not between two that were printed.
LEMMA ExtendTail ==
    ASSUME NEW log, NEW n, NEW seen, NEW last,
           LogOK(log), Follows(log, n),
           \A i \in seen : \E r \in log : r.id = i,
           last \in seen \/ seen = {},
           NEW c \in log \cup {n}, NEW s \in log \cup {n}, NEW r \in log \cup {n},
           c.id = last, s.id \in seen, s.at < r.at, r.at < c.at
    PROVE  c \in log /\ s \in log /\ r \in log
<1>1. \A q \in log : q.at \in Nat /\ q.at < n.at /\ q.id # n.id
  BY DEF LogOK, RowOK, Follows
<1>2. n.at \in Nat /\ n.id \notin seen
  BY <1>1 DEF Follows, RowOK
<1> QED  BY <1>1, <1>2

\* A new page skips nothing between the events printed before and its last one.
\* The bound is the row of the cursor, if there is a cursor.
LEMMA ShowTail ==
    ASSUME TailInv, NEW page \in SUBSET rows, Show(page),
           NEW bound \in SUBSET rows, \A c \in bound : c.id = cursor,
           shown # {} => bound # {},
           \A c \in bound, s \in page : s.at > c.at,
           \A s \in page : \A r \in rows \ page :
               (\A c \in bound : r.at > c.at) => (bound # {} => r.at >= s.at)
                                              /\ (bound = {} => r.at <= s.at)
    PROVE  TailMissesNothing'
<1> SUFFICES ASSUME NEW c \in rows, NEW s \in rows, NEW r \in rows,
                    c.id = cursor', s.id \in shown', s.at < r.at, r.at < c.at,
                    \A q \in rows : q.at = r.at => q = r,
                    r.id \notin shown'
             PROVE  FALSE
  BY DEF Show, TailMissesNothing
<1>1. PICK e \in page : cursor' = e.id /\ \A t \in page : t.at <= e.at
  BY DEF Show
<1>2. c = e /\ shown' = shown \cup {t.id : t \in page} /\ r \notin page
  BY <1>1 DEF Show, TailInv, ChainInv, LogOK, UniqueIds
<1>3. s.id \in shown \/ s \in page
  BY <1>2 DEF TailInv, ChainInv, LogOK, UniqueIds
<1>4. \A q \in rows : q.at \in Nat
  BY DEF TailInv, ChainInv, LogOK, RowOK
<1>5. CASE bound = {}
  <2>1. shown = {} /\ s \in page
    BY <1>3, <1>5
  <2> QED  BY <1>2, <1>4, <1>5, <2>1
<1>6. ASSUME NEW d \in bound  PROVE FALSE
  <2>1. \A b \in bound : b = d
    BY <1>6 DEF TailInv, ChainInv, LogOK, UniqueIds
  <2>2. ~(r.at > d.at)
    BY <1>1, <1>2, <1>4, <1>6, <2>1
  <2>3. r # d
    BY <1>2, <1>6, ChainAssumption DEF TailInv, ClientOK, ChainInv, LogOK, RowOK
  <2>4. r.at < d.at
    BY <1>4, <1>6, <2>2, <2>3
  <2>5. s.id \in shown
    BY <1>3, <1>4, <1>6, <2>4
  <2> QED  BY <1>2, <1>6, <2>4, <2>5 DEF TailInv, TailMissesNothing
<1> QED  BY <1>5, <1>6

\* The client's records after a page.
LEMMA ShowClient ==
    ASSUME TailInv, NEW page \in SUBSET rows, Show(page)
    PROVE  ClientOK'
<1>1. PICK e \in page : cursor' = e.id /\ shown' = shown \cup {t.id : t \in page}
  BY DEF Show
<1>2. e.id \in Ids /\ rows' = rows
  BY DEF Show, TailInv, ChainInv, LogOK, RowOK
<1> QED  BY <1>1, <1>2, ChainAssumption DEF TailInv, ClientOK

\* Every step of the client, the log and the rest keeps the client's records
\* complete.
LEMMA NextTail == TailInv /\ [Next]_vars => TailInv'
<1> SUFFICES ASSUME TailInv, [Next]_vars PROVE ClientOK' /\ TailMissesNothing'
  BY NextChain DEF TailInv
<1>0. /\ LogOK(rows) /\ TypeOK /\ \A r \in rows : r.id \in Ids /\ r.at \in Nat
      /\ Nobody \notin Ids
  BY ChainAssumption DEF TailInv, ChainInv, LogOK, RowOK
<1>1. ASSUME NEW w \in Writers, Commit(w)  PROVE ClientOK' /\ TailMissesNothing'
  <2>1. rows' = rows \cup {row[w]} /\ Follows(rows, row[w]) /\ UNCHANGED <<cursor, shown>>
    BY <1>1 DEF Commit, TailInv, ChainInv, client
  <2>2. ClientOK'
    BY <2>1 DEF TailInv, ClientOK
  <2>3. SUFFICES ASSUME NEW c \in rows', NEW s \in rows', NEW r \in rows',
                        c.id = cursor, s.id \in shown, s.at < r.at, r.at < c.at,
                        \A q \in rows' : q.at = r.at => q = r
                 PROVE  r.id \in shown
    BY <2>1, <2>2 DEF TailMissesNothing
  <2>4. (\A i \in shown : \E q \in rows : q.id = i) /\ (cursor \in shown \/ shown = {})
    BY DEF TailInv, ClientOK
  <2>5. c \in rows /\ s \in rows /\ r \in rows
    BY <1>0, <2>1, <2>3, <2>4, ExtendTail
  <2> QED  BY <2>1, <2>3, <2>5 DEF TailInv, TailMissesNothing
<1>2. ASSUME NEW r \in rows, Alter(r)  PROVE ClientOK' /\ TailMissesNothing'
  <2>1. rows' = Replaced(rows, r) /\ UNCHANGED <<cursor, shown>>
    BY <1>2 DEF Alter, Replaced, client
  <2>2. ClientOK'
    <3>0. \A t \in rows : \E q \in rows' : t.id = q.id
      BY <2>1, Twins
    <3>1. \A i \in shown : \E q \in rows' : q.id = i
      BY <3>0 DEF TailInv, ClientOK
    <3> QED  BY <2>1, <3>1 DEF TailInv, ClientOK
  <2>3. SUFFICES ASSUME NEW c \in rows', NEW s \in rows', NEW x \in rows',
                        c.id = cursor, s.id \in shown, s.at < x.at, x.at < c.at,
                        \A q \in rows' : q.at = x.at => q = x
                 PROVE  x.id \in shown
    BY <2>1, <2>2 DEF TailMissesNothing
  <2>4. PICK c0 \in rows, s0 \in rows, x0 \in rows :
            /\ c0.id = c.id /\ c0.at = c.at
            /\ s0.id = s.id /\ s0.at = s.at
            /\ x0.id = x.id /\ x0.at = x.at
    BY <2>1, Twins
  <2>5. ASSUME NEW q \in rows, q.at = x0.at  PROVE q = x0
    <3>1. PICK q1 \in rows' : q1.id = q.id /\ q1.at = q.at
      BY <2>1, Twins
    <3> QED  BY <1>0, <2>3, <2>4, <2>5, <3>1 DEF LogOK, UniqueIds
  <2> QED  BY <2>3, <2>4, <2>5 DEF TailInv, TailMissesNothing
<1>3. CASE TailRecent
  <2>1. PICK page \in SUBSET rows : NewestRows(rows, page) /\ Show(page)
    BY <1>3 DEF TailRecent
  <2>2. shown = {}
    BY <1>3 DEF TailRecent, TailInv, ClientOK
  <2>3. \A s \in page : \A r \in rows \ page : r.at <= s.at
    BY <1>0, <2>1 DEF Page, NewestRows
  <2>4. TailMissesNothing'
    BY <2>1, <2>2, <2>3, ShowTail
  <2> QED  BY <2>1, <2>4, ShowClient
<1>4. CASE TailNext
  <2>1. PICK c \in rows : /\ c.id = cursor
                          /\ LET log == {r \in rows : r.at > c.at}
                             IN  \E page \in SUBSET log : OldestRows(log, page) /\ Show(page)
    BY <1>4 DEF TailNext
  <2> DEFINE log == {r \in rows : r.at > c.at}
  <2>2. PICK page \in SUBSET log : OldestRows(log, page) /\ Show(page)
    BY <2>1
  <2>3. \A s \in page : s \in rows /\ s.at > c.at
    OBVIOUS
  <2>4. \A s \in page : \A r \in rows \ page : r.at > c.at => r.at >= s.at
    BY <1>0, <2>2 DEF Page, OldestRows
  <2>5. TailMissesNothing'
    <3>1. page \in SUBSET rows /\ {c} \in SUBSET rows
      BY <2>3
    <3> HIDE DEF log
    <3> QED  BY <2>1, <2>2, <2>3, <2>4, <3>1, ShowTail
  <2> QED  BY <2>2, <2>3, <2>5, ShowClient
<1>5. ASSUME NEW r \in rows, TailFrom(r)  PROVE ClientOK' /\ TailMissesNothing'
  <2>1. rows' = rows /\ cursor' = r.id /\ shown' = {r.id}
    BY <1>5 DEF TailFrom
  <2>2. ClientOK'
    BY <1>0, <2>1 DEF ClientOK
  <2> QED  BY <1>0, <2>1, <2>2 DEF TailMissesNothing, LogOK, UniqueIds
<1>6. CASE TailStops
  BY <1>0, <1>6 DEF TailStops, ClientOK, TailMissesNothing
<1>7. CASE UNCHANGED <<rows, cursor, shown>>
  BY <1>7 DEF TailInv, ClientOK, TailMissesNothing
<1> QED
  BY <1>1, <1>2, <1>3, <1>4, <1>5, <1>6, <1>7
     DEF Next, vars, client, BeginInsert, ComputeHash, Fail, VerifyAuditChain,
         GateAcknowledges, Boot, GateOpens, GateRefuses, Crash

\* Following the log by created_at skips no event with a time stamp of its own.
THEOREM TailIsComplete == Spec => []TailMissesNothing
<1>1. Init => TailInv
  BY InitChain DEF Init, TailInv, ClientOK, TailMissesNothing
<1>2. TailInv /\ [Next]_vars => TailInv'
  BY NextTail
<1>3. TailInv => TailMissesNothing
  BY DEF TailInv
<1> QED  BY <1>1, <1>2, <1>3, PTL DEF Spec

-----------------------------------------------------------------------------
(* The startup gate.                                                       *)

Damage == \E r \in rows : r.body = "altered"

GateInv ==
    /\ server \in {"gate", "up"} /\ damaged => Damage /\ gate # "audit_chain_verified"
    /\ server \in {"gate", "up"} /\ gate = "audit_chain_floor_relaxed" => Overridden
    /\ server = "up" => gate \in {"audit_chain_verified", "audit_chain_floor_relaxed"}

\* The gate lets no damage through that is older than the start.
THEOREM GateHolds ==
    ASSUME DigestInjective
    PROVE  Spec => []DamageStopsTheStart
<1>1. Init => GateInv
  BY DEF Init, GateInv
<1>2. ASSUME GateInv, ChainInv, FaultsAreAlterations, [Next]_vars  PROVE GateInv'
  <2>1. Damage => Damage'
    <3>1. ASSUME NEW r \in rows, Alter(r)  PROVE Damage'
      <4>1. Altered(r) \in rows' /\ Altered(r).body = "altered"
        BY <3>1 DEF Alter, Altered
      <4> QED  BY <4>1 DEF Damage
    <3>2. rows \subseteq rows' => (Damage => Damage')
      BY DEF Damage
    <3> QED
      BY <1>2, <3>1, <3>2
         DEF Next, vars, BeginInsert, ComputeHash, Commit, Fail, VerifyAuditChain,
             GateAcknowledges, Boot, GateOpens, GateRefuses, TailRecent, TailNext, Show,
             TailStops, TailFrom, Crash
  <2>2. ASSUME NEW w \in Writers, VerifyAuditChain(w)  PROVE GateInv'
    <3>1. Damage => Verdict # "audit_chain_verified"
      BY <1>2 DEF Damage, FaultsAreAlterations, Verified, Verdict
    <3>2. Verdict # "audit_chain_floor_relaxed"
      BY DEF Verdict
    <3> QED  BY <1>2, <2>1, <2>2, <3>1, <3>2 DEF GateInv, VerifyAuditChain, Overridden
  <2>3. CASE Boot
    BY <2>3 DEF Boot, GateInv, Damage
  <2>4. CASE GateOpens \/ \E w \in Writers : GateAcknowledges(w)
    BY <1>2, <2>1, <2>4 DEF GateOpens, GateAcknowledges, GateInv, Overridden
  <2>5. CASE Exit
    BY <2>5 DEF Exit, GateInv
  <2>6. CASE UNCHANGED <<server, override, gate, damaged>>
    BY <1>2, <2>1, <2>6 DEF GateInv, Overridden
  <2> QED
    BY <1>2, <2>2, <2>3, <2>4, <2>5, <2>6
       DEF Next, vars, start, BeginInsert, ComputeHash, Commit, Fail, GateRefuses,
           TailRecent, TailNext, Show, TailStops, TailFrom, Alter, Crash
<1>3. GateInv => DamageStopsTheStart
  BY DEF GateInv, DamageStopsTheStart
<1> QED  BY <1>1, <1>2, <1>3, ChainHolds, ChainIsSound, PTL DEF Spec
=============================================================================
