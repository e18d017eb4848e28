---------------------------- MODULE MCEventChain ----------------------------
(***************************************************************************)
(* EventChain with a hash that is the chain it stands for, hence free of   *)
(* collisions, and the logs that the migration's backfill may leave.       *)
(***************************************************************************)
EXTENDS EventChain, Sequences, TLC

CONSTANT LegacyStamps   \* created_at of the events from before the migration

AnyWriter == Permutations(Writers)

OneOrBoth == {[relaxed |-> TRUE, allow_unsafe |-> both] : both \in BOOLEAN}

NoHash == <<>>
ChainOf(prev, payload) == Append(prev, payload)

\* The backfill: the walk order is (created_at, id).
Backfilled(q, r) ==
    LET hq == ChainOf(NoHash, <<"event", q.at>>)
    IN  {[id |-> q.id, at |-> q.at, body |-> "event", prev |-> NoHash, hash |-> hq],
         [id |-> r.id, at |-> r.at, body |-> "event", prev |-> hq,
          hash |-> ChainOf(hq, <<"event", r.at>>)]}

Stamped == [id : Ids, at : LegacyStamps]

Migrated ==
    {{}} \cup {Backfilled(q, r) : <<q, r>> \in
                  {p \in Stamped \X Stamped : p[1].id # p[2].id /\ Before(p[1], p[2])}}
=============================================================================
