------------------------------ MODULE Webhooks ------------------------------
(***************************************************************************)
(* Webhook ingress of one agent.  A delivery is one HTTP request; a sender *)
(* that got no answer, or a bad one, may send the same thing again as      *)
(* another delivery under the same idempotency key.  The handler runs one  *)
(* database statement per step, beside the other deliveries, the rotation  *)
(* of the secret and the operator who disables and enables the agent.  It  *)
(* may fail at every step, and be dropped at every step when its client    *)
(* hangs up or the server crashes.                                         *)
(*                                                                         *)
(* A secret is the number of its version.  The sender of a delivery signs  *)
(* with a version that is or was the agent's; 0 stands for a missing or an *)
(* invalid signature.                                                      *)
(***************************************************************************)
EXTENDS Naturals

CONSTANTS
    Deliveries,         \* requests, each made once
    Keys,               \* idempotency keys
    NoKey,              \* a delivery without the header
    MaxSecrets          \* bound: versions of the webhook secret

ASSUME WebhooksAssumption == MaxSecrets \in Nat \ {0} /\ NoKey \notin Keys

VARIABLES
    secret,             \* agents.webhook_secret
    is_enabled,         \* agents.is_enabled
    rotating,           \* the open transaction of a rotation: no, updated, logged
    rotations,          \* webhook_secret_rotated events in the log
    dedup,              \* the rows of webhook_dedup for this agent
    events,             \* the deliveries whose webhook_received is in the log
    pc,                 \* where the handler of a delivery is
    sent,               \* what a delivery carries
    answer,             \* the status its sender got; 0 while there is none
    authorized          \* history: since it arrived, the agent was at some time enabled
                        \* under the very secret that signs the delivery

vars == <<secret, is_enabled, rotating, rotations, dedup, events, pc, sent, answer, authorized>>

agent == <<secret, is_enabled, rotating, rotations>>

Delivery == [key : Keys \union {NoKey}, signed : 0 .. MaxSecrets, parses : BOOLEAN]

Blank == [key |-> NoKey, signed |-> 0, parses |-> FALSE]

Busy == {"lookup", "dedup", "append", "notify"}

Init ==
    /\ secret = 1 /\ is_enabled = TRUE /\ rotating = "no" /\ rotations = 0
    /\ dedup = {} /\ events = {}
    /\ pc = [d \in Deliveries |-> "unsent"]
    /\ sent = [d \in Deliveries |-> Blank]
    /\ answer = [d \in Deliveries |-> 0]
    /\ authorized = [d \in Deliveries |-> FALSE]

Goto(d, where) == pc' = [pc EXCEPT ![d] = where] /\ UNCHANGED answer

Answer(d, status) == pc' = [pc EXCEPT ![d] = "done"] /\ answer' = [answer EXCEPT ![d] = status]

-----------------------------------------------------------------------------
(* The sender. *)

Arrive(d) ==
    /\ pc[d] = "unsent"
    /\ \E delivery \in Delivery :
          /\ delivery.signed <= secret
          /\ sent' = [sent EXCEPT ![d] = delivery]
          /\ authorized' = [authorized EXCEPT ![d] = is_enabled /\ delivery.signed = secret]
    /\ Goto(d, "lookup")
    /\ UNCHANGED <<agent, dedup, events>>

\* The client hangs up, or the server crashes: the handler goes no further.
Drop(d) ==
    /\ pc[d] \in Busy
    /\ Goto(d, "done")
    /\ UNCHANGED <<agent, dedup, events, sent, authorized>>

-----------------------------------------------------------------------------
(* receive_webhook *)

\* Mutant: the version before the current one is accepted too.
verify_overlapping(signed) == signed # 0 /\ signed + 1 >= secret

verify_hmac(signed) == signed = secret

\* One SELECT of the agent's row, and what is decided from it.
GetAgent(d) ==
    /\ pc[d] = "lookup"
    /\ \/ ~is_enabled /\ Answer(d, 403)
       \/ is_enabled /\ ~verify_hmac(sent[d].signed) /\ Answer(d, 401)
       \/ /\ is_enabled /\ verify_hmac(sent[d].signed)
          /\ Goto(d, IF sent[d].key = NoKey THEN "append" ELSE "dedup")
    /\ UNCHANGED <<agent, dedup, events, sent, authorized>>

\* Mutant: a conflict is taken for an insertion.
InsertKeyRegardless(d) ==
    /\ pc[d] = "dedup"
    /\ dedup' = dedup \union {sent[d].key}
    /\ Goto(d, "append")
    /\ UNCHANGED <<agent, events, sent, authorized>>

\* INSERT .. ON CONFLICT DO NOTHING, committed at once.
InsertKey(d) ==
    /\ pc[d] = "dedup"
    /\ \/ sent[d].key \in dedup /\ Answer(d, 200) /\ UNCHANGED dedup
       \/ /\ sent[d].key \notin dedup
          /\ dedup' = dedup \union {sent[d].key}
          /\ Goto(d, "append")
    /\ UNCHANGED <<agent, events, sent, authorized>>

\* The body is parsed, then webhook_received is appended and committed.
AppendEvent(d) ==
    /\ pc[d] = "append"
    /\ \/ ~sent[d].parses /\ Answer(d, 400) /\ UNCHANGED events
       \/ sent[d].parses /\ events' = events \union {d} /\ Goto(d, "notify")
    /\ UNCHANGED <<agent, dedup, sent, authorized>>

Notify(d) ==
    /\ pc[d] = "notify"
    /\ Answer(d, 202)
    /\ UNCHANGED <<agent, dedup, events, sent, authorized>>

\* Any of these statements may fail before it took effect.  One that took effect and
\* then lost its connection is the failure of the statement after it.
Fail(d) ==
    /\ pc[d] \in Busy
    /\ Answer(d, 500)
    /\ UNCHANGED <<agent, dedup, events, sent, authorized>>

-----------------------------------------------------------------------------
(* The operator. *)

\* Deliveries under way that the row, as it becomes, would let in.
Authorize ==
    authorized' = [d \in Deliveries |->
        authorized[d] \/ (pc[d] \in Busy /\ is_enabled' /\ sent[d].signed = secret')]

\* It waits for the row while a rotation holds it.
update_agent(enabled) ==
    /\ rotating = "no"
    /\ is_enabled' = enabled
    /\ UNCHANGED <<secret, rotating, rotations, dedup, events, pc, sent, answer>>
    /\ Authorize

\* Mutant: the UPDATE is made outside the transaction.
rotate_webhook_secret ==
    /\ rotating = "no" /\ secret < MaxSecrets
    /\ rotating' = "updated" /\ secret' = secret + 1
    /\ UNCHANGED <<is_enabled, rotations, dedup, events, pc, sent, answer>>
    /\ Authorize

\* UPDATE inside a transaction: the row is locked, nobody sees the new secret.
rotate_webhook_secret_tx ==
    /\ rotating = "no" /\ secret < MaxSecrets
    /\ rotating' = "updated"
    /\ UNCHANGED <<secret, is_enabled, rotations, dedup, events, pc, sent, answer, authorized>>

AppendRotated ==
    /\ rotating = "updated"
    /\ rotating' = "logged"
    /\ UNCHANGED <<secret, is_enabled, rotations, dedup, events, pc, sent, answer, authorized>>

CommitRotation ==
    /\ rotating = "logged"
    /\ rotating' = "no" /\ secret' = secret + 1 /\ rotations' = rotations + 1
    /\ UNCHANGED <<is_enabled, dedup, events, pc, sent, answer>>
    /\ Authorize

\* A statement fails, the handler is dropped, or the server crashes.
RollBackRotation ==
    /\ rotating # "no"
    /\ rotating' = "no"
    /\ UNCHANGED <<secret, is_enabled, rotations, dedup, events, pc, sent, answer, authorized>>

-----------------------------------------------------------------------------
receive_webhook(d) ==
    GetAgent(d) \/ InsertKey(d) \/ AppendEvent(d) \/ Notify(d) \/ Fail(d)

rotate_webhook_secret_handler ==
    rotate_webhook_secret_tx \/ AppendRotated \/ CommitRotation \/ RollBackRotation

Next ==
    \/ \E d \in Deliveries : Arrive(d) \/ Drop(d) \/ receive_webhook(d)
    \/ \E enabled \in BOOLEAN : update_agent(enabled)
    \/ rotate_webhook_secret_handler

Spec == Init /\ [][Next]_vars
=============================================================================
