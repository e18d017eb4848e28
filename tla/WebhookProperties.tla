-------------------------- MODULE WebhookProperties --------------------------
(***************************************************************************)
(* What webhook ingress promises its senders and its operator.             *)
(***************************************************************************)
EXTENDS Webhooks

WebhooksTypeOK ==
    /\ secret \in 1 .. MaxSecrets
    /\ is_enabled \in BOOLEAN
    /\ rotating \in {"no", "updated", "logged"}
    /\ rotations \in Nat
    /\ dedup \subseteq Keys
    /\ events \subseteq Deliveries
    /\ pc \in [Deliveries -> Busy \union {"unsent", "done"}]
    /\ sent \in [Deliveries -> Delivery]
    /\ answer \in [Deliveries -> {0, 200, 202, 400, 401, 403, 500}]
    /\ authorized \in [Deliveries -> BOOLEAN]

\* AC-14: however often a delivery is retried, and however its retries race each other,
\* fail or are dropped, its idempotency key is behind one webhook_received at most.
DeliveredAtMostOnce ==
    \A d, e \in events : sent[d].key = sent[e].key /\ sent[d].key # NoKey => d = e

\* AC-24: a webhook_received stands for a delivery that was admissible at some moment
\* after it arrived: the agent was enabled, and under the very secret that signed it.
\* In particular nothing that arrives after a rotation is accepted under an old secret,
\* and nothing that arrives at a disabled agent is accepted while it stays disabled.
AcceptedWasAuthorized == \A d \in events : authorized[d]

\* AC-24: the secret changes together with the event that says so.
RotationIsLogged == secret = rotations + 1

\* AC-14: "Valid webhooks are recorded as `webhook_received` events", and "Duplicate
\* webhooks [..] return 200 without re-processing".  So once nothing is under way, a
\* well-formed delivery answered 202 or 200 is in the log, itself or as another one
\* under its key.
AnsweredIsLogged ==
    (\A d \in Deliveries : pc[d] \notin Busy) =>
        \A d \in Deliveries :
            answer[d] \in {200, 202} /\ sent[d].parses =>
                \E e \in events : e = d \/ (sent[e].key = sent[d].key /\ sent[d].key # NoKey)
=============================================================================
