---------------------------- MODULE WebhookProofs ----------------------------
(***************************************************************************)
(* For every set of deliveries and of keys, and any number of rotations: a *)
(* key is behind one event at most, an event stands for a delivery that    *)
(* was admissible, and a rotation is logged.                               *)
(***************************************************************************)
EXTENDS WebhookProperties, TLAPS

\* Deliveries that have or may yet get an event: past the dedup of their key.
Past(d) == d \in events \/ pc[d] \in {"append", "notify"}

\* A key is inserted before its delivery is past, and lets one delivery past.
KeysLetOnePast ==
    /\ \A d \in Deliveries : Past(d) /\ sent[d].key # NoKey => sent[d].key \in dedup
    /\ \A d, e \in Deliveries :
          Past(d) /\ Past(e) /\ sent[d].key = sent[e].key /\ sent[d].key # NoKey => d = e

\* A delivery whose handler has read the row was admissible; one whose handler is about
\* to read it is admissible now only if that is on record.
AdmissionIsOnRecord ==
    \A d \in Deliveries :
        /\ Past(d) \/ pc[d] = "dedup" => authorized[d]
        /\ pc[d] = "lookup" /\ is_enabled /\ sent[d].signed = secret => authorized[d]

\* A rotation is begun below the bound, and nothing else moves the secret.
RotationFits == rotating # "no" => secret < MaxSecrets

\* A delivery has an event only once it was sent, and only a keyed one is deduplicated.
EventsAreSent ==
    \A d \in Deliveries :
        /\ pc[d] = "unsent" => d \notin events
        /\ pc[d] = "dedup" => sent[d].key # NoKey /\ d \notin events
        /\ pc[d] = "lookup" => d \notin events

WebhooksInv ==
    /\ WebhooksTypeOK
    /\ RotationFits
    /\ EventsAreSent
    /\ KeysLetOnePast
    /\ AdmissionIsOnRecord
    /\ RotationIsLogged

LEMMA InitEstablishes == Init => WebhooksInv
BY WebhooksAssumption
   DEF WebhooksAssumption, Init, WebhooksInv, WebhooksTypeOK, EventsAreSent, KeysLetOnePast,
       AdmissionIsOnRecord, RotationIsLogged, RotationFits,
       Past, Delivery, Blank, Busy

LEMMA StepKeepsTypes == WebhooksInv /\ [Next]_vars => WebhooksTypeOK'
<1> SUFFICES ASSUME WebhooksInv, [Next]_vars PROVE WebhooksTypeOK'
  OBVIOUS
<1> USE WebhooksAssumption DEF WebhooksAssumption, WebhooksInv, WebhooksTypeOK, agent, Busy
<1>1. ASSUME NEW d \in Deliveries, Arrive(d) PROVE WebhooksTypeOK'
  BY <1>1 DEF Arrive, Goto
<1>2. ASSUME NEW d \in Deliveries, Drop(d) PROVE WebhooksTypeOK'
  BY <1>2 DEF Drop, Goto
<1>3. ASSUME NEW d \in Deliveries, receive_webhook(d) PROVE WebhooksTypeOK'
  <2>1. CASE GetAgent(d)
    BY <2>1 DEF GetAgent, Goto, Answer
  <2>2. CASE InsertKey(d)
    <3>1. sent[d].key \in Keys \union {NoKey}
      BY DEF Delivery
    <3>2. sent[d].key # NoKey
      BY <2>2 DEF InsertKey, EventsAreSent
    <3> QED BY <2>2, <3>1, <3>2 DEF InsertKey, Goto, Answer
  <2>3. CASE AppendEvent(d)
    BY <2>3 DEF AppendEvent, Goto, Answer
  <2>4. CASE Notify(d)
    BY <2>4 DEF Notify, Answer
  <2>5. CASE Fail(d)
    BY <2>5 DEF Fail, Answer
  <2> QED BY <1>3, <2>1, <2>2, <2>3, <2>4, <2>5 DEF receive_webhook
<1>4. ASSUME NEW enabled \in BOOLEAN, update_agent(enabled) PROVE WebhooksTypeOK'
  <2>1. authorized' \in [Deliveries -> BOOLEAN]
    BY <1>4 DEF update_agent, Authorize
  <2> QED BY <1>4, <2>1 DEF update_agent
<1>5. CASE rotate_webhook_secret_handler
  <2>1. CASE CommitRotation
    <3>1. authorized' \in [Deliveries -> BOOLEAN]
      BY <2>1 DEF CommitRotation, Authorize
    <3>2. secret' \in 1 .. MaxSecrets
      BY <2>1 DEF CommitRotation, RotationFits
    <3> QED BY <2>1, <3>1, <3>2 DEF CommitRotation
  <2> QED
    BY <1>5, <2>1
       DEF rotate_webhook_secret_handler, rotate_webhook_secret_tx, AppendRotated, RollBackRotation
<1>6. CASE UNCHANGED vars
  BY <1>6 DEF vars
<1> QED BY <1>1, <1>2, <1>3, <1>4, <1>5, <1>6 DEF Next

LEMMA StepKeepsTheRest ==
    WebhooksInv /\ [Next]_vars
        => EventsAreSent' /\ KeysLetOnePast' /\ AdmissionIsOnRecord' /\ RotationIsLogged' /\ RotationFits'
<1> DEFINE Rest == EventsAreSent /\ KeysLetOnePast /\ AdmissionIsOnRecord /\ RotationIsLogged /\ RotationFits
<1> SUFFICES ASSUME WebhooksInv, [Next]_vars PROVE Rest'
  OBVIOUS
<1> USE DEF WebhooksInv, WebhooksTypeOK, EventsAreSent, KeysLetOnePast, AdmissionIsOnRecord,
            RotationIsLogged, RotationFits, Past, agent, Busy
<1>1. ASSUME NEW d \in Deliveries, Arrive(d) PROVE Rest'
  BY <1>1 DEF Arrive, Goto, Delivery
<1>2. ASSUME NEW d \in Deliveries, Drop(d) PROVE Rest'
  BY <1>2 DEF Drop, Goto
<1>3. ASSUME NEW d \in Deliveries, receive_webhook(d) PROVE Rest'
  <2>1. CASE GetAgent(d)
    BY <2>1 DEF GetAgent, Goto, Answer, verify_hmac
  <2>2. CASE InsertKey(d)
    BY <2>2 DEF InsertKey, Goto, Answer
  <2>3. CASE AppendEvent(d)
    BY <2>3 DEF AppendEvent, Goto, Answer
  <2>4. CASE Notify(d)
    BY <2>4 DEF Notify, Answer
  <2>5. CASE Fail(d)
    BY <2>5 DEF Fail, Answer
  <2> QED BY <1>3, <2>1, <2>2, <2>3, <2>4, <2>5 DEF receive_webhook
<1>4. ASSUME NEW enabled \in BOOLEAN, update_agent(enabled) PROVE Rest'
  BY <1>4 DEF update_agent, Authorize
<1>5. CASE rotate_webhook_secret_handler
  <2>1. CASE CommitRotation
    BY <2>1 DEF CommitRotation, Authorize
  <2>2. CASE rotate_webhook_secret_tx \/ AppendRotated \/ RollBackRotation
    BY <2>2 DEF rotate_webhook_secret_tx, AppendRotated, RollBackRotation
  <2> QED BY <1>5, <2>1, <2>2 DEF rotate_webhook_secret_handler
<1>6. CASE UNCHANGED vars
  BY <1>6 DEF vars
<1> QED BY <1>1, <1>2, <1>3, <1>4, <1>5, <1>6 DEF Next

LEMMA WebhooksInvariant == Spec => []WebhooksInv
<1>1. WebhooksInv /\ [Next]_vars => WebhooksInv'
  BY StepKeepsTypes, StepKeepsTheRest DEF WebhooksInv
<1> QED BY InitEstablishes, <1>1, PTL DEF Spec

\* The types of the row, of the log and of every handler, of any number of them.
THEOREM IngressTypeCorrect == Spec => []WebhooksTypeOK
BY WebhooksInvariant, PTL DEF WebhooksInv

\* AC-14 for any number of retries, racing, failing or dropped: at most one
\* webhook_received for an idempotency key.
THEOREM KeysDeliverOnce == Spec => []DeliveredAtMostOnce
<1>1. WebhooksInv => DeliveredAtMostOnce
  BY DEF WebhooksInv, WebhooksTypeOK, KeysLetOnePast, Past, DeliveredAtMostOnce
<1> QED BY WebhooksInvariant, <1>1, PTL

\* AC-24 for any number of rotations: no event for a delivery whose secret was retired,
\* or whose agent was disabled, all the time since it arrived.
THEOREM AcceptanceIsAuthorized == Spec => []AcceptedWasAuthorized
<1>1. WebhooksInv => AcceptedWasAuthorized
  BY DEF WebhooksInv, WebhooksTypeOK, AdmissionIsOnRecord, Past, AcceptedWasAuthorized
<1> QED BY WebhooksInvariant, <1>1, PTL

\* A new secret and its webhook_secret_rotated are committed together or not at all.
THEOREM RotationsAreLogged == Spec => []RotationIsLogged
BY WebhooksInvariant, PTL DEF WebhooksInv
=============================================================================
