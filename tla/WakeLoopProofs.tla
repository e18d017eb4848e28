--------------------------- MODULE WakeLoopProofs ---------------------------
(***************************************************************************)
(* Proofs about WakeLoop, for every request, mode, cap and limit.  Each    *)
(* invariant below says what is true at which statement of the loop; the   *)
(* property it is for follows from it.                                     *)
(***************************************************************************)
EXTENDS WakeLoopProperties, SequenceTheorems, FiniteSetTheorems, TLAPS

\* The statements between a call's tool_call event and its last.
CallPcs == {"mint", "authorize", "dispatch_tool", "resolve", "tool_result",
            "sleep_result", "increment_iteration"}

\* Those after its mint.
TicketPcs == CallPcs \ {"mint"}

\* The types, and that a call in hand is one of the response's and has its ticket.
TypeInv ==
    /\ TypeOK
    /\ pc \in CallPcs => left > 0 /\ call.request \in Requests
    /\ pc \in TicketPcs => call.ticket \in DOMAIN nonces

LEMMA EventIsTyped ==
    ASSUME TypeOK, NEW type \in EventTypes
    PROVE  /\ Number \in Nat
           /\ Event(type) \in [type : EventTypes, number : Nat]
           /\ Append(log, Event(type)) \in Seq([type : EventTypes, number : Nat])
<1>1. Number \in Nat BY DEF Number, TypeOK
<1>2. Event(type) \in [type : EventTypes, number : Nat] BY <1>1 DEF Event
<1> QED BY <1>1, <1>2 DEF TypeOK

\* An append leaves everything but the log alone.
LEMMA AppendTyped ==
    ASSUME TypeOK, NEW type \in EventTypes, AppendEvent(type)
    PROVE  log' \in Seq([type : EventTypes, number : Nat])
BY EventIsTyped DEF AppendEvent

LEMMA NoCallTyped == NoCall \in Calls
BY DEF NoCall, Calls, NoRequest

LEMMA RowsTyped ==
    ASSUME TypeOK, NEW name \in Names
    PROVE  /\ ActiveRows(name) \subseteq Nat
           /\ Active \subseteq Nat
<1>1. DOMAIN credentials \subseteq Nat BY DEF TypeOK, CredentialsTypeOK
<1> QED BY <1>1 DEF ActiveRows, Active

LEMMA TypeInvInit == Init => TypeInv
<1> SUFFICES ASSUME Init PROVE TypeInv OBVIOUS
<1>1. NoncesTypeOK BY EmptySeq, Zenon DEF Init, NoncesInit, NoncesTypeOK
<1>2. CredentialsTypeOK BY EmptySeq, Zenon DEF Init, CredentialsInit, CredentialsTypeOK
<1>3. log \in Seq([type : EventTypes, number : Nat]) BY EmptySeq, Zenon DEF Init
<1>4. wake \in 0 .. MaxWakes
  <2>1. wake = 0 BY DEF Init
  <2> QED BY <2>1, LoopAssumption
<1>5. call \in Calls BY NoCallTyped DEF Init
<1>6. /\ count \in Nat /\ attempts \in Nat /\ dispatched \in Nat /\ left \in Nat
      /\ pc = "idle" /\ reason = "" /\ effects = {} /\ modes = {} /\ live = {}
      /\ mode \in ModeStrings /\ current \in ModeStrings
  BY Zenon DEF Init
<1> QED BY <1>1, <1>2, <1>3, <1>4, <1>5, <1>6 DEF TypeInv, TypeOK, Pcs, Reasons, CallPcs, TicketPcs

\* A step that leaves the rows, the history and the call alone keeps their types.
LEMMA FrameTyped ==
    ASSUME TypeInv, UNCHANGED <<wake, row, call, effects, history, database>>,
           pc' \in Pcs, log' \in Seq([type : EventTypes, number : Nat]),
           current' \in ModeStrings, attempts' \in Nat, dispatched' \in Nat,
           left' \in Nat, reason' \in Reasons,
           pc' \in CallPcs => left' > 0 /\ call.request \in Requests,
           pc' \in TicketPcs => call.ticket \in DOMAIN nonces
    PROVE  TypeInv'
BY DEF TypeInv, TypeOK, NoncesTypeOK, CredentialsTypeOK, row, history, database

LEMMA EmitTyped ==
    ASSUME TypeInv, NEW at, NEW type \in EventTypes, NEW next \in Pcs, Emit(at, type, next),
           next \in CallPcs => at \in CallPcs, next \in TicketPcs => at \in TicketPcs
    PROVE  TypeInv'
<1>1. log' \in Seq([type : EventTypes, number : Nat])
  BY AppendTyped DEF Emit, TypeInv
<1> QED BY <1>1, FrameTyped DEF Emit, Go, TypeInv, TypeOK, round

LEMMA BreakTyped ==
    ASSUME TypeInv, NEW at, NEW why \in Reasons, Break(at, why),
           UNCHANGED <<wake, row, call, effects, history, database>>,
           log' \in Seq([type : EventTypes, number : Nat])
    PROVE  TypeInv'
<1>1. "wake_end" \in Pcs \ CallPcs BY DEF Pcs, CallPcs
<1> QED BY <1>1, FrameTyped DEF Break, Go, TypeInv, TypeOK, TicketPcs

LEMMA ReturnTyped ==
    ASSUME TypeInv, Return, UNCHANGED log \/ AppendEvent("wake_end")
    PROVE  TypeInv'
<1>1. log' \in Seq([type : EventTypes, number : Nat])
  BY AppendTyped DEF TypeInv, TypeOK, EventTypes
<1>2. "idle" \in Pcs \ CallPcs /\ "" \in Reasons BY DEF Pcs, CallPcs, Reasons
<1> QED BY <1>1, <1>2, NoCallTyped
        DEF Return, TypeInv, TypeOK, NoncesTypeOK, CredentialsTypeOK, row, database, TicketPcs

LEMMA RespondTyped ==
    ASSUME TypeInv, NEW next \in Pcs \ CallPcs, Respond(next), attempts' \in Nat, left' \in Nat
    PROVE  TypeInv'
BY FrameTyped DEF Respond, Go, TypeInv, TypeOK, TicketPcs

\* Consuming and expiring change flags; rows keep their wake and request.
LEMMA FlagsTyped ==
    ASSUME NoncesTypeOK, NEW n \in DOMAIN nonces,
           \/ nonces' = [nonces EXCEPT ![n].consumed = TRUE]
           \/ nonces' = [nonces EXCEPT ![n].expired = TRUE]
    PROVE  /\ NoncesTypeOK'
           /\ DOMAIN nonces' = DOMAIN nonces
<1>1. \A m \in DOMAIN nonces : nonces[m] \in NonceRows BY DEF NoncesTypeOK
<1>2. [nonces[n] EXCEPT !.consumed = TRUE] \in NonceRows BY <1>1 DEF NonceRows
<1>3. [nonces[n] EXCEPT !.expired = TRUE] \in NonceRows BY <1>1 DEF NonceRows
<1>4. PICK row0 \in NonceRows : nonces' = [nonces EXCEPT ![n] = row0]
  BY <1>2, <1>3
<1> QED BY <1>4 DEF NoncesTypeOK

LEMMA TypeInvNext == TypeInv /\ [Next]_vars => TypeInv'
<1> SUFFICES ASSUME TypeInv, [Next]_vars PROVE TypeInv'
  OBVIOUS
<1> USE DEF TypeInv, TicketPcs
<1>1. CASE BeginWake
  <2>1. log' \in Seq([type : EventTypes, number : Nat])
    BY <1>1, EmptySeq, Zenon DEF BeginWake
  <2> QED BY <1>1, <2>1, LoopAssumption
          DEF BeginWake, Go, TypeOK, NoncesTypeOK, CredentialsTypeOK, round, history,
              database, Pcs, CallPcs
<1>2. CASE StartEvents
  BY <1>2, EmitTyped DEF StartEvents, EventTypes, Pcs, CallPcs
<1>3. CASE Iterate
  BY <1>3 DEF Iterate, Go, TypeOK, NoncesTypeOK, CredentialsTypeOK, row, database, Pcs, CallPcs
<1>4. CASE HitIterationCap \/ ChatFails \/ EmptyResponse \/ Completed
  BY <1>4, BreakTyped
  DEF HitIterationCap, ChatFails, EmptyResponse, Completed, Reasons, TypeOK
<1>5. CASE PromptInjectionSuspected
  BY <1>5, BreakTyped, AppendTyped DEF PromptInjectionSuspected, Reasons, EventTypes
<1>6. CASE RateLimitExceeded
  BY <1>6, BreakTyped, AppendTyped DEF RateLimitExceeded, Reasons, EventTypes
<1>7. CASE ToolSleeps
  BY <1>7, BreakTyped, AppendTyped DEF ToolSleeps, Reasons, EventTypes
<1>8. CASE Chat
  BY <1>8, FrameTyped DEF Chat, Pcs, CallPcs, TypeOK, round
<1>9. CASE InvalidCalls \/ ValidCalls \/ TextOnly \/ Stop
  <2>1. {"schema_invalid", "calls", "assistant_message", "last_message", "completed"}
            \subseteq Pcs \ CallPcs
    BY DEF Pcs, CallPcs
  <2>2. attempts' \in Nat /\ left' \in Nat
    BY <1>9, LoopAssumption DEF InvalidCalls, ValidCalls, TextOnly, Stop, TypeOK
  <2> QED BY <1>9, <2>1, <2>2, RespondTyped
          DEF InvalidCalls, ValidCalls, TextOnly, Stop, WithOrWithoutText
<1>10. CASE SchemaInvalid
  <2>1. log' \in Seq([type : EventTypes, number : Nat])
    BY <1>10, AppendTyped DEF SchemaInvalid, EventTypes
  <2>2. pc' \in {"wake_end", "iterate"} /\ reason' \in Reasons /\ attempts' \in Nat
    <3>1. attempts' \in Nat BY <1>10 DEF SchemaInvalid, TypeOK
    <3>2. CASE attempts + 1 >= SchemaCap
      BY <1>10, <3>1, <3>2 DEF SchemaInvalid, Reasons
    <3>3. CASE ~(attempts + 1 >= SchemaCap)
      BY <1>10, <3>1, <3>3 DEF SchemaInvalid, TypeOK
    <3> QED BY <3>2, <3>3
  <2> QED BY <1>10, <2>1, <2>2, FrameTyped DEF SchemaInvalid, Pcs, CallPcs, TypeOK
<1>11. CASE AssistantMessage
  BY <1>11, EmitTyped DEF AssistantMessage, EventTypes, Pcs, CallPcs
<1>12. CASE BatchDone
  BY <1>12, FrameTyped DEF BatchDone, Go, Pcs, CallPcs, TypeOK, round
<1>13. CASE RecordToolCall
  <2>1. log' \in Seq([type : EventTypes, number : Nat])
    BY <1>13, AppendTyped DEF RecordToolCall, EventTypes
  <2>2. call' \in Calls /\ call'.request \in Requests
    <3>1. PICK request \in Requests :
              call' = [NoCall EXCEPT !.request = request, !.names = request.names]
      BY <1>13 DEF RecordToolCall
    <3>2. request.names \in SUBSET Names BY LoopAssumption
    <3> QED BY <3>1, <3>2 DEF NoCall, Calls
  <2> QED BY <1>13, <2>1, <2>2
          DEF RecordToolCall, Go, TypeOK, NoncesTypeOK, CredentialsTypeOK, row, round,
              history, database, Pcs, CallPcs
<1>14. CASE Mint
  <2>1. pc \in CallPcs BY <1>14 DEF Mint, Go, CallPcs
  <2>2. [wake |-> wake, request |-> call.request, consumed |-> FALSE, expired |-> FALSE]
            \in NonceRows
    BY <2>1, LoopAssumption DEF NonceRows, TypeOK
  <2>3. NoncesTypeOK' BY <1>14, <2>2 DEF Mint, mint, NoncesTypeOK, TypeOK
  <2>4. call' \in Calls /\ call'.request = call.request
    <3>1. Len(nonces') \in Nat BY <2>3 DEF NoncesTypeOK
    <3> QED BY <1>14, <3>1 DEF Mint, Calls, TypeOK
  <2>5. call'.ticket \in DOMAIN nonces'
    <3>1. Len(nonces') = Len(nonces) + 1 /\ DOMAIN nonces' = 1 .. Len(nonces')
      BY <1>14, <2>2, <2>3 DEF Mint, mint, NoncesTypeOK, TypeOK
    <3> QED BY <1>14, <3>1 DEF Mint, TypeOK, NoncesTypeOK, Calls
  <2> QED BY <1>14, <2>1, <2>3, <2>4, <2>5
          DEF Mint, Go, TypeOK, CredentialsTypeOK, row, round, history, Pcs, CallPcs
<1>15. CASE AuthorizeExecution
  BY <1>15, EmitTyped DEF AuthorizeExecution, EventTypes, Pcs, CallPcs
<1>16. CASE Denied \/ NonceRejected
  <2>1. log' \in Seq([type : EventTypes, number : Nat])
    BY <1>16, AppendTyped
    DEF Denied, NonceRejected, Refuse, AppendBestEffort, EventTypes, TypeOK
  <2> QED BY <1>16, <2>1, FrameTyped
          DEF Denied, NonceRejected, Refuse, Go, Pcs, CallPcs, TypeOK, round
<1>17. CASE Consume
  <2>1. NoncesTypeOK' /\ DOMAIN nonces' = DOMAIN nonces
    BY <1>17, FlagsTyped DEF Consume, consume, TypeOK, CallPcs
  <2>2. pc' \in {"resolve", "sleep_result", "tool_result"} BY <1>17 DEF Consume
  <2>3. live' \in SUBSET Nat
    BY <1>17, RowsTyped DEF Consume, Active
  <2> QED BY <1>17, <2>1, <2>2, <2>3
          DEF Consume, TypeOK, CredentialsTypeOK, row, round, Pcs, CallPcs
<1>18. CASE \E name \in Names : Resolve(name)
  <2>1. PICK name \in Names : Resolve(name) BY <1>18
  <2>2. call' \in Calls /\ call'.request = call.request
    BY <2>1, RowsTyped DEF Resolve, find_active, Calls, TypeOK
  <2> QED BY <2>1, <2>2
          DEF Resolve, TypeOK, NoncesTypeOK, CredentialsTypeOK, row, round, history, database,
              CallPcs
<1>19. CASE Unresolved
  <2>1. log' \in Seq([type : EventTypes, number : Nat])
    BY <1>19, AppendTyped DEF Unresolved, AppendBestEffort, EventTypes, TypeOK
  <2> QED BY <1>19, <2>1, FrameTyped DEF Unresolved, Go, Pcs, CallPcs, TypeOK, round
<1>20. CASE ExecuteShell
  <2>1. [number |-> Number, request |-> call.request, ticket |-> call.ticket,
         secrets |-> call.secrets, at |-> Len(log)] \in Effects
    BY <1>20 DEF ExecuteShell, Go, Effects, Number, TypeOK, Calls, CallPcs
  <2> QED BY <1>20, <2>1
          DEF ExecuteShell, Go, TypeOK, NoncesTypeOK, CredentialsTypeOK, row, round, history,
              database, Pcs, CallPcs
<1>21. CASE ToolReturns
  BY <1>21, EmitTyped DEF ToolReturns, EventTypes, Pcs, CallPcs
<1>22. CASE IncrementIteration
  BY <1>22, NoCallTyped
  DEF IncrementIteration, Go, TypeOK, NoncesTypeOK, CredentialsTypeOK, database, Pcs, CallPcs
<1>23. CASE EndWake \/ TaskFails
  BY <1>23, ReturnTyped DEF EndWake, TaskFails
<1>24. CASE SetMode
  BY <1>24 DEF SetMode, TypeOK, NoncesTypeOK, CredentialsTypeOK, round, database
<1>25. CASE NonceExpires
  <2>1. NoncesTypeOK' /\ DOMAIN nonces' = DOMAIN nonces
    BY <1>25, FlagsTyped DEF NonceExpires, expire, TypeOK, CallPcs
  <2> QED BY <1>25, <2>1 DEF NonceExpires, TypeOK, CredentialsTypeOK, row, round, history
<1>26. ASSUME NEW name \in Names, CreateCredential(name) PROVE TypeInv'
  <2>1. CredentialsTypeOK'
    BY <1>26 DEF CreateCredential, create, CredentialsTypeOK, TypeOK
  <2>2. live' \in SUBSET Nat
    <3>1. Len(credentials') \in Nat BY <2>1 DEF CredentialsTypeOK
    <3> QED BY <1>26, <3>1 DEF CreateCredential, TypeOK
  <2> QED BY <1>26, <2>1, <2>2 DEF CreateCredential, TypeOK, NoncesTypeOK, row, round
<1>27. ASSUME NEW name \in Names, RevokeCredential(name) PROVE TypeInv'
  <2>1. CredentialsTypeOK'
    <3> DEFINE Rows == [name : Names, revoked : BOOLEAN]
               n == Len(credentials)
    <3>1. n \in Nat /\ credentials \in [1 .. n -> Rows]
      BY LenProperties DEF TypeOK, CredentialsTypeOK
    <3>2. \A r \in DOMAIN credentials : [credentials[r] EXCEPT !.revoked = TRUE] \in Rows
      BY <3>1
    <3>3. credentials' \in [1 .. n -> Rows]
      BY <1>27, <3>1, <3>2 DEF RevokeCredential, revoke
    <3>4. Seq(Rows) = UNION {[1 .. k -> Rows] : k \in Nat} BY SeqDef
    <3>5. credentials' \in Seq(Rows) BY <3>1, <3>3, <3>4, Zenon
    <3> QED BY <3>5 DEF CredentialsTypeOK
  <2> QED BY <1>27, <2>1 DEF RevokeCredential, TypeOK, NoncesTypeOK, row, round, history
<1>28. CASE UNCHANGED vars
  BY <1>28 DEF vars, TypeOK, NoncesTypeOK, CredentialsTypeOK, row, round, history, database
<1> QED BY <1>1, <1>2, <1>3, <1>4, <1>5, <1>6, <1>7, <1>8, <1>9, <1>10, <1>11, <1>12, <1>13,
           <1>14, <1>15, <1>16, <1>17, <1>18, <1>19, <1>20, <1>21, <1>22, <1>23, <1>24,
           <1>25, <1>26, <1>27, <1>28 DEF Next, LoopStep

THEOREM TypeInvariant == Spec => []TypeInv
<1>1. Init => TypeInv BY TypeInvInit
<1>2. TypeInv /\ [Next]_vars => TypeInv' BY TypeInvNext
<1> QED BY <1>1, <1>2, PTL DEF Spec

\* Whatever request, mode and response come, the variables keep their types.
THEOREM TypeCorrect == Spec => []TypeOK
<1>1. TypeInv => TypeOK BY DEF TypeInv
<1> QED BY <1>1, TypeInvariant, PTL

-----------------------------------------------------------------------------
(* Steps by what they do to the log and to the call in hand.               *)

LocalStep ==
    \/ Iterate \/ HitIterationCap \/ ChatFails \/ Chat \/ EmptyResponse
    \/ InvalidCalls \/ ValidCalls \/ TextOnly \/ Stop \/ Completed \/ BatchDone

EventStep ==
    \/ StartEvents \/ PromptInjectionSuspected \/ SchemaInvalid \/ AssistantMessage
    \/ RateLimitExceeded

Outside == Pcs \ (CallPcs \cup {"idle"})

LEMMA LocalStepFrame ==
    ASSUME TypeInv, LocalStep
    PROVE  /\ UNCHANGED <<wake, count, dispatched, call, log, effects, live, nonces, credentials>>
           /\ pc \in Outside /\ pc' \in Outside
<1>1. UNCHANGED <<wake, count, dispatched, call, log, effects, live, nonces, credentials>>
  BY DEF LocalStep, Iterate, HitIterationCap, ChatFails, Chat, EmptyResponse, InvalidCalls,
         ValidCalls, TextOnly, Stop, Completed, BatchDone, Break, Respond, WithOrWithoutText,
         row, round, history, database
<1>2. pc \in Outside /\ pc' \in Outside
  BY DEF LocalStep, Iterate, HitIterationCap, ChatFails, Chat, EmptyResponse, InvalidCalls,
         ValidCalls, TextOnly, Stop, Completed, BatchDone, Break, Respond, WithOrWithoutText,
         Go, Outside, Pcs, CallPcs
<1> QED BY <1>1, <1>2

LEMMA EventStepFrame ==
    ASSUME TypeInv, EventStep
    PROVE  /\ UNCHANGED <<wake, count, dispatched, call, effects, live, nonces, credentials>>
           /\ pc \in Outside \ {"wake_end"} /\ pc' \in Outside
           /\ \E type \in EventTypes \ {"tool_call", "AuthorizeExecution", "wake_end"} :
                  AppendEvent(type)
<1>1. UNCHANGED <<wake, count, dispatched, call, effects, live, nonces, credentials>>
  BY DEF EventStep, StartEvents, PromptInjectionSuspected, SchemaInvalid, AssistantMessage,
         RateLimitExceeded, Emit, Break, row, round, history, database
<1>2. pc \in Outside \ {"wake_end"} /\ pc' \in Outside
  BY DEF EventStep, StartEvents, PromptInjectionSuspected, SchemaInvalid, AssistantMessage,
         RateLimitExceeded, Emit, Break, Go, Outside, Pcs, CallPcs
<1>3. \E type \in EventTypes \ {"tool_call", "AuthorizeExecution", "wake_end"} :
          AppendEvent(type)
  BY DEF EventStep, StartEvents, PromptInjectionSuspected, SchemaInvalid, AssistantMessage,
         RateLimitExceeded, Emit, EventTypes
<1> QED BY <1>1, <1>2, <1>3

LEMMA NoEvents == DOMAIN << >> = {}
OBVIOUS

\* What an append does to the log.
LEMMA Grown ==
    ASSUME TypeOK, NEW type \in EventTypes, AppendEvent(type)
    PROVE  /\ Len(log) \in Nat
           /\ DOMAIN log = 1 .. Len(log)
           /\ Len(log') = Len(log) + 1
           /\ DOMAIN log' = 1 .. Len(log) + 1
           /\ \A i \in 1 .. Len(log) : log'[i] = log[i]
           /\ log'[Len(log) + 1] = [type |-> type, number |-> Number]
BY EventIsTyped DEF AppendEvent, Event, TypeOK

LEMMA OldOrNew ==
    ASSUME TypeOK, NEW type \in EventTypes, AppendEvent(type), NEW i \in DOMAIN log'
    PROVE  \/ i \in DOMAIN log /\ log'[i] = log[i]
           \/ i = Len(log) + 1 /\ log'[i].type = type /\ log'[i].number = Number
<1>1. CASE i \in 1 .. Len(log) BY <1>1, Grown
<1>2. CASE i = Len(log) + 1
  <2>1. log'[Len(log) + 1] = [type |-> type, number |-> Number] BY Grown
  <2>2. log'[i] = [type |-> type, number |-> Number] BY <1>2, <2>1, Zenon
  <2> QED BY <1>2, <2>2
<1>3. i \in 1 .. Len(log) + 1 /\ Len(log) \in Nat BY Grown
<1> QED BY <1>1, <1>2, <1>3

-----------------------------------------------------------------------------
(* How many calls a wake records.                                          *)

BatchPcs == {"assistant_message", "calls"} \cup CallPcs

\* The row's counter is the loop's, and neither overruns the batch that began
\* below the cap.
CountInv ==
    /\ pc = "idle" => dispatched = 0
    /\ pc # "idle" => count = dispatched
    /\ pc \in {"chat", "suspected", "insert_llm_call", "schema_invalid"} => count < IterationCap
    /\ pc \in BatchPcs => count + left < IterationCap + MaxBatch

LEMMA CountInvNext == TypeInv /\ CountInv /\ [Next]_vars => CountInv'
<1> SUFFICES ASSUME TypeInv, CountInv, [Next]_vars PROVE CountInv'
  OBVIOUS
<1> USE LoopAssumption DEF TypeInv, CountInv, BatchPcs, CallPcs, Go
<1>0. count \in Nat /\ dispatched \in Nat /\ left \in Nat BY DEF TypeOK
<1>1. CASE LocalStep
  <2>1. CASE Iterate \/ HitIterationCap \/ ChatFails \/ Chat \/ EmptyResponse \/ BatchDone
    BY <1>0, <2>1, Z3
    DEF Iterate, HitIterationCap, ChatFails, Chat, EmptyResponse, BatchDone, Break, row, round
  <2>2. CASE InvalidCalls \/ ValidCalls \/ TextOnly \/ Stop \/ Completed
    BY <1>0, <2>2, Z3
    DEF InvalidCalls, ValidCalls, TextOnly, Stop, Completed, Break, Respond, WithOrWithoutText,
        row, round
  <2> QED BY <1>1, <2>1, <2>2 DEF LocalStep
<1>2. CASE EventStep
  BY <1>0, <1>2, Z3
  DEF EventStep, StartEvents, PromptInjectionSuspected, SchemaInvalid, AssistantMessage,
      RateLimitExceeded, Emit, Break, row, round
<1>3. CASE BeginWake
  BY <1>0, <1>3 DEF BeginWake, round
<1>4. CASE RecordToolCall \/ Mint \/ Denied \/ NonceRejected \/ Consume
  <2>1. UNCHANGED <<count, dispatched, left>>
    BY <1>4 DEF RecordToolCall, Mint, Denied, NonceRejected, Consume, Refuse, row, round
  <2>2. pc \in BatchPcs /\ pc' \in CallPcs
    BY <1>4 DEF RecordToolCall, Mint, Denied, NonceRejected, Consume, Refuse
  <2> QED BY <1>0, <2>1, <2>2
<1>5. CASE AuthorizeExecution \/ (\E name \in Names : Resolve(name)) \/ Unresolved
           \/ ExecuteShell \/ ToolReturns \/ ToolSleeps
  <2>1. UNCHANGED <<count, dispatched, left>>
    BY <1>5 DEF AuthorizeExecution, Resolve, Unresolved, ExecuteShell, ToolReturns, ToolSleeps,
                Emit, Break, row, round
  <2>2. pc \in BatchPcs /\ pc' \in CallPcs \cup {"wake_end"}
    BY <1>5 DEF AuthorizeExecution, Resolve, Unresolved, ExecuteShell, ToolReturns, ToolSleeps,
                Emit, Break
  <2> QED BY <1>0, <2>1, <2>2
<1>6. CASE IncrementIteration
  BY <1>0, <1>6 DEF IncrementIteration
<1>7. CASE EndWake \/ TaskFails
  BY <1>7 DEF EndWake, TaskFails, Return
<1>8. CASE SetMode \/ NonceExpires
           \/ \E name \in Names : CreateCredential(name) \/ RevokeCredential(name)
  BY <1>8 DEF SetMode, NonceExpires, CreateCredential, RevokeCredential, row, round
<1>9. CASE UNCHANGED vars
  BY <1>9 DEF vars, row, round
<1> QED BY <1>1, <1>2, <1>3, <1>4, <1>5, <1>6, <1>7, <1>8, <1>9
        DEF Next, LoopStep, LocalStep, EventStep

THEOREM CountInvariant == Spec => []CountInv
<1>1. Init => CountInv BY DEF Init, CountInv, BatchPcs, CallPcs
<1>2. TypeInv /\ CountInv /\ [Next]_vars => CountInv' BY CountInvNext
<1> QED BY <1>1, <1>2, TypeInvariant, PTL DEF Spec

\* Either the limit or the cap stops a wake that goes on calling tools, whatever
\* the model answers and however many calls it puts into one response.
THEOREM CallsBounded == Spec => []DispatchesBounded
<1>1. Init => DispatchesBounded
  <2> SUFFICES ASSUME Init PROVE DispatchesBounded OBVIOUS
  <2>1. log = << >> BY DEF Init
  <2> QED BY <2>1, NoEvents, Zenon DEF DispatchesBounded
<1>2. TypeInv /\ CountInv /\ DispatchesBounded /\ [Next]_vars => DispatchesBounded'
  <2> SUFFICES ASSUME TypeInv, CountInv, DispatchesBounded, [Next]_vars
               PROVE  DispatchesBounded'
    OBVIOUS
  <2> USE DEF DispatchesBounded, Is
  <2>0. TypeOK BY DEF TypeInv
  <2>1. CASE UNCHANGED log BY <2>1
  <2>2. CASE BeginWake
    <3>1. DOMAIN log' = {} BY <2>2, EmptySeq DEF BeginWake
    <3> QED BY <3>1
  <2>3. ASSUME NEW type \in EventTypes \ {"tool_call"}, AppendEvent(type)
        PROVE  DispatchesBounded'
    <3>1. \A i \in DOMAIN log' :
              (i \in DOMAIN log /\ log'[i] = log[i]) \/ log'[i].type = type
      BY <2>0, <2>3, OldOrNew
    <3> QED BY <3>1
  <2>4. CASE RecordToolCall
    <3>1. AppendEvent("tool_call") /\ "tool_call" \in EventTypes
      BY <2>4 DEF RecordToolCall, EventTypes
    <3>2. Number <= RateLimit /\ Number < IterationCap + MaxBatch
      BY <2>0, <2>4, LoopAssumption
      DEF RecordToolCall, Go, RateLimitReached, Number, CountInv, BatchPcs, TypeOK
    <3>3. \A i \in DOMAIN log' :
              (i \in DOMAIN log /\ log'[i] = log[i]) \/ log'[i].number = Number
      BY <2>0, <3>1, OldOrNew
    <3> QED BY <3>2, <3>3
  <2>5. CASE LocalStep BY <2>1, <2>5, LocalStepFrame
  <2>6. CASE EventStep BY <2>3, <2>6, EventStepFrame
  <2>7. CASE AuthorizeExecution \/ Denied \/ NonceRejected \/ Unresolved \/ ToolReturns
             \/ ToolSleeps \/ EndWake
    BY <2>1, <2>3, <2>7
    DEF AuthorizeExecution, Denied, NonceRejected, Refuse, Unresolved, ToolReturns, ToolSleeps,
        EndWake, AppendBestEffort, Emit, EventTypes
  <2>8. CASE Mint \/ Consume \/ (\E name \in Names : Resolve(name)) \/ ExecuteShell
             \/ IncrementIteration \/ TaskFails
    BY <2>1, <2>8 DEF Mint, Consume, Resolve, ExecuteShell, IncrementIteration, TaskFails
  <2>9. CASE SetMode \/ NonceExpires
             \/ \E name \in Names : CreateCredential(name) \/ RevokeCredential(name)
    BY <2>1, <2>9 DEF SetMode, NonceExpires, CreateCredential, RevokeCredential
  <2>10. CASE UNCHANGED vars BY <2>1, <2>10 DEF vars
  <2> QED BY <2>2, <2>4, <2>5, <2>6, <2>7, <2>8, <2>9, <2>10
          DEF Next, LoopStep, LocalStep, EventStep
<1> QED BY <1>1, <1>2, TypeInvariant, CountInvariant, PTL DEF Spec

-----------------------------------------------------------------------------
(* Every command is in the log before it runs.                             *)

AuthorizedPcs == CallPcs \ {"mint", "authorize"}

EffectInv ==
    /\ EffectsAreLogged
    /\ \A e \in effects : e.at <= Len(log)
    /\ pc \in CallPcs => \E i \in 1 .. Len(log) : IsOf(i, "tool_call", Number)
    /\ pc \in AuthorizedPcs => LoggedBefore(Len(log), Number)
    /\ pc # "idle" =>
           \A e \in effects : \/ e.number < Number
                              \/ e.number = Number /\ pc \in {"tool_result", "increment_iteration"}

LogGrows == UNCHANGED log \/ \E type \in EventTypes : AppendEvent(type)

LEMMA LogPrefix ==
    ASSUME TypeOK, LogGrows
    PROVE  /\ Len(log) \in Nat /\ Len(log') \in Nat
           /\ Len(log) <= Len(log')
           /\ \A i \in 1 .. Len(log) : log'[i] = log[i]
<1>1. CASE UNCHANGED log BY <1>1 DEF TypeOK
<1>2. ASSUME NEW type \in EventTypes, AppendEvent(type)
      PROVE  /\ Len(log) \in Nat /\ Len(log') \in Nat
             /\ Len(log) <= Len(log')
             /\ \A i \in 1 .. Len(log) : log'[i] = log[i]
  <2>1. /\ Len(log) \in Nat /\ Len(log') = Len(log) + 1
        /\ \A i \in 1 .. Len(log) : log'[i] = log[i]
    BY <1>2, Grown
  <2> QED BY <2>1
<1> QED BY <1>1, <1>2 DEF LogGrows

LEMMA LoggedKept ==
    ASSUME TypeOK, LogGrows, NEW n \in Nat, n <= Len(log), NEW number, LoggedBefore(n, number)
    PROVE  LoggedBefore(n, number)' /\ LoggedBefore(Len(log), number)
<1>1. PICK i, j \in 1 .. n :
          i < j /\ IsOf(i, "tool_call", number) /\ IsOf(j, "AuthorizeExecution", number)
  BY DEF LoggedBefore
<1>2. i \in 1 .. Len(log) /\ j \in 1 .. Len(log) BY LogPrefix
<1>3. log'[i] = log[i] /\ log'[j] = log[j] BY <1>2, LogPrefix
<1> QED BY <1>1, <1>2, <1>3 DEF LoggedBefore, IsOf

\* The part of EffectInv about the commands that have run.
LEMMA EffectsKept ==
    ASSUME TypeOK, LogGrows, EffectInv, UNCHANGED effects
    PROVE  EffectsAreLogged' /\ \A e \in effects' : e.at <= Len(log')
<1>1. \A e \in effects : e.at \in Nat BY DEF TypeOK, Effects
<1>2. \A e \in effects : LoggedBefore(e.at, e.number)'
  BY <1>1, LoggedKept DEF EffectInv, EffectsAreLogged
<1>3. \A e \in effects : e.at <= Len(log')
  BY <1>1, LogPrefix DEF EffectInv
<1> QED BY <1>2, <1>3 DEF EffectInv, EffectsAreLogged

\* And the part about the call in hand.
LEMMA CallKept ==
    ASSUME TypeOK, LogGrows, EffectInv, UNCHANGED dispatched
    PROVE  /\ pc \in CallPcs => (\E i \in 1 .. Len(log) : IsOf(i, "tool_call", Number))'
           /\ pc \in AuthorizedPcs => LoggedBefore(Len(log), Number)'
<1>1. Number' = Number BY DEF Number
<1>2. ASSUME NEW i \in 1 .. Len(log), IsOf(i, "tool_call", Number)
      PROVE  (\E k \in 1 .. Len(log) : IsOf(k, "tool_call", Number))'
  <2>1. i \in 1 .. Len(log') BY LogPrefix
  <2>2. log'[i] = log[i] BY LogPrefix
  <2> QED BY <1>1, <1>2, <2>1, <2>2 DEF IsOf
<1>3. ASSUME NEW i \in 1 .. Len(log), NEW j \in 1 .. Len(log), i < j,
             IsOf(i, "tool_call", Number), IsOf(j, "AuthorizeExecution", Number)
      PROVE  LoggedBefore(Len(log), Number)'
  <2>1. i \in 1 .. Len(log') /\ j \in 1 .. Len(log') BY LogPrefix
  <2>2. log'[i] = log[i] /\ log'[j] = log[j] BY LogPrefix
  <2> QED BY <1>1, <1>3, <2>1, <2>2 DEF IsOf, LoggedBefore
<1> QED BY <1>2, <1>3 DEF EffectInv, LoggedBefore

\* Steps that neither begin a wake nor append anything the call in hand needs.
LEMMA LogSteps ==
    ASSUME TypeInv, Next, ~BeginWake
    PROVE  LogGrows
<1>1. CASE LocalStep BY <1>1, LocalStepFrame DEF LogGrows
<1>2. CASE EventStep BY <1>2, EventStepFrame DEF LogGrows
<1>3. CASE RecordToolCall \/ AuthorizeExecution \/ Denied \/ NonceRejected \/ Unresolved
           \/ ToolReturns \/ ToolSleeps \/ EndWake
  BY <1>3
  DEF RecordToolCall, AuthorizeExecution, Denied, NonceRejected, Refuse, Unresolved, ToolReturns,
      ToolSleeps, EndWake, AppendBestEffort, Emit, EventTypes, LogGrows
<1>4. CASE Mint \/ Consume \/ (\E name \in Names : Resolve(name)) \/ ExecuteShell
           \/ IncrementIteration \/ TaskFails
  BY <1>4 DEF Mint, Consume, Resolve, ExecuteShell, IncrementIteration, TaskFails, LogGrows
<1>5. CASE SetMode \/ NonceExpires
           \/ \E name \in Names : CreateCredential(name) \/ RevokeCredential(name)
  BY <1>5 DEF SetMode, NonceExpires, CreateCredential, RevokeCredential, LogGrows
<1> QED BY <1>1, <1>2, <1>3, <1>4, <1>5 DEF Next, LoopStep, LocalStep, EventStep

LEMMA EffectInvNext == TypeInv /\ EffectInv /\ [Next]_vars => EffectInv'
<1> SUFFICES ASSUME TypeInv, EffectInv, [Next]_vars PROVE EffectInv'
  OBVIOUS
<1>0. /\ TypeOK /\ Number \in Nat /\ Len(log) \in Nat
      /\ \A e \in effects : e.number \in Nat /\ e.at \in Nat
  BY EventIsTyped DEF TypeInv, TypeOK, Effects, Number
<1>1. CASE LocalStep \/ EventStep
  <2>1. LogGrows
    BY <1>1, LocalStepFrame, EventStepFrame DEF LogGrows
  <2>2. UNCHANGED <<dispatched, effects>> /\ pc' \in Outside /\ pc \in Outside
    BY <1>1, LocalStepFrame, EventStepFrame
  <2> QED BY <1>0, <2>1, <2>2, EffectsKept
          DEF EffectInv, Outside, Number, CallPcs, AuthorizedPcs
<1>2. CASE BeginWake
  BY <1>2 DEF BeginWake, Go, EffectInv, EffectsAreLogged, CallPcs, AuthorizedPcs
<1>3. CASE RecordToolCall
  <2>1. AppendEvent("tool_call") /\ "tool_call" \in EventTypes
    BY <1>3 DEF RecordToolCall, EventTypes
  <2>2. UNCHANGED <<dispatched, effects>> /\ pc = "calls" /\ pc' = "mint"
    BY <1>3 DEF RecordToolCall, Go, round
  <2>3. (\E i \in 1 .. Len(log) : IsOf(i, "tool_call", Number))'
    <3>1. /\ Len(log') = Len(log) + 1
          /\ log'[Len(log) + 1] = [type |-> "tool_call", number |-> Number]
      BY <1>0, <2>1, Grown
    <3>2. Number' = Number /\ Len(log) + 1 \in 1 .. Len(log')
      BY <1>0, <2>2, <3>1 DEF Number
    <3> QED BY <3>1, <3>2 DEF IsOf
  <2>4. EffectsAreLogged' /\ \A e \in effects' : e.at <= Len(log')
    BY <1>0, <2>1, <2>2, EffectsKept DEF LogGrows
  <2>5. \A e \in effects' : e.number < Number'
    BY <1>0, <2>2 DEF EffectInv, Number
  <2>6. pc' \notin AuthorizedPcs
    BY <2>2 DEF AuthorizedPcs
  <2> QED BY <2>3, <2>4, <2>5, <2>6 DEF EffectInv
<1>4. CASE AuthorizeExecution
  <2>1. AppendEvent("AuthorizeExecution") /\ "AuthorizeExecution" \in EventTypes
    BY <1>4 DEF AuthorizeExecution, Emit, EventTypes
  <2>2. /\ UNCHANGED <<dispatched, effects>>
        /\ pc = "authorize" /\ pc' = "dispatch_tool" /\ Number' = Number
    BY <1>4 DEF AuthorizeExecution, Emit, Go, round, Number
  <2>3. LogGrows BY <2>1 DEF LogGrows
  <2>4. LoggedBefore(Len(log), Number)'
    <3>1. PICK i \in 1 .. Len(log) : IsOf(i, "tool_call", Number)
      BY <2>2 DEF EffectInv, CallPcs
    <3>2. /\ Len(log') = Len(log) + 1 /\ log'[i] = log[i]
          /\ log'[Len(log) + 1] = [type |-> "AuthorizeExecution", number |-> Number]
      BY <1>0, <2>1, Grown
    <3>3. i \in 1 .. Len(log') /\ Len(log) + 1 \in 1 .. Len(log') /\ i < Len(log) + 1
      BY <1>0, <3>2
    <3> QED BY <2>2, <3>1, <3>2, <3>3 DEF LoggedBefore, IsOf
  <2>5. EffectsAreLogged' /\ \A e \in effects' : e.at <= Len(log')
    BY <1>0, <2>2, <2>3, EffectsKept
  <2>6. (\E i \in 1 .. Len(log) : IsOf(i, "tool_call", Number))'
    BY <1>0, <2>2, <2>3, CallKept DEF CallPcs
  <2> QED BY <2>2, <2>4, <2>5, <2>6 DEF EffectInv
<1>5. CASE Mint \/ Denied \/ NonceRejected \/ Consume \/ (\E name \in Names : Resolve(name))
           \/ Unresolved \/ ToolReturns \/ ToolSleeps
  <2>1. UNCHANGED <<dispatched, effects>> /\ Number' = Number
    BY <1>5
    DEF Mint, Denied, NonceRejected, Refuse, Consume, Resolve, Unresolved, ToolReturns,
        ToolSleeps, Emit, Break, round, Number
  <2>2. LogGrows
    <3>1. Next BY <1>5 DEF Next, LoopStep
    <3>2. pc # "idle"
      BY <1>5 DEF Mint, Denied, NonceRejected, Refuse, Consume, Resolve, Unresolved, ToolReturns,
                  ToolSleeps, Emit, Break, Go
    <3> QED BY <3>1, <3>2, LogSteps DEF BeginWake, Go
  <2>3. \/ pc = "mint" /\ pc' = "authorize"
        \/ pc \in {"dispatch_tool", "resolve", "tool_result"}
           /\ pc' \in {"resolve", "tool_result", "sleep_result", "increment_iteration"}
           /\ (pc = "tool_result" => pc' = "increment_iteration")
        \/ pc = "sleep_result" /\ pc' = "wake_end"
    BY <1>5 DEF Mint, Denied, NonceRejected, Refuse, Consume, Resolve, Unresolved, ToolReturns,
                ToolSleeps, Emit, Break, Go
  <2>4. EffectsAreLogged' /\ \A e \in effects' : e.at <= Len(log')
    BY <1>0, <2>1, <2>2, EffectsKept
  <2>5. pc' \in CallPcs => (\E i \in 1 .. Len(log) : IsOf(i, "tool_call", Number))'
    BY <1>0, <2>1, <2>2, <2>3, CallKept DEF CallPcs
  <2>6. pc' \in AuthorizedPcs => LoggedBefore(Len(log), Number)'
    BY <1>0, <2>1, <2>2, <2>3, CallKept DEF CallPcs, AuthorizedPcs
  <2> QED BY <2>1, <2>3, <2>4, <2>5, <2>6 DEF EffectInv
<1>6. CASE ExecuteShell
  <2> DEFINE e0 == [number |-> Number, request |-> call.request, ticket |-> call.ticket,
                    secrets |-> call.secrets, at |-> Len(log)]
  <2>1. /\ UNCHANGED <<dispatched, log>> /\ effects' = effects \cup {e0}
        /\ pc = "resolve" /\ pc' = "tool_result"
    BY <1>6 DEF ExecuteShell, Go, round
  <2>2. LoggedBefore(Len(log), Number) /\ \A e \in effects : e.number < Number
    BY <2>1 DEF EffectInv, CallPcs, AuthorizedPcs
  <2>3. \A e \in effects' : LoggedBefore(e.at, e.number)
    BY <2>1, <2>2 DEF EffectInv, EffectsAreLogged
  <2>4. \A e, f \in effects' : e.number = f.number => e = f
    BY <1>0, <2>1, <2>2 DEF EffectInv, EffectsAreLogged
  <2>5. EffectsAreLogged'
    BY <2>1, <2>3, <2>4 DEF EffectsAreLogged, LoggedBefore, IsOf
  <2>6. \A e \in effects' : e.at <= Len(log')
    BY <1>0, <2>1 DEF EffectInv
  <2>7. /\ (\E i \in 1 .. Len(log) : IsOf(i, "tool_call", Number))'
        /\ LoggedBefore(Len(log), Number)'
    BY <2>1 DEF EffectInv, CallPcs, AuthorizedPcs, LoggedBefore, IsOf, Number
  <2>8. \A e \in effects' : e.number < Number' \/ (e.number = Number' /\ pc' = "tool_result")
    BY <2>1, <2>2 DEF Number
  <2> QED BY <2>1, <2>5, <2>6, <2>7, <2>8 DEF EffectInv
<1>7. CASE IncrementIteration
  <2>1. /\ UNCHANGED <<effects, log>> /\ Number' = Number + 1
        /\ pc = "increment_iteration" /\ pc' = "calls"
    BY <1>0, <1>7 DEF IncrementIteration, Go, Number, TypeOK
  <2>2. EffectsAreLogged' /\ \A e \in effects' : e.at <= Len(log')
    BY <1>0, <2>1, EffectsKept DEF LogGrows
  <2> QED BY <1>0, <2>1, <2>2 DEF EffectInv, CallPcs, AuthorizedPcs
<1>8. CASE EndWake \/ TaskFails
  <2>1. pc' = "idle" /\ UNCHANGED effects
    BY <1>8 DEF EndWake, TaskFails, Return
  <2>2. LogGrows
    BY <1>8 DEF EndWake, TaskFails, LogGrows, EventTypes
  <2> QED BY <1>0, <2>1, <2>2, EffectsKept DEF EffectInv, CallPcs, AuthorizedPcs
<1>9. CASE SetMode \/ NonceExpires \/ UNCHANGED vars
           \/ \E name \in Names : CreateCredential(name) \/ RevokeCredential(name)
  <2>1. UNCHANGED <<pc, dispatched, effects, log>>
    BY <1>9 DEF SetMode, NonceExpires, CreateCredential, RevokeCredential, vars, round
  <2> QED BY <2>1 DEF EffectInv, EffectsAreLogged, LoggedBefore, IsOf, Number
<1> QED BY <1>1, <1>2, <1>3, <1>4, <1>5, <1>6, <1>7, <1>8, <1>9
        DEF Next, LoopStep, LocalStep, EventStep

\* Whatever fails and whatever the model asks for, no command runs that the event
\* log does not hold a tool_call and an AuthorizeExecution of.
THEOREM EffectsLogged == Spec => []EffectsAreLogged
<1>1. Init => EffectInv
  BY DEF Init, EffectInv, EffectsAreLogged, CallPcs, AuthorizedPcs
<1>2. TypeInv /\ EffectInv /\ [Next]_vars => EffectInv' BY EffectInvNext
<1>3. EffectInv => EffectsAreLogged BY DEF EffectInv
<1> QED BY <1>1, <1>2, <1>3, TypeInvariant, PTL DEF Spec

-----------------------------------------------------------------------------
(* The gate decides on a mode of this round.                               *)

\* The statements of a round that has read the agent's row.
RoundPcs == CallPcs \cup {"chat", "suspected", "insert_llm_call", "schema_invalid",
                          "assistant_message", "last_message", "completed", "calls"}

GateInv ==
    /\ pc \in RoundPcs => current \in modes
    /\ pc = "resolve" => mode_allows(current, call.request.tool)

\* Steps that neither read the row, nor pass the gate, nor change the mode.
LEMMA GateKept ==
    ASSUME GateInv, UNCHANGED <<current, modes>>, pc' \in RoundPcs => pc \in RoundPcs,
           pc' = "resolve" => pc = "resolve" /\ call'.request = call.request
    PROVE  GateInv'
BY DEF GateInv, mode_allows

LEMMA GateInvNext == TypeInv /\ GateInv /\ [Next]_vars => GateInv'
<1> SUFFICES ASSUME TypeInv, GateInv, [Next]_vars PROVE GateInv'
  OBVIOUS
<1>1. CASE BeginWake
  BY <1>1 DEF BeginWake, Go, GateInv, RoundPcs, CallPcs
<1>2. CASE Iterate
  BY <1>2 DEF Iterate, Go, GateInv
<1>3. CASE StartEvents \/ HitIterationCap \/ Chat \/ ChatFails
           \/ PromptInjectionSuspected \/ EmptyResponse \/ InvalidCalls \/ ValidCalls
           \/ TextOnly \/ Stop \/ SchemaInvalid \/ AssistantMessage \/ Completed
           \/ BatchDone \/ RateLimitExceeded \/ RecordToolCall \/ Mint \/ AuthorizeExecution
  <2>1. UNCHANGED <<current, modes>>
    BY <1>3
    DEF StartEvents, HitIterationCap, Chat, ChatFails, PromptInjectionSuspected,
        EmptyResponse, InvalidCalls, ValidCalls, TextOnly, Stop, SchemaInvalid,
        AssistantMessage, Completed, BatchDone, RateLimitExceeded, RecordToolCall, Mint,
        AuthorizeExecution, Emit, Break, Respond, WithOrWithoutText, round, history
  <2>2. pc' # "resolve" /\ (pc' \in RoundPcs => pc \in RoundPcs)
    BY <1>3
    DEF StartEvents, HitIterationCap, Chat, ChatFails, PromptInjectionSuspected,
        EmptyResponse, InvalidCalls, ValidCalls, TextOnly, Stop, SchemaInvalid,
        AssistantMessage, Completed, BatchDone, RateLimitExceeded, RecordToolCall, Mint,
        AuthorizeExecution, Emit, Break, Respond, WithOrWithoutText, Go, RoundPcs, CallPcs
  <2> QED BY <2>1, <2>2, GateKept
<1>4. CASE Denied \/ NonceRejected \/ Unresolved \/ ExecuteShell \/ ToolReturns \/ ToolSleeps
           \/ IncrementIteration
  BY <1>4, GateKept
  DEF Denied, NonceRejected, Refuse, Unresolved, ExecuteShell, ToolReturns, ToolSleeps,
      IncrementIteration, Emit, Break, Go, round, history, RoundPcs, CallPcs
<1>5. CASE Consume
  <2>1. UNCHANGED <<current, modes, call>> /\ pc = "dispatch_tool"
    BY <1>5 DEF Consume, round
  <2> QED BY <1>5, <2>1 DEF Consume, GateInv, RoundPcs, CallPcs, mode_allows
<1>6. CASE \E name \in Names : Resolve(name)
  <2>1. UNCHANGED <<current, modes, pc>> /\ call'.request = call.request
    BY <1>6 DEF Resolve, round, history, TypeInv, TypeOK, Calls
  <2> QED BY <2>1, GateKept
<1>7. CASE EndWake \/ TaskFails
  BY <1>7 DEF EndWake, TaskFails, Return, GateInv, RoundPcs, CallPcs
<1>8. CASE SetMode
  <2>1. UNCHANGED <<pc, current, call>> BY <1>8 DEF SetMode, round
  <2>2. pc \in RoundPcs => modes \subseteq modes'
    BY <1>8 DEF SetMode, RoundPcs, CallPcs
  <2> QED BY <2>1, <2>2 DEF GateInv, mode_allows
<1>9. CASE NonceExpires \/ UNCHANGED vars
           \/ \E name \in Names : CreateCredential(name) \/ RevokeCredential(name)
  BY <1>9, GateKept
  DEF NonceExpires, CreateCredential, RevokeCredential, vars, round, history
<1> QED BY <1>1, <1>2, <1>3, <1>4, <1>5, <1>6, <1>7, <1>8, <1>9 DEF Next, LoopStep

\* However the operator changes the mode during the round, a command about to run was
\* allowed by a mode that held since the round began.
THEOREM GateIsRecent == Spec => []GateUsesARecentMode
<1>1. Init => GateInv BY DEF Init, GateInv, RoundPcs, CallPcs
<1>2. TypeInv /\ GateInv /\ [Next]_vars => GateInv' BY GateInvNext
<1>3. GateInv => GateUsesARecentMode BY DEF GateInv, GateUsesARecentMode, RoundPcs, CallPcs
<1> QED BY <1>1, <1>2, <1>3, TypeInvariant, PTL DEF Spec

-----------------------------------------------------------------------------
(* A command spends a nonce of its own.                                    *)

UnspentPcs == {"authorize", "dispatch_tool"}

NonceInv ==
    /\ NonceGuardsEffect
    /\ pc \in UnspentPcs => ~nonces[call.ticket].consumed
    /\ pc = "resolve" =>
           nonces[call.ticket] = [wake |-> wake, request |-> call.request,
                                  consumed |-> TRUE, expired |-> FALSE]
    /\ pc \in UnspentPcs \cup {"resolve"} => \A e \in effects : e.ticket # call.ticket

\* Steps that leave the table and the ticket in hand alone.
LEMMA NoncesKept ==
    ASSUME NonceInv, UNCHANGED <<wake, nonces, effects>>,
           pc' \in UnspentPcs =>
               pc \in UnspentPcs /\ call'.ticket = call.ticket,
           pc' = "resolve" =>
               pc = "resolve" /\ call'.ticket = call.ticket /\ call'.request = call.request
    PROVE  NonceInv'
BY DEF NonceInv, NonceGuardsEffect

\* Steps that change no row but that of the ticket in hand, which is unspent.
LEMMA OtherRowsKept ==
    ASSUME NonceInv, pc \in UnspentPcs, UNCHANGED <<wake, effects>>,
           DOMAIN nonces' = DOMAIN nonces,
           \A n \in DOMAIN nonces : n # call.ticket => nonces'[n] = nonces[n]
    PROVE  NonceGuardsEffect'
BY DEF NonceInv, NonceGuardsEffect

LEMMA NonceInvNext == TypeInv /\ NonceInv /\ [Next]_vars => NonceInv'
<1> SUFFICES ASSUME TypeInv, NonceInv, [Next]_vars PROVE NonceInv'
  OBVIOUS
<1>0. TypeOK BY DEF TypeInv
<1>1. CASE LocalStep \/ EventStep
  <2>1. UNCHANGED <<wake, nonces, effects>> /\ pc' \in Outside
    BY <1>1, LocalStepFrame, EventStepFrame
  <2> QED BY <2>1, NoncesKept DEF Outside, CallPcs, UnspentPcs
<1>2. CASE BeginWake
  BY <1>2 DEF BeginWake, Go, NonceInv, NonceGuardsEffect, UnspentPcs
<1>3. CASE RecordToolCall \/ Denied \/ NonceRejected \/ Unresolved \/ ToolReturns \/ ToolSleeps
           \/ IncrementIteration \/ EndWake \/ TaskFails
  <2>1. UNCHANGED <<wake, nonces, effects>>
    BY <1>3
    DEF RecordToolCall, Denied, NonceRejected, Refuse, Unresolved, ToolReturns, ToolSleeps,
        IncrementIteration, EndWake, TaskFails, Return, Emit, Break, database
  <2>2. pc' \notin UnspentPcs \cup {"resolve"}
    BY <1>3
    DEF RecordToolCall, Denied, NonceRejected, Refuse, Unresolved, ToolReturns, ToolSleeps,
        IncrementIteration, EndWake, TaskFails, Return, Emit, Break, Go, UnspentPcs
  <2> QED BY <2>1, <2>2, NoncesKept
<1>4. CASE Mint
  <2> DEFINE new == [wake |-> wake, request |-> call.request,
                     consumed |-> FALSE, expired |-> FALSE]
  <2>1. /\ UNCHANGED <<wake, effects>> /\ pc' = "authorize"
        /\ nonces' = Append(nonces, new) /\ call'.ticket = Len(nonces')
    BY <1>0, <1>4 DEF Mint, mint, Go, TypeOK, Calls
  <2>2. pc \in CallPcs /\ new \in NonceRows
    <3>1. pc \in CallPcs BY <1>4 DEF Mint, Go, CallPcs
    <3>2. call.request \in Requests /\ wake \in Nat
      BY <1>0, <3>1, LoopAssumption DEF TypeInv, TypeOK
    <3> QED BY <3>1, <3>2 DEF NonceRows
  <2>3. /\ Len(nonces) \in Nat /\ Len(nonces') = Len(nonces) + 1
        /\ DOMAIN nonces = 1 .. Len(nonces) /\ DOMAIN nonces' = 1 .. Len(nonces) + 1
        /\ \A n \in 1 .. Len(nonces) : nonces'[n] = nonces[n]
        /\ nonces'[Len(nonces) + 1] = new
    BY <1>0, <2>1, <2>2 DEF TypeOK, NoncesTypeOK
  <2>4. NonceGuardsEffect'
    BY <2>1, <2>3 DEF NonceInv, NonceGuardsEffect
  <2>5. ~nonces'[call'.ticket].consumed BY <2>1, <2>3
  <2>6. \A e \in effects : e.ticket # call'.ticket
    <3>1. \A e \in effects : e.ticket \in 1 .. Len(nonces)
      BY <2>3 DEF NonceInv, NonceGuardsEffect
    <3>2. call'.ticket = Len(nonces) + 1 BY <2>1, <2>3
    <3> QED BY <2>3, <3>1, <3>2
  <2> QED BY <2>1, <2>4, <2>5, <2>6 DEF NonceInv, UnspentPcs
<1>5. CASE AuthorizeExecution
  BY <1>5, NoncesKept DEF AuthorizeExecution, Emit, Go, database, UnspentPcs
<1>6. CASE Consume
  <2>1. /\ UNCHANGED <<wake, effects, call>> /\ pc = "dispatch_tool"
        /\ pc' \in {"resolve", "sleep_result", "tool_result"}
        /\ Redeemable(call.ticket, wake, call.request)
        /\ nonces' = [nonces EXCEPT ![call.ticket].consumed = TRUE]
    BY <1>6 DEF Consume, consume
  <2>2. call.ticket \in DOMAIN nonces /\ nonces[call.ticket] \in NonceRows
    BY <1>0, <2>1 DEF TypeInv, TicketPcs, CallPcs, TypeOK, NoncesTypeOK
  <2>3. NonceGuardsEffect' BY <2>1, OtherRowsKept DEF UnspentPcs
  <2>4. nonces'[call.ticket] = [wake |-> wake, request |-> call.request,
                                consumed |-> TRUE, expired |-> FALSE]
    BY <2>1, <2>2 DEF Redeemable, NonceRows
  <2> QED BY <2>1, <2>3, <2>4 DEF NonceInv, UnspentPcs
<1>7. CASE \E name \in Names : Resolve(name)
  <2>1. /\ UNCHANGED <<wake, nonces, effects, pc>>
        /\ call'.ticket = call.ticket /\ call'.request = call.request
    BY <1>0, <1>7 DEF Resolve, database, TypeOK, Calls
  <2> QED BY <2>1, NoncesKept
<1>8. CASE ExecuteShell
  <2> DEFINE e0 == [number |-> Number, request |-> call.request, ticket |-> call.ticket,
                    secrets |-> call.secrets, at |-> Len(log)]
  <2>1. /\ UNCHANGED <<wake, nonces>> /\ effects' = effects \cup {e0}
        /\ pc = "resolve" /\ pc' = "tool_result"
    BY <1>8 DEF ExecuteShell, Go, database
  <2>2. /\ call.ticket \in DOMAIN nonces
        /\ \A e \in effects : e.ticket # call.ticket
    BY <2>1 DEF TypeInv, TicketPcs, CallPcs, NonceInv
  <2>3. \A e \in effects' : e \in effects \/ e = e0 BY <2>1
  <2>4. /\ e0.ticket = call.ticket
        /\ nonces[e0.ticket] = [wake |-> wake, request |-> e0.request,
                                consumed |-> TRUE, expired |-> FALSE]
    BY <2>1 DEF NonceInv
  <2> HIDE DEF e0
  <2>5. ASSUME NEW e \in effects'
        PROVE  /\ e.ticket \in DOMAIN nonces
               /\ nonces[e.ticket] = [wake |-> wake, request |-> e.request,
                                      consumed |-> TRUE, expired |-> FALSE]
    BY <2>2, <2>3, <2>4 DEF NonceInv, NonceGuardsEffect
  <2>6. \A e, f \in effects' : e.ticket = f.ticket => e = f
    BY <2>2, <2>3, <2>4 DEF NonceInv, NonceGuardsEffect
  <2>7. NonceGuardsEffect' BY <2>1, <2>5, <2>6 DEF NonceGuardsEffect
  <2> QED BY <2>1, <2>7 DEF NonceInv, UnspentPcs
<1>9. CASE NonceExpires
  <2>1. /\ UNCHANGED <<wake, effects, call, pc>> /\ pc \in UnspentPcs
        /\ nonces' = [nonces EXCEPT ![call.ticket].expired = TRUE]
    BY <1>9 DEF NonceExpires, expire, UnspentPcs
  <2>2. call.ticket \in DOMAIN nonces /\ nonces[call.ticket] \in NonceRows
    BY <1>0, <2>1 DEF TypeInv, TicketPcs, CallPcs, UnspentPcs, TypeOK, NoncesTypeOK
  <2>3. NonceGuardsEffect' BY <2>1, OtherRowsKept
  <2>4. nonces'[call.ticket].consumed = nonces[call.ticket].consumed
    BY <2>1, <2>2 DEF NonceRows
  <2> QED BY <2>1, <2>3, <2>4 DEF NonceInv, UnspentPcs
<1>10. CASE SetMode \/ UNCHANGED vars
            \/ \E name \in Names : CreateCredential(name) \/ RevokeCredential(name)
  BY <1>10, NoncesKept DEF SetMode, CreateCredential, RevokeCredential, vars, database
<1> QED BY <1>1, <1>2, <1>3, <1>4, <1>5, <1>6, <1>7, <1>8, <1>9, <1>10
        DEF Next, LoopStep, LocalStep, EventStep

\* No command runs but on an unexpired nonce of its wake, minted for its very
\* request, and no nonce serves two of them.
THEOREM NoncesGuard == Spec => []NonceGuardsEffect
<1>1. Init => NonceInv BY DEF Init, NonceInv, NonceGuardsEffect, UnspentPcs
<1>2. TypeInv /\ NonceInv /\ [Next]_vars => NonceInv' BY NonceInvNext
<1>3. NonceInv => NonceGuardsEffect BY DEF NonceInv
<1> QED BY <1>1, <1>2, <1>3, TypeInvariant, PTL DEF Spec

-----------------------------------------------------------------------------
(* A command gets what its placeholders name.                              *)

NamesOf(rows) == {credentials[r].name : r \in rows}

SecretInv ==
    /\ \A e \in effects : e.secrets \subseteq DOMAIN credentials
                          /\ NamesOf(e.secrets) = e.request.names
    /\ live \subseteq DOMAIN credentials
    /\ pc \in {"mint"} \cup UnspentPcs => call.secrets = {} /\ call.names = call.request.names
    /\ pc = "resolve" =>
           /\ call.secrets \subseteq live
           /\ Active \subseteq live
           /\ NamesOf(call.secrets) \cup call.names = call.request.names

\* Rows are never taken out, nor do they change their names.
RowsStay ==
    /\ DOMAIN credentials \subseteq DOMAIN credentials'
    /\ \A r \in DOMAIN credentials : credentials'[r].name = credentials[r].name

LEMMA NamesStay ==
    ASSUME RowsStay, NEW rows, rows \subseteq DOMAIN credentials
    PROVE  {credentials'[r].name : r \in rows} = NamesOf(rows)
BY DEF RowsStay, NamesOf

\* Steps that leave the credentials and the call's look-ups alone.
LEMMA SecretsKept ==
    ASSUME SecretInv, UNCHANGED <<credentials, effects>>, live' \in {live, {}},
           pc' \in {"mint"} \cup UnspentPcs =>
               /\ pc \in {"mint"} \cup UnspentPcs
               /\ call'.secrets = call.secrets /\ call'.names = call.names
               /\ call'.request = call.request,
           pc' = "resolve" => UNCHANGED <<pc, call, live>>
    PROVE  SecretInv'
<1>1. NamesOf(call.secrets)' = {credentials[r].name : r \in call'.secrets} /\ Active' = Active
  BY DEF NamesOf, Active, ActiveRows
<1>2. \A e \in effects' : e.secrets \subseteq DOMAIN credentials'
                          /\ NamesOf(e.secrets)' = e.request.names
  BY DEF SecretInv, NamesOf
<1> QED BY <1>1, <1>2 DEF SecretInv, NamesOf

\* Steps of the other users of the table.
LEMMA TableChanges ==
    ASSUME SecretInv, RowsStay, UNCHANGED <<effects, pc, call>>, live \subseteq live',
           live' \subseteq DOMAIN credentials', pc = "resolve" => Active' \subseteq live'
    PROVE  SecretInv'
<1>1. \A e \in effects' : e.secrets \subseteq DOMAIN credentials'
                          /\ NamesOf(e.secrets)' = e.request.names
  <2> SUFFICES ASSUME NEW e \in effects
               PROVE  e.secrets \subseteq DOMAIN credentials'
                      /\ NamesOf(e.secrets)' = e.request.names
    OBVIOUS
  <2>1. e.secrets \subseteq DOMAIN credentials /\ NamesOf(e.secrets) = e.request.names
    BY DEF SecretInv
  <2>2. {credentials'[r].name : r \in e.secrets} = NamesOf(e.secrets) BY <2>1, NamesStay
  <2> QED BY <2>1, <2>2 DEF RowsStay, NamesOf
<1>2. ASSUME pc = "resolve"
      PROVE  /\ call.secrets \subseteq live'
             /\ NamesOf(call.secrets)' \cup call.names = call.request.names
  <2>1. call.secrets \subseteq live /\ call.secrets \subseteq DOMAIN credentials
    BY <1>2 DEF SecretInv
  <2>2. {credentials'[r].name : r \in call.secrets} = NamesOf(call.secrets)
    BY <2>1, NamesStay
  <2>3. NamesOf(call.secrets)' = NamesOf(call.secrets) BY <2>2 DEF NamesOf
  <2> QED BY <1>2, <2>1, <2>3 DEF SecretInv
<1> QED BY <1>1, <1>2 DEF SecretInv

LEMMA SecretInvNext == TypeInv /\ SecretInv /\ [Next]_vars => SecretInv'
<1> SUFFICES ASSUME TypeInv, SecretInv, [Next]_vars PROVE SecretInv'
  OBVIOUS
<1>0. TypeOK BY DEF TypeInv
<1>1. CASE LocalStep \/ EventStep
  <2>1. UNCHANGED <<credentials, effects, live>> /\ pc' \in Outside
    BY <1>1, LocalStepFrame, EventStepFrame
  <2> QED BY <2>1, SecretsKept DEF Outside, CallPcs, UnspentPcs
<1>2. CASE BeginWake
  BY <1>2 DEF BeginWake, Go, SecretInv, UnspentPcs, history, database
<1>3. CASE Denied \/ NonceRejected \/ Unresolved \/ ToolReturns \/ ToolSleeps
           \/ IncrementIteration \/ EndWake \/ TaskFails
  <2>1. UNCHANGED <<credentials, effects>> /\ live' \in {live, {}}
    BY <1>3
    DEF Denied, NonceRejected, Refuse, Unresolved, ToolReturns, ToolSleeps,
        IncrementIteration, EndWake, TaskFails, Return, Emit, Break, database, history
  <2>2. pc' \notin {"mint", "resolve"} \cup UnspentPcs
    BY <1>3
    DEF Denied, NonceRejected, Refuse, Unresolved, ToolReturns, ToolSleeps,
        IncrementIteration, EndWake, TaskFails, Return, Emit, Break, Go, UnspentPcs
  <2> QED BY <2>1, <2>2, SecretsKept
<1>4. CASE RecordToolCall
  <2>1. UNCHANGED <<credentials, effects, live>> /\ pc' = "mint"
    BY <1>4 DEF RecordToolCall, Go, history, database
  <2>2. call'.secrets = {} /\ call'.names = call'.request.names
    BY <1>4 DEF RecordToolCall, NoCall
  <2> QED BY <2>1, <2>2 DEF SecretInv, NamesOf
<1>5. CASE Mint
  <2>1. /\ UNCHANGED <<credentials, effects, live>> /\ pc = "mint" /\ pc' = "authorize"
        /\ call'.secrets = call.secrets /\ call'.names = call.names
        /\ call'.request = call.request
    BY <1>0, <1>5 DEF Mint, Go, history, TypeOK, Calls
  <2> QED BY <2>1, SecretsKept
<1>6. CASE AuthorizeExecution
  BY <1>6, SecretsKept DEF AuthorizeExecution, Emit, Go, history, database, UnspentPcs
<1>7. CASE Consume
  <2>1. /\ UNCHANGED <<credentials, effects, call>> /\ pc = "dispatch_tool"
        /\ pc' \in {"resolve", "sleep_result", "tool_result"}
        /\ live' = IF pc' = "resolve" THEN Active ELSE {}
    BY <1>7 DEF Consume
  <2>2. Active \subseteq DOMAIN credentials BY DEF Active, ActiveRows
  <2>3. Active' = Active BY <2>1 DEF Active, ActiveRows
  <2>4. call.secrets = {} /\ call.names = call.request.names
    BY <2>1 DEF SecretInv, UnspentPcs
  <2>5. NamesOf(call.secrets) = {} BY <2>4 DEF NamesOf
  <2> QED BY <2>1, <2>2, <2>3, <2>4, <2>5 DEF SecretInv, NamesOf, UnspentPcs
<1>8. ASSUME NEW name \in Names, Resolve(name) PROVE SecretInv'
  <2>1. PICK r \in find_active(name) :
            call' = [call EXCEPT !.names = @ \ {name}, !.secrets = @ \cup {r}]
    BY <1>8 DEF Resolve
  <2>2. /\ UNCHANGED <<credentials, effects, pc, live>> /\ pc = "resolve"
        /\ name \in call.names
    BY <1>8 DEF Resolve, history, database
  <2>3. /\ call'.names = call.names \ {name} /\ call'.secrets = call.secrets \cup {r}
        /\ call'.request = call.request
    BY <1>0, <2>1 DEF TypeOK, Calls
  <2>4. r \in Active /\ credentials[r].name = name
    BY <2>1 DEF find_active, Active, ActiveRows
  <2>5. Active' = Active BY <2>2 DEF Active, ActiveRows
  <2>6. NamesOf(call.secrets)' = NamesOf(call.secrets) \cup {name}
    BY <2>2, <2>3, <2>4 DEF NamesOf
  <2>7. NamesOf(call.secrets)' \cup call'.names = call'.request.names
    BY <2>2, <2>3, <2>6 DEF SecretInv
  <2>8. call'.secrets \subseteq live' /\ Active' \subseteq live'
    BY <2>2, <2>3, <2>4, <2>5 DEF SecretInv
  <2> QED BY <2>2, <2>7, <2>8 DEF SecretInv, NamesOf, UnspentPcs
<1>9. CASE ExecuteShell
  <2> DEFINE e0 == [number |-> Number, request |-> call.request, ticket |-> call.ticket,
                    secrets |-> call.secrets, at |-> Len(log)]
  <2>1. /\ UNCHANGED <<credentials, live>> /\ effects' = effects \cup {e0}
        /\ pc = "resolve" /\ pc' = "tool_result" /\ call.names = {}
    BY <1>9 DEF ExecuteShell, Go, history, database
  <2>2. e0.secrets = call.secrets /\ e0.request = call.request OBVIOUS
  <2> HIDE DEF e0
  <2>3. e0.secrets \subseteq DOMAIN credentials /\ NamesOf(e0.secrets) = e0.request.names
    BY <2>1, <2>2 DEF SecretInv
  <2>4. \A e \in effects' : e.secrets \subseteq DOMAIN credentials'
                            /\ NamesOf(e.secrets)' = e.request.names
    BY <2>1, <2>3 DEF SecretInv, NamesOf
  <2> QED BY <2>1, <2>4 DEF SecretInv, UnspentPcs
<1>10. ASSUME NEW name \in Names, CreateCredential(name) PROVE SecretInv'
  <2> DEFINE new == [name |-> name, revoked |-> FALSE]
  <2>1. /\ UNCHANGED <<effects, pc, call>> /\ credentials' = Append(credentials, new)
        /\ live' = IF pc = "resolve" THEN live \cup {Len(credentials')} ELSE live
    BY <1>10 DEF CreateCredential, create
  <2>2. /\ Len(credentials) \in Nat /\ Len(credentials') = Len(credentials) + 1
        /\ DOMAIN credentials = 1 .. Len(credentials)
        /\ DOMAIN credentials' = 1 .. Len(credentials) + 1
        /\ \A r \in 1 .. Len(credentials) : credentials'[r] = credentials[r]
    BY <1>0, <2>1 DEF TypeOK, CredentialsTypeOK
  <2>3. RowsStay BY <2>2 DEF RowsStay
  <2>4. Active' \subseteq Active \cup {Len(credentials')}
    <3> SUFFICES ASSUME NEW r \in Active', r # Len(credentials') PROVE r \in Active
      OBVIOUS
    <3>1. r \in DOMAIN credentials /\ credentials'[r] = credentials[r]
      BY <2>2 DEF Active, ActiveRows
    <3> QED BY <3>1 DEF Active, ActiveRows
  <2>5. live' \subseteq DOMAIN credentials' /\ live \subseteq live'
    BY <2>1, <2>2 DEF SecretInv
  <2>6. pc = "resolve" => Active' \subseteq live' BY <2>1, <2>4 DEF SecretInv
  <2> QED BY <2>1, <2>3, <2>5, <2>6, TableChanges
<1>11. ASSUME NEW name \in Names, RevokeCredential(name) PROVE SecretInv'
  <2>1. /\ UNCHANGED <<effects, pc, call, live>>
        /\ credentials' = [r \in DOMAIN credentials |->
                              IF r \in ActiveRows(name)
                              THEN [credentials[r] EXCEPT !.revoked = TRUE]
                              ELSE credentials[r]]
    BY <1>11 DEF RevokeCredential, revoke, history
  <2>2. \A r \in DOMAIN credentials : credentials[r] \in [name : Names, revoked : BOOLEAN]
    <3>1. credentials \in Seq([name : Names, revoked : BOOLEAN])
      BY <1>0 DEF TypeOK, CredentialsTypeOK
    <3>2. credentials \in [1 .. Len(credentials) -> [name : Names, revoked : BOOLEAN]]
      BY <3>1, LenProperties
    <3> QED BY <3>2
  <2>3. /\ DOMAIN credentials' = DOMAIN credentials
        /\ \A r \in DOMAIN credentials :
               /\ credentials'[r].name = credentials[r].name
               /\ ~credentials'[r].revoked => ~credentials[r].revoked
    BY <2>1, <2>2
  <2>4. RowsStay BY <2>3 DEF RowsStay
  <2>5. Active' \subseteq Active BY <2>3 DEF Active, ActiveRows
  <2> QED BY <2>1, <2>3, <2>4, <2>5, TableChanges DEF SecretInv
<1>12. CASE SetMode \/ NonceExpires \/ UNCHANGED vars
  BY <1>12, SecretsKept DEF SetMode, NonceExpires, vars, history, database
<1> QED BY <1>1, <1>2, <1>3, <1>4, <1>5, <1>6, <1>7, <1>8, <1>9, <1>10, <1>11, <1>12
        DEF Next, LoopStep, LocalStep, EventStep

\* Whoever creates and revokes credentials meanwhile, a command that runs got exactly
\* those it names, from rows active at or after its authorisation.
THEOREM SecretsCurrent == Spec => []SecretsAreCurrent
<1>1. Init => SecretInv BY DEF Init, SecretInv, UnspentPcs
<1>2. TypeInv /\ SecretInv /\ [Next]_vars => SecretInv' BY SecretInvNext
<1>3. SecretInv => SecretsAreCurrent BY DEF SecretInv, SecretsAreCurrent, NamesOf
<1> QED BY <1>1, <1>2, <1>3, TypeInvariant, PTL DEF Spec

-----------------------------------------------------------------------------
(* A wake that was told to stop does nothing more.                         *)

TerminalTypes == {"prompt_injection_suspected", "tool_call_rate_limit_exceeded"}

OverPcs == {"wake_end", "idle"}

TerminalInv ==
    /\ TerminalEventsAreLast
    /\ \A i \in DOMAIN log : log[i].type \in TerminalTypes => pc \in OverPcs

\* What a step may append, by where it finds the loop.
LEMMA AppendsByPc ==
    ASSUME TypeInv, Next, ~BeginWake
    PROVE  /\ pc \in OverPcs => pc' \in OverPcs
           /\ \/ UNCHANGED log
              \/ pc \in OverPcs /\ AppendEvent("wake_end")
              \/ pc \notin OverPcs /\ \E type \in EventTypes :
                     AppendEvent(type) /\ (type \in TerminalTypes => pc' \in OverPcs)
<1>1. CASE LocalStep
  <2>1. pc \notin OverPcs
    BY <1>1 DEF LocalStep, Iterate, HitIterationCap, ChatFails, Chat, EmptyResponse,
                InvalidCalls, ValidCalls, TextOnly, Stop, Completed, BatchDone, Break, Respond,
                WithOrWithoutText, Go, OverPcs
  <2> QED BY <1>1, <2>1, LocalStepFrame
<1>2. CASE StartEvents \/ PromptInjectionSuspected \/ AssistantMessage \/ RateLimitExceeded
           \/ RecordToolCall \/ AuthorizeExecution \/ ToolReturns \/ ToolSleeps
  BY <1>2
  DEF StartEvents, PromptInjectionSuspected, AssistantMessage, RateLimitExceeded,
      RecordToolCall, AuthorizeExecution, ToolReturns, ToolSleeps, Emit, Break, Go,
      OverPcs, TerminalTypes, EventTypes
<1>3. CASE SchemaInvalid \/ Denied \/ NonceRejected \/ Unresolved
  BY <1>3
  DEF SchemaInvalid, Denied, NonceRejected, Refuse, Unresolved, AppendBestEffort, Go,
      OverPcs, TerminalTypes, EventTypes
<1>4. CASE Mint \/ Consume \/ (\E name \in Names : Resolve(name)) \/ ExecuteShell
           \/ IncrementIteration
  BY <1>4 DEF Mint, Consume, Resolve, ExecuteShell, IncrementIteration, Go, OverPcs
<1>5. CASE EndWake \/ TaskFails
  BY <1>5 DEF EndWake, TaskFails, Return, OverPcs
<1>6. CASE SetMode \/ NonceExpires
           \/ \E name \in Names : CreateCredential(name) \/ RevokeCredential(name)
  BY <1>6 DEF SetMode, NonceExpires, CreateCredential, RevokeCredential
<1> QED BY <1>1, <1>2, <1>3, <1>4, <1>5, <1>6 DEF Next, LoopStep, LocalStep

LEMMA TerminalInvNext == TypeInv /\ TerminalInv /\ [Next]_vars => TerminalInv'
<1> SUFFICES ASSUME TypeInv, TerminalInv, [Next]_vars PROVE TerminalInv'
  OBVIOUS
<1>0. TypeOK BY DEF TypeInv
<1>1. CASE BeginWake
  <2>1. DOMAIN log' = {} BY <1>1, NoEvents DEF BeginWake
  <2> QED BY <2>1 DEF TerminalInv, TerminalEventsAreLast
<1>2. CASE Next /\ ~BeginWake
  <2>1. pc \in OverPcs => pc' \in OverPcs BY <1>2, AppendsByPc
  <2>2. CASE UNCHANGED log
    BY <2>1, <2>2 DEF TerminalInv, TerminalEventsAreLast, Is
  <2>3. CASE pc \in OverPcs /\ AppendEvent("wake_end")
    <3>1. \A i \in DOMAIN log' : \/ i \in DOMAIN log /\ log'[i] = log[i]
                                 \/ i = Len(log) + 1 /\ log'[i].type = "wake_end"
      BY <1>0, <2>3, OldOrNew DEF EventTypes
    <3>2. DOMAIN log = 1 .. Len(log) /\ Len(log) \in Nat
      BY <1>0 DEF TypeOK
    <3> QED BY <2>1, <2>3, <3>1, <3>2 DEF TerminalInv, TerminalEventsAreLast, Is, TerminalTypes
  <2>4. ASSUME pc \notin OverPcs, NEW type \in EventTypes, AppendEvent(type),
               type \in TerminalTypes => pc' \in OverPcs
        PROVE  TerminalInv'
    <3>1. \A i \in DOMAIN log' : \/ i \in DOMAIN log /\ log'[i] = log[i]
                                 \/ i = Len(log) + 1 /\ log'[i].type = type
      BY <1>0, <2>4, OldOrNew
    <3>2. DOMAIN log' = 1 .. Len(log) + 1 /\ DOMAIN log = 1 .. Len(log) /\ Len(log) \in Nat
      BY <1>0, <2>4, Grown
    <3>3. \A i \in DOMAIN log : log[i].type \notin TerminalTypes
      BY <2>4 DEF TerminalInv
    <3>4. \A i \in DOMAIN log' : log'[i].type \in TerminalTypes =>
              i = Len(log) + 1 /\ pc' \in OverPcs
      BY <2>4, <3>1, <3>3
    <3> QED BY <3>2, <3>4 DEF TerminalInv, TerminalEventsAreLast, Is, TerminalTypes
  <2> QED BY <1>2, <2>2, <2>3, <2>4, AppendsByPc
<1>3. CASE UNCHANGED vars
  BY <1>3 DEF vars, TerminalInv, TerminalEventsAreLast, Is
<1> QED BY <1>1, <1>2, <1>3

\* After an echoed canary or an exceeded limit nothing but the wake's end is logged.
THEOREM TerminalLast == Spec => []TerminalEventsAreLast
<1>1. Init => TerminalInv
  BY NoEvents DEF Init, TerminalInv, TerminalEventsAreLast
<1>2. TypeInv /\ TerminalInv /\ [Next]_vars => TerminalInv' BY TerminalInvNext
<1>3. TerminalInv => TerminalEventsAreLast BY DEF TerminalInv
<1> QED BY <1>1, <1>2, <1>3, TypeInvariant, PTL DEF Spec

-----------------------------------------------------------------------------
(* One call in flight.                                                     *)

OpenPcs == CallPcs \ {"increment_iteration"}

\* Only the call in hand may be without its tool_result.
Answered(i)   == AnsweredBefore(i, Len(log))
Unanswered(i) == Is(i, "tool_call") /\ ~Answered(i)

EachIsAnswered ==
    \A i, k \in DOMAIN log :
        i < k /\ Is(i, "tool_call") /\ (Is(k, "tool_call") \/ Is(k, "wake_end"))
            => AnsweredBefore(i, k)

AnswerInv ==
    /\ EachIsAnswered
    /\ pc # "idle" => \A i \in DOMAIN log :
                          Unanswered(i) => pc \in OpenPcs /\ log[i].number = Number

\* An answer in a prefix of the log stays one as the log grows.
LEMMA AnswerKept ==
    ASSUME TypeOK, LogGrows, NEW i \in DOMAIN log, NEW k \in DOMAIN log, AnsweredBefore(i, k)
    PROVE  AnsweredBefore(i, k)' /\ Answered(i)'
<1>0. /\ DOMAIN log = 1 .. Len(log) /\ Len(log) \in Nat /\ Len(log') \in Nat
      /\ Len(log) <= Len(log') /\ \A j \in 1 .. Len(log) : log'[j] = log[j]
  BY LogPrefix DEF TypeOK
<1>1. PICK j \in i .. k : IsOf(j, "tool_result", log[i].number) BY DEF AnsweredBefore
<1>2. j \in 1 .. Len(log) /\ j \in i .. Len(log') BY <1>0, <1>1
<1>3. log'[j] = log[j] /\ log'[i] = log[i] BY <1>0, <1>2
<1>4. IsOf(j, "tool_result", log[i].number)' BY <1>1, <1>3 DEF IsOf
<1>5. AnsweredBefore(i, k)' BY <1>1, <1>3, <1>4 DEF AnsweredBefore, IsOf
<1>6. Answered(i)' BY <1>2, <1>3, <1>4 DEF Answered, AnsweredBefore, IsOf
<1> QED BY <1>5, <1>6

\* Steps that leave the log alone.
LEMMA AnswersStay ==
    ASSUME AnswerInv, UNCHANGED log,
           \A i \in DOMAIN log : Unanswered(i) /\ pc' # "idle" /\ pc \in OpenPcs =>
               pc' \in OpenPcs /\ Number' = Number,
           pc = "idle" => pc' = "idle"
    PROVE  AnswerInv'
<1>1. \A i, k \in DOMAIN log' : AnsweredBefore(i, k)' = AnsweredBefore(i, k)
  BY DEF AnsweredBefore, IsOf
<1>2. EachIsAnswered' BY <1>1 DEF AnswerInv, EachIsAnswered, Is
<1>3. \A i \in DOMAIN log' : Unanswered(i)' = Unanswered(i)
  BY DEF Unanswered, Answered, Is, AnsweredBefore, IsOf
<1> QED BY <1>2, <1>3 DEF AnswerInv

\* Steps that append something other than a call, an answer or the wake's end, or
\* that append one of the first and the last when every call has its answer.
LEMMA AnswersGrow ==
    ASSUME TypeInv, AnswerInv, NEW type \in EventTypes, AppendEvent(type), pc # "idle",
           type \in {"tool_call", "wake_end"} => pc \notin OpenPcs,
           type = "tool_call" => pc' \in OpenPcs,
           pc \in OpenPcs => pc' \in OpenPcs,
           Number' = Number \/ pc' = "idle"
    PROVE  AnswerInv'
<1>0. /\ TypeOK /\ LogGrows
      /\ DOMAIN log = 1 .. Len(log) /\ Len(log) \in Nat /\ Len(log') = Len(log) + 1
      /\ DOMAIN log' = 1 .. Len(log) + 1 /\ \A i \in 1 .. Len(log) : log'[i] = log[i]
      /\ log'[Len(log) + 1] = [type |-> type, number |-> Number]
  BY Grown DEF TypeInv, LogGrows
<1>1. ASSUME NEW i \in DOMAIN log', NEW k \in DOMAIN log', i < k,
             Is(i, "tool_call")', Is(k, "tool_call")' \/ Is(k, "wake_end")'
      PROVE  AnsweredBefore(i, k)'
  <2>1. i \in DOMAIN log /\ Is(i, "tool_call") BY <1>0, <1>1 DEF Is
  <2>2. CASE k \in DOMAIN log
    <3>1. AnsweredBefore(i, k)
      BY <1>0, <1>1, <2>1, <2>2 DEF AnswerInv, EachIsAnswered, Is
    <3> QED BY <1>0, <2>1, <2>2, <3>1, AnswerKept
  <2>3. CASE k = Len(log')
    <3>1. type \in {"tool_call", "wake_end"} BY <1>0, <1>1, <2>3 DEF Is
    <3>2. Answered(i)
      BY <2>1, <3>1 DEF AnswerInv, Unanswered
    <3>3. Len(log) \in DOMAIN log BY <1>0, <2>1
    <3>4. Answered(i)' BY <1>0, <2>1, <3>2, <3>3, AnswerKept DEF Answered
    <3> QED BY <2>3, <3>4 DEF Answered, AnsweredBefore, IsOf
  <2> QED BY <1>0, <2>2, <2>3
<1>2. ASSUME NEW i \in DOMAIN log', Unanswered(i)', pc' # "idle"
      PROVE  pc' \in OpenPcs /\ log'[i].number = Number'
  <2>1. CASE i \in DOMAIN log
    <3>1. Is(i, "tool_call") /\ log'[i] = log[i] BY <1>0, <1>2, <2>1 DEF Unanswered, Is
    <3>2. Len(log) \in DOMAIN log BY <1>0, <2>1
    <3>3. ~Answered(i)
      BY <1>0, <1>2, <2>1, <3>2, AnswerKept DEF Unanswered, Answered
    <3> QED BY <1>2, <2>1, <3>1, <3>3 DEF AnswerInv, Unanswered
  <2>2. CASE i = Len(log) + 1
    BY <1>0, <1>2, <2>2 DEF Unanswered, Is
  <2> QED BY <1>0, <2>1, <2>2
<1> QED BY <1>1, <1>2 DEF AnswerInv, EachIsAnswered

\* The tool_result of the call in hand leaves none unanswered.
LEMMA AnswerGiven ==
    ASSUME TypeInv, AnswerInv, AppendEvent("tool_result"), pc \in OpenPcs
    PROVE  /\ EachIsAnswered'
           /\ \A i \in DOMAIN log' : ~Unanswered(i)'
<1>0. /\ TypeOK /\ LogGrows /\ Number \in Nat /\ pc # "idle"
      /\ DOMAIN log = 1 .. Len(log) /\ Len(log) \in Nat /\ Len(log') = Len(log) + 1
      /\ DOMAIN log' = 1 .. Len(log) + 1 /\ \A i \in 1 .. Len(log) : log'[i] = log[i]
      /\ log'[Len(log) + 1] = [type |-> "tool_result", number |-> Number]
  BY Grown, EventIsTyped DEF TypeInv, LogGrows, EventTypes, OpenPcs, CallPcs
<1>1. ASSUME NEW i \in DOMAIN log', NEW k \in DOMAIN log', i < k,
             Is(i, "tool_call")', Is(k, "tool_call")' \/ Is(k, "wake_end")'
      PROVE  AnsweredBefore(i, k)'
  <2>1. i \in DOMAIN log /\ k \in DOMAIN log BY <1>0, <1>1 DEF Is
  <2>2. AnsweredBefore(i, k)
    BY <1>0, <1>1, <2>1 DEF AnswerInv, EachIsAnswered, Is
  <2> QED BY <1>0, <2>1, <2>2, AnswerKept
<1>2. ASSUME NEW i \in DOMAIN log', Is(i, "tool_call")'
      PROVE  Answered(i)'
  <2>1. i \in DOMAIN log /\ Is(i, "tool_call") /\ log'[i] = log[i]
    BY <1>0, <1>2 DEF Is
  <2>2. CASE Answered(i)
    <3>1. Len(log) \in DOMAIN log BY <1>0, <2>1
    <3> QED BY <1>0, <2>1, <2>2, <3>1, AnswerKept DEF Answered
  <2>3. CASE log[i].number = Number
    <3>1. Len(log) + 1 \in i .. Len(log') BY <1>0, <2>1
    <3> QED BY <1>0, <2>1, <2>3, <3>1 DEF Answered, AnsweredBefore, IsOf
  <2> QED BY <1>0, <2>1, <2>2, <2>3 DEF AnswerInv, Unanswered
<1> QED BY <1>1, <1>2 DEF EachIsAnswered, Unanswered

LEMMA AnswerInvNext == TypeInv /\ AnswerInv /\ [Next]_vars => AnswerInv'
<1> SUFFICES ASSUME TypeInv, AnswerInv, [Next]_vars PROVE AnswerInv'
  OBVIOUS
<1>0. TypeOK BY DEF TypeInv
<1>1. CASE LocalStep
  <2>1. UNCHANGED log /\ pc \in Outside BY <1>1, LocalStepFrame
  <2> QED BY <2>1, AnswersStay DEF Outside, OpenPcs, CallPcs
<1>2. CASE EventStep
  <2>1. PICK type \in EventTypes \ {"tool_call", "AuthorizeExecution", "wake_end"} :
            AppendEvent(type)
    BY <1>2, EventStepFrame
  <2>2. pc \in Outside /\ UNCHANGED dispatched BY <1>2, EventStepFrame
  <2> QED BY <2>1, <2>2, AnswersGrow DEF Outside, OpenPcs, CallPcs, Number
<1>3. CASE BeginWake
  <2>1. DOMAIN log' = {} BY <1>3, NoEvents DEF BeginWake
  <2> QED BY <2>1 DEF AnswerInv, EachIsAnswered
<1>4. CASE RecordToolCall
  <2>1. AppendEvent("tool_call") /\ pc = "calls" /\ pc' = "mint" /\ UNCHANGED dispatched
    BY <1>4 DEF RecordToolCall, Go, round
  <2> QED BY <2>1, AnswersGrow DEF EventTypes, OpenPcs, CallPcs, Number
<1>5. CASE AuthorizeExecution
  <2>1. /\ AppendEvent("AuthorizeExecution") /\ UNCHANGED dispatched
        /\ pc = "authorize" /\ pc' = "dispatch_tool"
    BY <1>5 DEF AuthorizeExecution, Emit, Go, round
  <2> QED BY <2>1, AnswersGrow DEF EventTypes, OpenPcs, CallPcs, Number
<1>6. CASE Denied \/ NonceRejected \/ Unresolved
  <2>1. /\ UNCHANGED dispatched
        /\ pc \in {"dispatch_tool", "resolve"} /\ pc' = "tool_result"
    BY <1>6 DEF Denied, NonceRejected, Refuse, Unresolved, Go, round
  <2>2. \/ UNCHANGED log
        \/ \E type \in {"tool_capability_denied", "capability_nonce_rejected",
                        "credential_unresolved"} : AppendEvent(type)
    BY <1>6 DEF Denied, NonceRejected, Refuse, Unresolved, AppendBestEffort
  <2>3. CASE UNCHANGED log
    BY <2>1, <2>3, AnswersStay DEF OpenPcs, CallPcs, Number
  <2>4. ASSUME NEW type \in {"tool_capability_denied", "capability_nonce_rejected",
                             "credential_unresolved"}, AppendEvent(type)
        PROVE  AnswerInv'
    <3>1. type \in EventTypes \ {"tool_call", "wake_end"} BY DEF EventTypes
    <3> QED BY <2>1, <2>4, <3>1, AnswersGrow DEF OpenPcs, CallPcs, Number
  <2> QED BY <2>2, <2>3, <2>4
<1>7. CASE Mint \/ Consume \/ (\E name \in Names : Resolve(name)) \/ ExecuteShell
  <2>1. UNCHANGED <<log, dispatched>> /\ pc \in OpenPcs /\ pc' \in OpenPcs
    BY <1>7 DEF Mint, Consume, Resolve, ExecuteShell, Go, round, OpenPcs, CallPcs
  <2> QED BY <2>1, AnswersStay DEF Number, OpenPcs, CallPcs
<1>8. CASE ToolReturns \/ ToolSleeps
  <2>1. AppendEvent("tool_result") /\ pc \in OpenPcs
    BY <1>8 DEF ToolReturns, ToolSleeps, Emit, Break, Go, OpenPcs, CallPcs
  <2> QED BY <2>1, AnswerGiven DEF AnswerInv
<1>9. CASE IncrementIteration
  <2>1. UNCHANGED log /\ pc = "increment_iteration"
    BY <1>9 DEF IncrementIteration, Go
  <2> QED BY <2>1, AnswersStay DEF OpenPcs
<1>10. CASE EndWake
  <2>1. AppendEvent("wake_end") /\ pc = "wake_end" /\ pc' = "idle"
    BY <1>10 DEF EndWake, Return
  <2> QED BY <2>1, AnswersGrow DEF EventTypes, OpenPcs, CallPcs
<1>11. CASE TaskFails
  <2>1. UNCHANGED log /\ pc' = "idle" BY <1>11 DEF TaskFails, Return
  <2> QED BY <2>1, AnswersStay
<1>12. CASE SetMode \/ NonceExpires \/ UNCHANGED vars
            \/ \E name \in Names : CreateCredential(name) \/ RevokeCredential(name)
  <2>1. UNCHANGED <<log, pc, dispatched>>
    BY <1>12 DEF SetMode, NonceExpires, CreateCredential, RevokeCredential, vars, round
  <2> QED BY <2>1, AnswersStay DEF Number
<1> QED BY <1>1, <1>2, <1>3, <1>4, <1>5, <1>6, <1>7, <1>8, <1>9, <1>10, <1>11, <1>12
        DEF Next, LoopStep, LocalStep, EventStep

\* However calls are refused or fail, each has its tool_result before the next is
\* recorded and before the wake says it is over: the denied ones, too, which the property
\* does not ask for.
THEOREM CallsAnswered == Spec => []CallsAreAnswered
<1>1. Init => AnswerInv
  BY NoEvents DEF Init, AnswerInv, EachIsAnswered
<1>2. TypeInv /\ AnswerInv /\ [Next]_vars => AnswerInv' BY AnswerInvNext
<1>3. AnswerInv => CallsAreAnswered BY DEF AnswerInv, EachIsAnswered, CallsAreAnswered
<1> QED BY <1>1, <1>2, <1>3, TypeInvariant, PTL DEF Spec
-----------------------------------------------------------------------------
(* A wake gives up only for what its events show.                          *)

\* The retries counted are on record since the last call, and where calls are
\* handled none is counted.
FailureInv ==
    /\ attempts <= Cardinality(InvalidSinceLastCall)
    /\ pc = "idle" => attempts = 0
    /\ pc \in BatchPcs /\ left > 0 => attempts = 0
    /\ FailureIsEarned

\* The events counted are events of the log, so that there is a number of them.
LEMMA InvalidAreFinite ==
    ASSUME TypeOK
    PROVE  /\ InvalidSinceLastCall \subseteq 1 .. Len(log)
           /\ IsFiniteSet(InvalidSinceLastCall)
           /\ Cardinality(InvalidSinceLastCall) \in Nat
<1>1. InvalidSinceLastCall \subseteq 1 .. Len(log) /\ Len(log) \in Nat
  BY DEF TypeOK, InvalidSinceLastCall
<1>2. IsFiniteSet(1 .. Len(log)) BY <1>1, FS_Interval
<1>3. IsFiniteSet(InvalidSinceLastCall) BY <1>1, <1>2, FS_Subset
<1> QED BY <1>1, <1>3, FS_CardinalityType

\* What an append does to the invalid responses since the last call.
LEMMA InvalidGrow ==
    ASSUME TypeOK, NEW type \in EventTypes, AppendEvent(type)
    PROVE  /\ type = "tool_call" => InvalidSinceLastCall' = {}
           /\ type = "model_response_schema_invalid" =>
                  InvalidSinceLastCall' = InvalidSinceLastCall \cup {Len(log) + 1}
           /\ type \notin {"tool_call", "model_response_schema_invalid"} =>
                  InvalidSinceLastCall' = InvalidSinceLastCall
<1>0. /\ Len(log) \in Nat /\ DOMAIN log = 1 .. Len(log) /\ DOMAIN log' = 1 .. Len(log) + 1
      /\ \A i \in 1 .. Len(log) : log'[i] = log[i]
      /\ log'[Len(log) + 1] = [type |-> type, number |-> Number]
  BY Grown
<1>1. PICK n \in Nat :
          /\ n = Len(log) /\ DOMAIN log = 1 .. n /\ DOMAIN log' = 1 .. n + 1
          /\ \A i \in 1 .. n : log'[i] = log[i]
          /\ log'[n + 1] = [type |-> type, number |-> Number]
  BY <1>0, Zenon
<1>2. log'[n + 1].type = type BY <1>1
<1>3. \A i \in 1 .. n + 1 : i \in 1 .. n \/ i = n + 1
  BY <1>1, SMT
<1>4. CASE type = "tool_call"
  <2>1. ASSUME NEW i \in 1 .. n + 1, log'[i].type = "model_response_schema_invalid"
        PROVE  n + 1 \in DOMAIN log' /\ n + 1 > i /\ log'[n + 1].type = "tool_call"
    <3>1. i # n + 1 BY <1>2, <1>4, <2>1
    <3> QED BY <1>1, <1>2, <1>4, <3>1
  <2>2. InvalidSinceLastCall' = {}
    BY <1>1, <2>1 DEF InvalidSinceLastCall, Is
  <2> QED BY <1>4, <2>2
<1>5. CASE type # "tool_call"
  <2>1. ASSUME NEW i \in 1 .. n
        PROVE  i \in InvalidSinceLastCall' <=> i \in InvalidSinceLastCall
    <3>1. i \in DOMAIN log /\ i \in DOMAIN log' /\ log'[i] = log[i]
      BY <1>1
    <3>2. (\A k \in DOMAIN log' : k > i => log'[k].type # "tool_call")
              <=> (\A k \in DOMAIN log : k > i => log[k].type # "tool_call")
      BY <1>1, <1>2, <1>3, <1>5
    <3> QED BY <3>1, <3>2 DEF InvalidSinceLastCall, Is
  <2>2. n + 1 \in InvalidSinceLastCall' <=> type = "model_response_schema_invalid"
    <3>1. n + 1 \in DOMAIN log' /\ \A k \in DOMAIN log' : ~(k > n + 1)
      BY <1>1
    <3> QED BY <1>2, <3>1 DEF InvalidSinceLastCall, Is
  <2>3. InvalidSinceLastCall' \subseteq 1 .. n + 1 /\ InvalidSinceLastCall \subseteq 1 .. n
    BY <1>1 DEF InvalidSinceLastCall
  <2>4. n + 1 \notin 1 .. n
    OBVIOUS
  <2>5. \A i \in InvalidSinceLastCall' : i \in InvalidSinceLastCall \/ i = n + 1
    BY <1>3, <2>1, <2>3
  <2>6. InvalidSinceLastCall \subseteq InvalidSinceLastCall'
    BY <2>1, <2>3
  <2>7. n + 1 \notin InvalidSinceLastCall
    BY <2>3, <2>4
  <2> QED BY <1>1, <1>5, <2>2, <2>5, <2>6, <2>7
<1> QED BY <1>4, <1>5

\* Steps that record neither a call nor an invalid response, nor count a retry.
LEMMA FailureKept ==
    ASSUME TypeInv, FailureInv, UNCHANGED attempts,
           \/ UNCHANGED log
           \/ \E type \in EventTypes \ {"tool_call", "model_response_schema_invalid"} :
                  AppendEvent(type),
           pc' # "idle" \/ pc = "idle",
           pc' \in BatchPcs /\ left' > 0 => attempts = 0 \/ (pc \in BatchPcs /\ left > 0),
           pc' = "wake_end" /\ reason' = "FailureAuditPending" => FailureIsEarned'
    PROVE  FailureInv'
<1>1. InvalidSinceLastCall' = InvalidSinceLastCall
  <2>1. CASE UNCHANGED log
    BY <2>1 DEF InvalidSinceLastCall, Is
  <2>2. ASSUME NEW type \in EventTypes \ {"tool_call", "model_response_schema_invalid"},
               AppendEvent(type)
        PROVE  InvalidSinceLastCall' = InvalidSinceLastCall
    BY <2>2, InvalidGrow DEF TypeInv
  <2> QED BY <2>1, <2>2
<1>2. Cardinality(InvalidSinceLastCall)' = Cardinality(InvalidSinceLastCall) BY <1>1
<1>3. FailureIsEarned' BY DEF FailureIsEarned
<1> QED BY <1>2, <1>3 DEF FailureInv

LEMMA FailureInvNext == TypeInv /\ FailureInv /\ [Next]_vars => FailureInv'
<1> SUFFICES ASSUME TypeInv, FailureInv, [Next]_vars PROVE FailureInv'
  OBVIOUS
<1>0. TypeOK /\ attempts \in Nat /\ left \in Nat BY DEF TypeInv, TypeOK
<1>1. CASE BeginWake
  <2>1. attempts = 0 /\ attempts' = 0 /\ pc' = "wake_start"
    BY <1>1 DEF BeginWake, Go, round, FailureInv
  <2>2. InvalidSinceLastCall' = {}
    BY <1>1, NoEvents DEF BeginWake, InvalidSinceLastCall
  <2> QED BY <2>1, <2>2, FS_EmptySet DEF FailureInv, FailureIsEarned, BatchPcs, CallPcs
<1>2. CASE StartEvents \/ PromptInjectionSuspected \/ AssistantMessage
  <2>1. UNCHANGED <<attempts, left>>
    BY <1>2 DEF StartEvents, PromptInjectionSuspected, AssistantMessage, Emit, Break, round
  <2>2. \E type \in EventTypes \ {"tool_call", "model_response_schema_invalid"} :
            AppendEvent(type)
    BY <1>2 DEF StartEvents, PromptInjectionSuspected, AssistantMessage, Emit, EventTypes
  <2>3. /\ pc' # "idle"
        /\ pc' \in BatchPcs => pc \in BatchPcs
        /\ ~(pc' = "wake_end" /\ reason' = "FailureAuditPending")
    BY <1>2 DEF StartEvents, PromptInjectionSuspected, AssistantMessage, Emit, Break, Go,
                BatchPcs, CallPcs
  <2> QED BY <2>1, <2>2, <2>3, FailureKept
<1>3. CASE Iterate \/ HitIterationCap \/ ChatFails \/ Chat \/ EmptyResponse \/ Completed
           \/ BatchDone
  <2>1. UNCHANGED <<attempts, left, log>>
    BY <1>3 DEF Iterate, HitIterationCap, ChatFails, Chat, EmptyResponse, Completed, BatchDone,
                Break, round
  <2>2. /\ pc' # "idle" /\ pc' \notin BatchPcs
        /\ ~(pc' = "wake_end" /\ reason' = "FailureAuditPending")
    BY <1>3 DEF Iterate, HitIterationCap, ChatFails, Chat, EmptyResponse, Completed, BatchDone,
                Break, Go, BatchPcs, CallPcs
  <2> QED BY <2>1, <2>2, FailureKept
<1>4. CASE InvalidCalls \/ TextOnly \/ Stop
  <2>1. UNCHANGED <<attempts, log>>
    BY <1>4 DEF InvalidCalls, TextOnly, Stop, WithOrWithoutText, Respond
  <2>2. pc' \in {"schema_invalid", "assistant_message", "calls", "last_message", "completed"}
    BY <1>4 DEF InvalidCalls, TextOnly, Stop, WithOrWithoutText, Respond, Go
  <2>3. pc' \in BatchPcs => left' = 0
    BY <1>4 DEF InvalidCalls, TextOnly, Stop, WithOrWithoutText, Respond, Go, BatchPcs, CallPcs
  <2> QED BY <2>1, <2>2, <2>3, FailureKept
<1>5. CASE ValidCalls
  <2>1. UNCHANGED log /\ attempts' = 0 /\ pc' \in {"assistant_message", "calls"}
    BY <1>5 DEF ValidCalls, WithOrWithoutText, Respond, Go
  <2>2. InvalidSinceLastCall' = InvalidSinceLastCall BY <2>1 DEF InvalidSinceLastCall, Is
  <2> QED BY <1>0, <2>1, <2>2, InvalidAreFinite DEF FailureInv, FailureIsEarned
<1>6. CASE SchemaInvalid
  <2> DEFINE S == InvalidSinceLastCall
             n == Len(log) + 1
  <2>1. AppendEvent("model_response_schema_invalid") /\ attempts' = attempts + 1
    BY <1>6 DEF SchemaInvalid
  <2>2. S' = S \cup {n}
    BY <1>0, <2>1, InvalidGrow DEF EventTypes
  <2>3. IsFiniteSet(S) /\ Cardinality(S) \in Nat /\ n \notin S
    BY <1>0, InvalidAreFinite DEF TypeOK
  <2>4. Cardinality(S') = Cardinality(S) + 1
    BY <2>2, <2>3, FS_AddElement
  <2>5. attempts' <= Cardinality(S')
    BY <1>0, <2>1, <2>3, <2>4 DEF FailureInv
  <2>6. CASE attempts + 1 >= SchemaCap
    <3>1. Cardinality(S') >= SchemaCap
      BY <1>0, <2>1, <2>3, <2>4, <2>5, <2>6, LoopAssumption
    <3>2. pc' = "wake_end" BY <1>6, <2>6 DEF SchemaInvalid
    <3>3. FailureIsEarned' BY <3>1 DEF FailureIsEarned
    <3> QED BY <2>5, <3>2, <3>3 DEF FailureInv, BatchPcs, CallPcs
  <2>7. CASE ~(attempts + 1 >= SchemaCap)
    <3>1. pc' = "iterate" BY <1>6, <2>7 DEF SchemaInvalid
    <3> QED BY <2>5, <3>1 DEF FailureInv, FailureIsEarned, BatchPcs, CallPcs
  <2> QED BY <2>6, <2>7
<1>7. CASE RateLimitExceeded
  <2>1. AppendEvent("tool_call_rate_limit_exceeded") /\ pc' = "wake_end" /\ UNCHANGED attempts
    BY <1>7 DEF RateLimitExceeded, Break, Go
  <2>2. FailureIsEarned'
    <3>1. /\ Len(log) + 1 \in DOMAIN log'
          /\ log'[Len(log) + 1].type = "tool_call_rate_limit_exceeded"
      BY <1>0, <2>1, Grown DEF EventTypes
    <3> QED BY <3>1 DEF FailureIsEarned, Is
  <2>3. "tool_call_rate_limit_exceeded"
            \in EventTypes \ {"tool_call", "model_response_schema_invalid"}
    BY DEF EventTypes
  <2> QED BY <2>1, <2>2, <2>3, FailureKept DEF BatchPcs, CallPcs
<1>8. CASE RecordToolCall
  <2>1. /\ AppendEvent("tool_call") /\ UNCHANGED <<attempts, left>>
        /\ pc = "calls" /\ left > 0 /\ pc' = "mint"
    BY <1>8 DEF RecordToolCall, Go, round
  <2>2. InvalidSinceLastCall' = {} BY <1>0, <2>1, InvalidGrow DEF EventTypes
  <2>3. attempts = 0 BY <2>1 DEF FailureInv, BatchPcs
  <2> QED BY <2>1, <2>2, <2>3, FS_EmptySet DEF FailureInv, FailureIsEarned
<1>9. CASE AuthorizeExecution \/ Denied \/ NonceRejected \/ Unresolved \/ ToolReturns
  <2>1. UNCHANGED <<attempts, left>> /\ pc \in BatchPcs /\ pc' \in CallPcs
    BY <1>9 DEF AuthorizeExecution, Denied, NonceRejected, Refuse, Unresolved, ToolReturns,
                Emit, Go, round, BatchPcs, CallPcs
  <2>2. \/ UNCHANGED log
        \/ \E type \in EventTypes \ {"tool_call", "model_response_schema_invalid"} :
               AppendEvent(type)
    BY <1>9 DEF AuthorizeExecution, Denied, NonceRejected, Refuse, Unresolved, ToolReturns,
                AppendBestEffort, Emit, EventTypes
  <2> QED BY <2>1, <2>2, FailureKept DEF CallPcs
<1>10. CASE Mint \/ Consume \/ (\E name \in Names : Resolve(name)) \/ ExecuteShell
  <2>1. UNCHANGED <<attempts, left, log>> /\ pc \in BatchPcs /\ pc' \in CallPcs
    BY <1>10 DEF Mint, Consume, Resolve, ExecuteShell, Go, round, BatchPcs, CallPcs
  <2> QED BY <2>1, FailureKept DEF CallPcs
<1>11. CASE ToolSleeps
  <2>1. /\ AppendEvent("tool_result") /\ UNCHANGED <<attempts, left>>
        /\ pc' = "wake_end" /\ reason' = "sleep"
    BY <1>11 DEF ToolSleeps, Break, Go
  <2>2. "tool_result" \in EventTypes \ {"tool_call", "model_response_schema_invalid"}
    BY DEF EventTypes
  <2> QED BY <2>1, <2>2, FailureKept DEF BatchPcs, CallPcs
<1>12. CASE IncrementIteration
  <2>1. /\ UNCHANGED <<attempts, log>> /\ pc = "increment_iteration" /\ pc' = "calls"
    BY <1>12 DEF IncrementIteration, Go
  <2>2. attempts = 0 BY <2>1 DEF TypeInv, FailureInv, BatchPcs, CallPcs
  <2> QED BY <2>1, <2>2, FailureKept
<1>13. CASE EndWake \/ TaskFails
  <2>1. attempts' = 0 /\ pc' = "idle"
    BY <1>13 DEF EndWake, TaskFails, Return
  <2>2. UNCHANGED log \/ AppendEvent("wake_end") BY <1>13 DEF EndWake, TaskFails
  <2>3. InvalidSinceLastCall' = InvalidSinceLastCall
    <3>1. CASE UNCHANGED log BY <3>1 DEF InvalidSinceLastCall, Is
    <3>2. CASE AppendEvent("wake_end") BY <1>0, <3>2, InvalidGrow DEF EventTypes
    <3> QED BY <2>2, <3>1, <3>2
  <2> QED BY <1>0, <2>1, <2>3, InvalidAreFinite
          DEF FailureInv, FailureIsEarned, BatchPcs, CallPcs
<1>14. CASE SetMode \/ NonceExpires \/ UNCHANGED vars
            \/ \E name \in Names : CreateCredential(name) \/ RevokeCredential(name)
  <2>1. UNCHANGED <<log, pc, attempts, left, reason>>
    BY <1>14 DEF SetMode, NonceExpires, CreateCredential, RevokeCredential, vars, round
  <2>2. FailureIsEarned'
    BY <2>1 DEF FailureInv, FailureIsEarned, InvalidSinceLastCall, Is
  <2> QED BY <2>1, <2>2, FailureKept
<1> QED BY <1>1, <1>2, <1>3, <1>4, <1>5, <1>6, <1>7, <1>8, <1>9, <1>10, <1>11, <1>12, <1>13,
           <1>14
        DEF Next, LoopStep

\* A wake that ends in FailureAuditPending met its rate limit, or as many invalid
\* responses in a row as the cap allows, whatever happened before.
THEOREM FailureEarned == Spec => []FailureIsEarned
<1>1. Init => FailureInv
  <2> SUFFICES ASSUME Init PROVE FailureInv OBVIOUS
  <2>1. attempts = 0 /\ pc = "idle" BY DEF Init
  <2>2. InvalidSinceLastCall = {} BY NoEvents DEF Init, InvalidSinceLastCall
  <2> QED BY <2>1, <2>2, FS_EmptySet DEF FailureInv, FailureIsEarned
<1>2. TypeInv /\ FailureInv /\ [Next]_vars => FailureInv' BY FailureInvNext
<1>3. FailureInv => FailureIsEarned BY DEF FailureInv
<1> QED BY <1>1, <1>2, <1>3, TypeInvariant, PTL DEF Spec

-----------------------------------------------------------------------------
(* The wake as a guard of its calls.                                       *)

\* What the log shows of the call in hand and of those before it, at each statement.
GuardInv ==
    /\ pc \in Outside \ {"wake_end"} => Marks("tool_call") = dispatched
    /\ pc \in CallPcs => Marks("tool_call") = dispatched + 1
    /\ pc \in HandPcs => Marks("tool_call") = Marks("tool_result") + 1
    /\ pc \in {"mint", "authorize"} => Marks("AuthorizeExecution") = Marks("tool_result")
    /\ pc \in HandPcs \ {"mint", "authorize"} => Marks("AuthorizeExecution") = Marks("tool_call")
    /\ pc \in Outside \cup {"increment_iteration"} =>
           /\ Marks("tool_call") = Marks("tool_result")
           /\ Marks("AuthorizeExecution") = Marks("tool_result")
    /\ pc # "idle" => Marks("wake_end") = 0

\* Each event is counted under its own type.
LEMMA MarksGrow ==
    ASSUME TypeOK, NEW type \in EventTypes, AppendEvent(type), NEW mark
    PROVE  /\ Marks(mark) \in Nat
           /\ Marks(mark)' = IF mark = type THEN Marks(mark) + 1 ELSE Marks(mark)
<1> DEFINE S == {i \in DOMAIN log : Is(i, mark)}
<1>1. PICK n \in Nat :
          /\ n = Len(log) /\ DOMAIN log = 1 .. n /\ DOMAIN log' = 1 .. n + 1
          /\ \A i \in 1 .. n : log'[i] = log[i]
          /\ log'[n + 1] = [type |-> type, number |-> Number]
  <2>1. /\ Len(log) \in Nat /\ DOMAIN log = 1 .. Len(log) /\ DOMAIN log' = 1 .. Len(log) + 1
        /\ \A i \in 1 .. Len(log) : log'[i] = log[i]
        /\ log'[Len(log) + 1] = [type |-> type, number |-> Number]
    BY Grown
  <2> QED BY <2>1, Zenon
<1>2. log'[n + 1].type = type BY <1>1
<1>3. S \subseteq 1 .. n BY <1>1
<1>4. n + 1 \notin S
  <2>1. n + 1 \notin 1 .. n OBVIOUS
  <2> QED BY <1>3, <2>1
<1>5. IsFiniteSet(S)
  <2>1. IsFiniteSet(1 .. n) BY FS_Interval
  <2> QED BY <1>3, <2>1, FS_Subset
<1>6. Cardinality(S) \in Nat BY <1>5, FS_CardinalityType
<1>7. S' = IF mark = type THEN S \cup {n + 1} ELSE S
  <2>1. \A i \in 1 .. n + 1 : i \in 1 .. n \/ i = n + 1 BY <1>1, SMT
  <2>2. \A i \in 1 .. n : i \in S' <=> i \in S BY <1>1 DEF Is
  <2>3. n + 1 \in S' <=> mark = type BY <1>1, <1>2 DEF Is
  <2>4. S' \subseteq 1 .. n + 1 BY <1>1 DEF Is
  <2> QED BY <1>3, <2>1, <2>2, <2>3, <2>4
<1>8. Cardinality(S \cup {n + 1}) = Cardinality(S) + 1
  BY <1>4, <1>5, FS_AddElement
<1>9. Marks(mark) = Cardinality(S) /\ Marks(mark)' = Cardinality(S')
  BY DEF Marks
<1> QED BY <1>6, <1>7, <1>8, <1>9

LEMMA MarksStay ==
    ASSUME UNCHANGED log, NEW mark
    PROVE  Marks(mark)' = Marks(mark)
BY DEF Marks, Is

LEMMA MarksAreNumbers ==
    ASSUME TypeOK, NEW mark
    PROVE  Marks(mark) \in Nat
<1> DEFINE S == {i \in DOMAIN log : Is(i, mark)}
<1>1. S \subseteq 1 .. Len(log) /\ Len(log) \in Nat BY DEF TypeOK
<1>2. IsFiniteSet(S) BY <1>1, FS_Interval, FS_Subset
<1> QED BY <1>2, FS_CardinalityType DEF Marks

LEMMA NoMarks ==
    ASSUME log = << >>, NEW mark
    PROVE  Marks(mark) = 0
<1>1. {i \in DOMAIN log : Is(i, mark)} = {} BY NoEvents
<1> QED BY <1>1, FS_EmptySet DEF Marks

\* The types of event that the guard counts.
MarkTypes == {"tool_call", "AuthorizeExecution", "tool_result", "wake_end"}

LEMMA RecordSame ==
    ASSUME TypeOK,
           UNCHANGED log \/ \E type \in EventTypes \ MarkTypes : AppendEvent(type)
    PROVE  /\ Marks("tool_call")' = Marks("tool_call")
           /\ Marks("AuthorizeExecution")' = Marks("AuthorizeExecution")
           /\ Marks("tool_result")' = Marks("tool_result")
           /\ Marks("wake_end")' = Marks("wake_end")
<1>1. CASE UNCHANGED log BY <1>1, MarksStay
<1>2. ASSUME NEW type \in EventTypes \ MarkTypes, AppendEvent(type)
      PROVE  /\ Marks("tool_call")' = Marks("tool_call")
             /\ Marks("AuthorizeExecution")' = Marks("AuthorizeExecution")
             /\ Marks("tool_result")' = Marks("tool_result")
             /\ Marks("wake_end")' = Marks("wake_end")
  <2>1. ASSUME NEW mark \in MarkTypes PROVE Marks(mark)' = Marks(mark)
    <3>1. mark # type BY DEF MarkTypes
    <3> QED BY <1>2, <3>1, MarksGrow
  <2> QED BY <2>1 DEF MarkTypes
<1> QED BY <1>1, <1>2

LEMMA RecordGrows ==
    ASSUME TypeOK, NEW type \in MarkTypes, AppendEvent(type)
    PROVE  /\ Marks("tool_call")' =
                  IF type = "tool_call" THEN Marks("tool_call") + 1 ELSE Marks("tool_call")
           /\ Marks("AuthorizeExecution")' =
                  IF type = "AuthorizeExecution" THEN Marks("AuthorizeExecution") + 1
                                                 ELSE Marks("AuthorizeExecution")
           /\ Marks("tool_result")' =
                  IF type = "tool_result" THEN Marks("tool_result") + 1 ELSE Marks("tool_result")
           /\ Marks("wake_end")' =
                  IF type = "wake_end" THEN Marks("wake_end") + 1 ELSE Marks("wake_end")
<1>1. type \in EventTypes BY DEF MarkTypes, EventTypes
<1>2. ASSUME NEW mark \in MarkTypes
      PROVE  Marks(mark)' = IF mark = type THEN Marks(mark) + 1 ELSE Marks(mark)
  BY <1>1, MarksGrow
<1> QED BY <1>2 DEF MarkTypes

\* Steps between the statements of a round: no call is in hand.
LEMMA RoundSteps ==
    ASSUME TypeInv, LocalStep \/ EventStep
    PROVE  /\ UNCHANGED <<dispatched, call, effects, nonces>>
           /\ pc \in Outside \ {"wake_end"} /\ pc' \in Outside
           /\ UNCHANGED log \/ \E type \in EventTypes \ MarkTypes : AppendEvent(type)
<1>1. CASE LocalStep
  <2>1. pc # "wake_end"
    BY <1>1 DEF LocalStep, Iterate, HitIterationCap, ChatFails, Chat, EmptyResponse,
                InvalidCalls, ValidCalls, TextOnly, Stop, Completed, BatchDone, Break, Respond,
                WithOrWithoutText, Go
  <2> QED BY <1>1, <2>1, LocalStepFrame
<1>2. CASE EventStep
  <2>1. \E type \in EventTypes \ MarkTypes : AppendEvent(type)
    BY <1>2 DEF EventStep, StartEvents, PromptInjectionSuspected, SchemaInvalid,
                AssistantMessage, RateLimitExceeded, Emit, EventTypes, MarkTypes
  <2> QED BY <1>2, <2>1, EventStepFrame
<1> QED BY <1>1, <1>2

\* Steps that leave the record of calls and the place in the call alone.
OutsideStep ==
    \/ SetMode \/ NonceExpires
    \/ \E name \in Names : CreateCredential(name) \/ RevokeCredential(name)

LEMMA GuardInvNext == TypeInv /\ CountInv /\ GuardInv /\ [Next]_vars => GuardInv'
<1> SUFFICES ASSUME TypeInv, CountInv, GuardInv, [Next]_vars PROVE GuardInv'
  OBVIOUS
<1>0. TypeOK /\ dispatched \in Nat BY DEF TypeInv, TypeOK
<1>n. /\ Marks("tool_call") \in Nat /\ Marks("AuthorizeExecution") \in Nat
      /\ Marks("tool_result") \in Nat /\ Marks("wake_end") \in Nat
  BY <1>0, MarksAreNumbers
<1> USE DEF GuardInv, HandPcs, PermitPcs, CallPcs, Outside
<1>1. CASE LocalStep \/ EventStep
  <2>1. /\ UNCHANGED dispatched
        /\ pc \in Outside \ {"wake_end"} /\ pc' \in Outside
        /\ UNCHANGED log \/ \E type \in EventTypes \ MarkTypes : AppendEvent(type)
    BY <1>1, RoundSteps
  <2>2. /\ Marks("tool_call")' = Marks("tool_call")
        /\ Marks("AuthorizeExecution")' = Marks("AuthorizeExecution")
        /\ Marks("tool_result")' = Marks("tool_result")
        /\ Marks("wake_end")' = Marks("wake_end")
    BY <1>0, <2>1, RecordSame
  <2> QED BY <2>1, <2>2
<1>2. CASE BeginWake
  <2>1. ASSUME NEW mark PROVE Marks(mark)' = 0
    <3>1. {i \in DOMAIN log : Is(i, mark)}' = {} BY <1>2, NoEvents DEF BeginWake
    <3> QED BY <3>1, FS_EmptySet DEF Marks
  <2>2. pc' = "wake_start" /\ dispatched' = 0
    BY <1>2 DEF BeginWake, Go, CountInv, round
  <2> QED BY <2>1, <2>2
<1>3. CASE RecordToolCall
  <2>1. /\ AppendEvent("tool_call") /\ UNCHANGED dispatched /\ pc = "calls" /\ pc' = "mint"
    BY <1>3 DEF RecordToolCall, Go, round
  <2> QED BY <1>0, <1>n, <2>1, RecordGrows DEF MarkTypes, Pcs
<1>4. CASE AuthorizeExecution
  <2>1. /\ AppendEvent("AuthorizeExecution") /\ UNCHANGED dispatched
        /\ pc = "authorize" /\ pc' = "dispatch_tool"
    BY <1>4 DEF AuthorizeExecution, Emit, Go, round
  <2> QED BY <1>0, <1>n, <2>1, RecordGrows DEF MarkTypes
<1>5. CASE ToolReturns \/ ToolSleeps
  <2>1. /\ AppendEvent("tool_result") /\ UNCHANGED dispatched
        /\ pc \in {"tool_result", "sleep_result"}
        /\ pc' \in {"increment_iteration", "wake_end"}
    BY <1>5 DEF ToolReturns, ToolSleeps, Emit, Break, Go, round
  <2> QED BY <1>0, <1>n, <2>1, RecordGrows DEF MarkTypes
<1>6. CASE Mint \/ Denied \/ NonceRejected \/ Consume \/ (\E name \in Names : Resolve(name))
           \/ Unresolved \/ ExecuteShell
  <2>1. /\ UNCHANGED dispatched
        /\ \/ pc = "mint" /\ pc' = "authorize"
           \/ pc \in {"dispatch_tool", "resolve"}
              /\ pc' \in {"resolve", "tool_result", "sleep_result"}
    BY <1>6 DEF Mint, Denied, NonceRejected, Refuse, Consume, Resolve, Unresolved, ExecuteShell,
                Go, round
  <2>2. UNCHANGED log \/ \E type \in EventTypes \ MarkTypes : AppendEvent(type)
    BY <1>6 DEF Mint, Denied, NonceRejected, Refuse, Consume, Resolve, Unresolved, ExecuteShell,
                AppendBestEffort, EventTypes, MarkTypes
  <2>3. /\ Marks("tool_call")' = Marks("tool_call")
        /\ Marks("AuthorizeExecution")' = Marks("AuthorizeExecution")
        /\ Marks("tool_result")' = Marks("tool_result")
        /\ Marks("wake_end")' = Marks("wake_end")
    BY <1>0, <2>2, RecordSame
  <2> QED BY <2>1, <2>3
<1>7. CASE IncrementIteration
  <2>1. /\ UNCHANGED log /\ dispatched' = dispatched + 1
        /\ pc = "increment_iteration" /\ pc' = "calls"
    BY <1>7 DEF IncrementIteration, Go
  <2> QED BY <1>0, <1>n, <2>1, RecordSame DEF Pcs
<1>8. CASE EndWake \/ TaskFails
  BY <1>8 DEF EndWake, TaskFails, Return
<1>9. CASE OutsideStep \/ UNCHANGED vars
  <2>1. UNCHANGED <<log, pc, dispatched>>
    BY <1>9 DEF OutsideStep, SetMode, NonceExpires, CreateCredential, RevokeCredential, vars,
                round
  <2> QED BY <1>0, <2>1, RecordSame
<1> QED BY <1>1, <1>2, <1>3, <1>4, <1>5, <1>6, <1>7, <1>8, <1>9
        DEF Next, LoopStep, LocalStep, EventStep, OutsideStep

\* What is in hand, by the statement.
LEMMA HandByPc ==
    ASSUME TypeInv
    PROVE  /\ pc \in HandPcs => InHand = call.request /\ InHand \in Requests
           /\ pc \notin HandPcs => InHand = NoRequest
           /\ NoRequest \notin Requests
           /\ pc \in PermitPcs => /\ Permit = call.ticket /\ Permit # 0
                                  /\ Permit \in DOMAIN nonces
           /\ pc \notin PermitPcs => Permit = 0
<1>1. NoRequest \notin Requests
  <2>1. \A r \in Requests : r.tool \in Tools BY LoopAssumption
  <2> QED BY <2>1 DEF NoRequest, Tools
<1>2. pc \in HandPcs => call.request \in Requests BY DEF TypeInv, HandPcs, PermitPcs, CallPcs
<1>3. pc \in PermitPcs => call.ticket \in DOMAIN nonces
  BY DEF TypeInv, PermitPcs, TicketPcs, CallPcs
<1>4. 0 \notin DOMAIN nonces BY DEF TypeInv, TypeOK, NoncesTypeOK
<1> QED BY <1>1, <1>2, <1>3, <1>4 DEF InHand, Permit

LEMMA PermitsStay ==
    ASSUME UNCHANGED nonces
    PROVE  Permits' = Permits /\ Len(nonces)' = Len(nonces)
BY DEF Permits

LEMMA RanStays ==
    ASSUME UNCHANGED effects
    PROVE  Ran' = Ran
BY DEF Ran

\* Steps that the guard does not see.
LEMMA GuardStutters ==
    ASSUME UNCHANGED <<effects, nonces>>,
           Marks("tool_call")' = Marks("tool_call"),
           Marks("AuthorizeExecution")' = Marks("AuthorizeExecution"),
           Marks("tool_result")' = Marks("tool_result"),
           Marks("wake_end")' = Marks("wake_end"),
           pc = "idle" <=> pc' = "idle",
           pc = "resolve" <=> pc' = "resolve",
           InHand' = InHand,
           Permit' = Permit
    PROVE  UNCHANGED Guard!guardVars
<1>1. Permits' = Permits /\ Len(nonces)' = Len(nonces) /\ Ran' = Ran
  BY PermitsStay, RanStays
<1>2. /\ (pc # "idle")' = (pc # "idle")
      /\ (Marks("wake_end") > 0)' = (Marks("wake_end") > 0)
      /\ (pc = "resolve")' = (pc = "resolve")
  OBVIOUS
<1> QED BY <1>1, <1>2
        DEF Guard!guardVars, Guard!wakes, Guard!record, Guard!hand, Guard!permits

LEMMA GuardInit == Init => Guard!GuardInit
<1> SUFFICES ASSUME Init PROVE Guard!GuardInit OBVIOUS
<1>1. log = << >> /\ nonces = << >> /\ effects = {} /\ pc = "idle"
  BY DEF Init, NoncesInit
<1>2. /\ Marks("tool_call") = 0 /\ Marks("AuthorizeExecution") = 0
      /\ Marks("tool_result") = 0 /\ Marks("wake_end") = 0
  BY <1>1, NoMarks
<1>3. InHand = NoRequest /\ Permit = 0
  BY <1>1 DEF InHand, Permit, HandPcs, PermitPcs
<1>4. Len(nonces) = 0 /\ Permits = {} /\ Ran = {}
  BY <1>1, NoEvents DEF Permits, Ran
<1>5. (pc # "idle") = FALSE /\ (Marks("wake_end") > 0) = FALSE /\ (pc = "resolve") = FALSE
  BY <1>1, <1>2
<1> QED BY <1>2, <1>3, <1>4, <1>5 DEF Guard!GuardInit, Guard!EmptyHanded

\* The mint gives out the next number; the redemption and the expiry take a permit away.
LEMMA PermitMinted ==
    ASSUME NoncesTypeOK, NEW w, NEW r,
           [wake |-> w, request |-> r, consumed |-> FALSE, expired |-> FALSE] \in NonceRows,
           mint(w, r)
    PROVE  /\ Len(nonces') = Len(nonces) + 1
           /\ Permits' = Permits \cup {Len(nonces) + 1}
<1> DEFINE new == [wake |-> w, request |-> r, consumed |-> FALSE, expired |-> FALSE]
<1>1. PICK n \in Nat : n = Len(nonces) /\ DOMAIN nonces = 1 .. n
  BY DEF NoncesTypeOK
<1>2. /\ Len(nonces') = n + 1 /\ DOMAIN nonces' = 1 .. n + 1
      /\ \A i \in 1 .. n : nonces'[i] = nonces[i]
      /\ nonces'[n + 1] = new
  BY <1>1, AppendProperties DEF mint, NoncesTypeOK
<1>3. ~nonces'[n + 1].consumed /\ ~nonces'[n + 1].expired BY <1>2
<1>4. \A i \in 1 .. n + 1 : i \in 1 .. n \/ i = n + 1 BY <1>1, SMT
<1>5. \A i \in 1 .. n : i \in Permits' <=> i \in Permits BY <1>1, <1>2 DEF Permits
<1>6. n + 1 \in Permits' BY <1>1, <1>2, <1>3 DEF Permits
<1>7. Permits \subseteq 1 .. n /\ Permits' \subseteq 1 .. n + 1
  BY <1>1, <1>2 DEF Permits
<1>8. Permits' = Permits \cup {n + 1}
  BY <1>4, <1>5, <1>6, <1>7
<1> QED BY <1>1, <1>2, <1>8

LEMMA PermitTaken ==
    ASSUME NoncesTypeOK, NEW n \in Permits,
           \/ nonces' = [nonces EXCEPT ![n].consumed = TRUE]
           \/ nonces' = [nonces EXCEPT ![n].expired = TRUE]
    PROVE  Len(nonces)' = Len(nonces) /\ Permits' = Permits \ {n}
<1>1. n \in DOMAIN nonces BY DEF Permits
<1>2. NoncesTypeOK' /\ DOMAIN nonces' = DOMAIN nonces BY <1>1, FlagsTyped
<1>3. Len(nonces)' = Len(nonces)
  <2>1. /\ Len(nonces) \in Nat /\ DOMAIN nonces = 1 .. Len(nonces)
        /\ Len(nonces') \in Nat /\ DOMAIN nonces' = 1 .. Len(nonces')
    BY <1>2, LenProperties DEF NoncesTypeOK
  <2> QED BY <1>2, <2>1
<1>4. nonces'[n].consumed \/ nonces'[n].expired
  <2>1. nonces[n] \in NonceRows BY <1>1 DEF NoncesTypeOK
  <2> QED BY <1>1, <2>1 DEF NonceRows
<1>5. \A m \in DOMAIN nonces \ {n} : nonces'[m] = nonces[m] BY <1>1
<1>6. n \notin Permits' BY <1>4 DEF Permits
<1>7. \A m \in DOMAIN nonces \ {n} : m \in Permits' <=> m \in Permits
  BY <1>2, <1>5 DEF Permits
<1>8. Permits \subseteq DOMAIN nonces /\ Permits' \subseteq DOMAIN nonces
  BY <1>2 DEF Permits
<1> QED BY <1>3, <1>6, <1>7, <1>8

\* Steps between two statements of a round, and those beside the loop but for expiry.
LEMMA UnseenSteps ==
    ASSUME TypeInv, GuardInv,
           \/ LocalStep \/ EventStep \/ Denied \/ NonceRejected \/ IncrementIteration
           \/ (\E name \in Names : Resolve(name)) \/ SetMode \/ UNCHANGED vars
           \/ \E name \in Names : CreateCredential(name) \/ RevokeCredential(name)
    PROVE  UNCHANGED Guard!guardVars
<1>0. TypeOK BY DEF TypeInv
<1> USE DEF InHand, Permit
<1>1. CASE LocalStep \/ EventStep
  <2>1. /\ UNCHANGED <<call, effects, nonces>>
        /\ pc \in Outside \ {"wake_end"} /\ pc' \in Outside
        /\ UNCHANGED log \/ \E type \in EventTypes \ MarkTypes : AppendEvent(type)
    BY <1>1, RoundSteps
  <2>2. InHand' = InHand /\ Permit' = Permit
    BY <2>1 DEF Outside, CallPcs, HandPcs, PermitPcs
  <2>3. (pc = "idle" <=> pc' = "idle") /\ (pc = "resolve" <=> pc' = "resolve")
    BY <2>1 DEF Outside, CallPcs
  <2> QED BY <1>0, <2>1, <2>2, <2>3, RecordSame, GuardStutters
<1>2. CASE Denied \/ NonceRejected
  <2>1. /\ UNCHANGED <<call, effects, nonces>> /\ pc = "dispatch_tool" /\ pc' = "tool_result"
    BY <1>2 DEF Denied, NonceRejected, Refuse, Go, database
  <2>2. UNCHANGED log \/ \E type \in EventTypes \ MarkTypes : AppendEvent(type)
    BY <1>2 DEF Denied, NonceRejected, Refuse, AppendBestEffort, EventTypes, MarkTypes
  <2>3. InHand' = InHand /\ Permit' = Permit
    BY <2>1 DEF HandPcs, PermitPcs
  <2> QED BY <1>0, <2>1, <2>2, <2>3, RecordSame, GuardStutters
<1>3. CASE IncrementIteration
  <2>1. /\ UNCHANGED <<log, effects, nonces>> /\ pc = "increment_iteration" /\ pc' = "calls"
    BY <1>3 DEF IncrementIteration, Go, database
  <2>2. InHand' = InHand /\ Permit' = Permit
    BY <2>1 DEF HandPcs, PermitPcs
  <2> QED BY <1>0, <2>1, <2>2, RecordSame, GuardStutters
<1>4. CASE \E name \in Names : Resolve(name)
  <2>1. UNCHANGED <<log, effects, nonces, pc>> BY <1>4 DEF Resolve, database
  <2>2. call'.request = call.request /\ call'.ticket = call.ticket
    BY <1>0, <1>4 DEF Resolve, TypeOK, Calls
  <2>3. InHand' = InHand /\ Permit' = Permit BY <2>1, <2>2
  <2> QED BY <1>0, <2>1, <2>3, RecordSame, GuardStutters
<1>5. CASE SetMode \/ UNCHANGED vars
            \/ \E name \in Names : CreateCredential(name) \/ RevokeCredential(name)
  <2>1. UNCHANGED <<log, effects, nonces, pc, call>>
    BY <1>5 DEF SetMode, CreateCredential, RevokeCredential, vars, database
  <2>2. InHand' = InHand /\ Permit' = Permit BY <2>1
  <2> QED BY <1>0, <2>1, <2>2, RecordSame, GuardStutters
<1> QED BY <1>1, <1>2, <1>3, <1>4, <1>5

\* Each other step of the loop is one of the guard's.
LEMMA GuardSteps ==
    TypeInv /\ CountInv /\ GuardInv /\ [Next]_vars => [Guard!GuardNext]_(Guard!guardVars)
<1> SUFFICES ASSUME TypeInv, CountInv, GuardInv, [Next]_vars
             PROVE  [Guard!GuardNext]_(Guard!guardVars)
  OBVIOUS
<1>0. TypeOK /\ dispatched \in Nat /\ NoncesTypeOK BY DEF TypeInv, TypeOK
<1>n. /\ Marks("tool_call") \in Nat /\ Marks("AuthorizeExecution") \in Nat
      /\ Marks("tool_result") \in Nat /\ Marks("wake_end") \in Nat
  BY <1>0, MarksAreNumbers
<1> USE DEF Guard!wakes, Guard!record, Guard!hand, Guard!permits, Guard!EmptyHanded
<1>1. CASE BeginWake
  <2>1. ASSUME NEW mark PROVE Marks(mark)' = 0
    <3>1. {i \in DOMAIN log : Is(i, mark)}' = {} BY <1>1, NoEvents DEF BeginWake
    <3> QED BY <3>1, FS_EmptySet DEF Marks
  <2>2. pc = "idle" /\ pc' = "wake_start" /\ UNCHANGED <<nonces, call>> /\ effects' = {}
    BY <1>1 DEF BeginWake, Go, database
  <2>3. InHand' = InHand /\ Permit' = Permit
    BY <2>2 DEF InHand, Permit, HandPcs, PermitPcs
  <2>4. Permits' = Permits /\ Len(nonces)' = Len(nonces) /\ Ran' = {}
    BY <2>2, PermitsStay DEF Ran
  <2>5. /\ ~(pc # "idle") /\ (pc' # "idle") = TRUE
        /\ (Marks("wake_end") > 0)' = FALSE
        /\ (pc = "resolve")' = (pc = "resolve")
    BY <2>1, <2>2
  <2>6. Guard!Begin BY <2>1, <2>3, <2>4, <2>5 DEF Guard!Begin
  <2> QED BY <2>6 DEF Guard!GuardNext
<1>2. CASE RecordToolCall
  <2>1. /\ AppendEvent("tool_call") /\ UNCHANGED <<effects, nonces>>
        /\ pc = "calls" /\ pc' = "mint"
    BY <1>2 DEF RecordToolCall, Go, database
  <2>2. PICK r \in Requests : call' = [NoCall EXCEPT !.request = r, !.names = r.names]
    BY <1>2 DEF RecordToolCall
  <2>3. InHand = NoRequest /\ Permit = 0 /\ InHand' = r /\ Permit' = 0
    BY <2>1, <2>2 DEF InHand, Permit, HandPcs, PermitPcs, NoCall
  <2>4. /\ Marks("tool_call")' = Marks("tool_call") + 1
        /\ Marks("AuthorizeExecution")' = Marks("AuthorizeExecution")
        /\ Marks("tool_result")' = Marks("tool_result")
        /\ Marks("wake_end")' = Marks("wake_end")
    BY <1>0, <2>1, RecordGrows DEF MarkTypes
  <2>5. Permits' = Permits /\ Len(nonces)' = Len(nonces) /\ Ran' = Ran
    BY <2>1, PermitsStay, RanStays
  <2>6. Marks("tool_call") = Marks("tool_result")
    BY <2>1 DEF GuardInv, Outside, Pcs, CallPcs
  <2>7. /\ pc # "idle" /\ (pc # "idle")' = (pc # "idle")
        /\ (Marks("wake_end") > 0)' = (Marks("wake_end") > 0)
        /\ (pc = "resolve") = FALSE /\ (pc = "resolve")' = (pc = "resolve")
    BY <2>1, <2>4
  <2>8. Guard!Record(r)
    BY <2>3, <2>4, <2>5, <2>6, <2>7 DEF Guard!Record
  <2> QED BY <2>8 DEF Guard!GuardNext
<1>3. CASE Mint
  <2>1. /\ UNCHANGED <<log, effects>> /\ pc = "mint" /\ pc' = "authorize"
        /\ mint(wake, call.request)
        /\ call' = [call EXCEPT !.ticket = Len(nonces')]
    BY <1>3 DEF Mint, Go
  <2>2. InHand = call.request /\ InHand \in Requests /\ NoRequest \notin Requests /\ Permit = 0
    BY <2>1, HandByPc DEF HandPcs, PermitPcs
  <2>3. [wake |-> wake, request |-> call.request, consumed |-> FALSE, expired |-> FALSE]
            \in NonceRows
    BY <1>0, <2>2, LoopAssumption DEF NonceRows, TypeOK
  <2>4. Len(nonces') = Len(nonces) + 1 /\ Permits' = Permits \cup {Len(nonces) + 1}
    BY <1>0, <2>1, <2>3, PermitMinted
  <2>5. call'.request = call.request /\ call'.ticket = Len(nonces')
    BY <1>0, <2>1 DEF TypeOK, Calls
  <2>6. InHand' = InHand /\ Permit' = Len(nonces')
    BY <2>1, <2>2, <2>5 DEF InHand, Permit, HandPcs, PermitPcs
  <2>7. /\ Marks("tool_call")' = Marks("tool_call")
        /\ Marks("AuthorizeExecution")' = Marks("AuthorizeExecution")
        /\ Marks("tool_result")' = Marks("tool_result")
        /\ Marks("wake_end")' = Marks("wake_end")
    BY <1>0, <2>1, RecordSame
  <2>8. /\ (pc # "idle")' = (pc # "idle")
        /\ (Marks("wake_end") > 0)' = (Marks("wake_end") > 0)
        /\ (pc = "resolve")' = (pc = "resolve") /\ Ran' = Ran
    BY <2>1, <2>7, RanStays
  <2>9. Guard!Issue
    BY <2>2, <2>4, <2>6, <2>7, <2>8 DEF Guard!Issue
  <2> QED BY <2>9 DEF Guard!GuardNext
<1>4. CASE AuthorizeExecution
  <2>1. /\ AppendEvent("AuthorizeExecution") /\ UNCHANGED <<call, effects, nonces>>
        /\ pc = "authorize" /\ pc' = "dispatch_tool"
    BY <1>4 DEF AuthorizeExecution, Emit, Go, database
  <2>2. InHand' = InHand /\ Permit' = Permit /\ Permit # 0
    BY <2>1, HandByPc DEF InHand, Permit, HandPcs, PermitPcs
  <2>3. /\ Marks("tool_call")' = Marks("tool_call")
        /\ Marks("AuthorizeExecution")' = Marks("AuthorizeExecution") + 1
        /\ Marks("tool_result")' = Marks("tool_result")
        /\ Marks("wake_end")' = Marks("wake_end")
    BY <1>0, <2>1, RecordGrows DEF MarkTypes
  <2>4. /\ Marks("AuthorizeExecution") = Marks("tool_result")
        /\ Marks("AuthorizeExecution")' = Marks("tool_call")
    BY <2>1, <2>3 DEF GuardInv, HandPcs, PermitPcs
  <2>5. Permits' = Permits /\ Len(nonces)' = Len(nonces) /\ Ran' = Ran
    BY <2>1, PermitsStay, RanStays
  <2>6. /\ (pc # "idle")' = (pc # "idle")
        /\ (Marks("wake_end") > 0)' = (Marks("wake_end") > 0)
        /\ (pc = "resolve")' = (pc = "resolve")
    BY <2>1, <2>3
  <2>7. Guard!Authorize
    BY <2>2, <2>3, <2>4, <2>5, <2>6 DEF Guard!Authorize
  <2> QED BY <2>7 DEF Guard!GuardNext
<1>5. CASE Consume
  <2>1. /\ UNCHANGED <<log, effects, call>> /\ pc = "dispatch_tool"
        /\ pc' = CASE call.request.tool = "shell" -> "resolve"
                   [] call.request.tool = "sleep" -> "sleep_result"
                   [] OTHER -> "tool_result"
        /\ consume(call.ticket, wake, call.request)
    BY <1>5 DEF Consume
  <2>2. /\ InHand = call.request /\ InHand \in Requests
        /\ Permit = call.ticket /\ Permit \in DOMAIN nonces
    BY <2>1, HandByPc DEF HandPcs, PermitPcs
  <2>3. InHand' = InHand /\ Permit' = Permit
    BY <2>1 DEF InHand, Permit, HandPcs, PermitPcs
  <2>4. Permit \in Permits BY <2>1, <2>2 DEF consume, Redeemable, Permits
  <2>5. Len(nonces)' = Len(nonces) /\ Permits' = Permits \ {Permit}
    BY <1>0, <2>1, <2>2, <2>4, PermitTaken DEF consume
  <2>6. (pc = "resolve")' = (InHand \in {r \in Requests : r.tool = "shell"})
    BY <2>1, <2>2
  <2>7. /\ Marks("tool_call")' = Marks("tool_call")
        /\ Marks("AuthorizeExecution")' = Marks("AuthorizeExecution")
        /\ Marks("tool_result")' = Marks("tool_result")
        /\ Marks("wake_end")' = Marks("wake_end")
    BY <1>0, <2>1, RecordSame
  <2>8. Marks("AuthorizeExecution") = Marks("tool_call")
    BY <2>1 DEF GuardInv, HandPcs, PermitPcs
  <2>9. /\ (pc # "idle")' = (pc # "idle")
        /\ (Marks("wake_end") > 0)' = (Marks("wake_end") > 0)
        /\ Ran' = Ran
    BY <2>1, <2>7, RanStays
  <2>10. Guard!Spend
    BY <2>3, <2>4, <2>5, <2>6, <2>7, <2>8, <2>9 DEF Guard!Spend
  <2> QED BY <2>10 DEF Guard!GuardNext
<1>6. CASE ExecuteShell
  <2>1. /\ UNCHANGED <<log, nonces, call>> /\ pc = "resolve" /\ pc' = "tool_result"
        /\ effects' = effects \cup
               {[number |-> Number, request |-> call.request, ticket |-> call.ticket,
                 secrets |-> call.secrets, at |-> Len(log)]}
    BY <1>6 DEF ExecuteShell, Go, database
  <2>2. InHand = call.request /\ Permit = call.ticket /\ InHand' = InHand /\ Permit' = Permit
    BY <2>1 DEF InHand, Permit, HandPcs, PermitPcs
  <2>3. Marks("tool_call") = Number
    BY <2>1 DEF GuardInv, CallPcs, Number
  <2>4. Ran' = Ran \cup
            {[call |-> Marks("tool_call"), request |-> InHand, permit |-> Permit]}
    <3> DEFINE e == [number |-> Number, request |-> call.request, ticket |-> call.ticket,
                     secrets |-> call.secrets, at |-> Len(log)]
               shown(x) == [call |-> x.number, request |-> x.request, permit |-> x.ticket]
    <3>1. Ran = {shown(x) : x \in effects} BY DEF Ran
    <3>2. Ran' = {shown(x) : x \in effects'} BY DEF Ran
    <3>3. effects' = effects \cup {e} BY <2>1
    <3>4. shown(e) = [call |-> Marks("tool_call"), request |-> InHand, permit |-> Permit]
      BY <2>2, <2>3
    <3> HIDE DEF e, shown
    <3>5. Ran' = Ran \cup {shown(e)}
      BY <3>1, <3>2, <3>3
    <3> QED BY <3>4, <3>5
  <2>5. /\ Marks("tool_call")' = Marks("tool_call")
        /\ Marks("AuthorizeExecution")' = Marks("AuthorizeExecution")
        /\ Marks("tool_result")' = Marks("tool_result")
        /\ Marks("wake_end")' = Marks("wake_end")
    BY <1>0, <2>1, RecordSame
  <2>6. /\ (pc # "idle")' = (pc # "idle")
        /\ (Marks("wake_end") > 0)' = (Marks("wake_end") > 0)
        /\ pc = "resolve" /\ (pc = "resolve")' = FALSE
        /\ Permits' = Permits /\ Len(nonces)' = Len(nonces)
    BY <2>1, <2>5, PermitsStay
  <2>7. Guard!Run
    BY <2>2, <2>4, <2>5, <2>6 DEF Guard!Run
  <2> QED BY <2>7 DEF Guard!GuardNext
<1>7. CASE Unresolved
  <2>1. /\ UNCHANGED <<effects, nonces, call>> /\ pc = "resolve" /\ pc' = "tool_result"
        /\ UNCHANGED log \/ \E type \in EventTypes \ MarkTypes : AppendEvent(type)
    BY <1>7 DEF Unresolved, Go, AppendBestEffort, database, EventTypes, MarkTypes
  <2>2. InHand' = InHand /\ Permit' = Permit
    BY <2>1 DEF InHand, Permit, HandPcs, PermitPcs
  <2>3. /\ Marks("tool_call")' = Marks("tool_call")
        /\ Marks("AuthorizeExecution")' = Marks("AuthorizeExecution")
        /\ Marks("tool_result")' = Marks("tool_result")
        /\ Marks("wake_end")' = Marks("wake_end")
    BY <1>0, <2>1, RecordSame
  <2>4. /\ (pc # "idle")' = (pc # "idle")
        /\ (Marks("wake_end") > 0)' = (Marks("wake_end") > 0)
        /\ pc = "resolve" /\ (pc = "resolve")' = FALSE
        /\ Permits' = Permits /\ Len(nonces)' = Len(nonces) /\ Ran' = Ran
    BY <2>1, <2>3, PermitsStay, RanStays
  <2>5. Guard!Forgo BY <2>2, <2>3, <2>4 DEF Guard!Forgo
  <2> QED BY <2>5 DEF Guard!GuardNext
<1>8. CASE ToolReturns \/ ToolSleeps
  <2>1. /\ AppendEvent("tool_result") /\ UNCHANGED <<effects, nonces, call>>
        /\ pc \in {"tool_result", "sleep_result"}
        /\ pc' \in {"increment_iteration", "wake_end"}
    BY <1>8 DEF ToolReturns, ToolSleeps, Emit, Break, Go, database
  <2>2. Permit # 0 /\ InHand' = NoRequest /\ Permit' = 0
    BY <2>1, HandByPc DEF InHand, Permit, HandPcs, PermitPcs
  <2>3. /\ Marks("tool_call")' = Marks("tool_call")
        /\ Marks("AuthorizeExecution")' = Marks("AuthorizeExecution")
        /\ Marks("tool_result")' = Marks("tool_result") + 1
        /\ Marks("wake_end")' = Marks("wake_end")
    BY <1>0, <2>1, RecordGrows DEF MarkTypes
  <2>4. /\ Marks("AuthorizeExecution") = Marks("tool_call")
        /\ Marks("tool_result")' = Marks("tool_call")
    BY <2>1, <2>3 DEF GuardInv, HandPcs, PermitPcs
  <2>5. /\ (pc # "idle")' = (pc # "idle")
        /\ (Marks("wake_end") > 0)' = (Marks("wake_end") > 0)
        /\ ~(pc = "resolve") /\ (pc = "resolve")' = FALSE
        /\ Permits' = Permits /\ Len(nonces)' = Len(nonces) /\ Ran' = Ran
    BY <2>1, <2>3, PermitsStay, RanStays
  <2>6. Guard!Answer
    BY <2>2, <2>3, <2>4, <2>5 DEF Guard!Answer
  <2> QED BY <2>6 DEF Guard!GuardNext
<1>9. CASE EndWake \/ TaskFails
  <2>1. /\ UNCHANGED <<effects, nonces>> /\ pc # "idle" /\ pc' = "idle"
    BY <1>9 DEF EndWake, TaskFails, Return, database
  <2>2. InHand' = NoRequest /\ Permit' = 0
    BY <2>1 DEF InHand, Permit, HandPcs, PermitPcs
  <2>3. /\ pc # "idle" /\ (pc # "idle")' = FALSE /\ (pc = "resolve")' = FALSE
        /\ Permits' = Permits /\ Len(nonces)' = Len(nonces) /\ Ran' = Ran
    BY <2>1, PermitsStay, RanStays
  <2>4. CASE EndWake
    <3>1. pc = "wake_end" /\ AppendEvent("wake_end") BY <2>4 DEF EndWake
    <3>2. /\ Marks("tool_call")' = Marks("tool_call")
          /\ Marks("AuthorizeExecution")' = Marks("AuthorizeExecution")
          /\ Marks("tool_result")' = Marks("tool_result")
          /\ Marks("wake_end")' = Marks("wake_end") + 1
      BY <1>0, <3>1, RecordGrows DEF MarkTypes
    <3>3. (Marks("wake_end") > 0)' = TRUE BY <1>n, <3>2
    <3>4. InHand = NoRequest /\ Permit = 0 /\ (pc = "resolve") = FALSE
      BY <3>1 DEF InHand, Permit, HandPcs, PermitPcs
    <3>5. Marks("tool_result") = Marks("tool_call")
      BY <3>1 DEF GuardInv, Outside, Pcs, CallPcs
    <3>6. Guard!Finish
      BY <2>2, <2>3, <3>2, <3>3, <3>4, <3>5 DEF Guard!Finish
    <3> QED BY <3>6 DEF Guard!GuardNext
  <2>5. CASE TaskFails
    <3>1. UNCHANGED log BY <2>5 DEF TaskFails
    <3>2. /\ Marks("tool_call")' = Marks("tool_call")
          /\ Marks("AuthorizeExecution")' = Marks("AuthorizeExecution")
          /\ Marks("tool_result")' = Marks("tool_result")
          /\ Marks("wake_end")' = Marks("wake_end")
      BY <1>0, <3>1, RecordSame
    <3>3. (Marks("wake_end") > 0)' = (Marks("wake_end") > 0) BY <3>2
    <3>4. Guard!Vanish
      BY <2>2, <2>3, <3>2, <3>3 DEF Guard!Vanish
    <3> QED BY <3>4 DEF Guard!GuardNext
  <2> QED BY <1>9, <2>4, <2>5
<1>10. CASE NonceExpires
  <2>1. /\ UNCHANGED <<log, effects, call, pc>> /\ pc \in {"authorize", "dispatch_tool"}
        /\ expire(call.ticket)
    BY <1>10 DEF NonceExpires
  <2>2. Permit = call.ticket /\ Permit \in DOMAIN nonces
    BY <2>1, HandByPc DEF HandPcs, PermitPcs
  <2>3. Permit \in Permits BY <2>1, <2>2 DEF expire, Permits
  <2>4. Len(nonces)' = Len(nonces) /\ Permits' = Permits \ {Permit}
    BY <1>0, <2>1, <2>2, <2>3, PermitTaken DEF expire
  <2>5. InHand' = InHand /\ Permit' = Permit BY <2>1 DEF InHand, Permit
  <2>6. /\ Marks("tool_call")' = Marks("tool_call")
        /\ Marks("AuthorizeExecution")' = Marks("AuthorizeExecution")
        /\ Marks("tool_result")' = Marks("tool_result")
        /\ Marks("wake_end")' = Marks("wake_end")
    BY <1>0, <2>1, RecordSame
  <2>7. /\ (pc # "idle")' = (pc # "idle")
        /\ (Marks("wake_end") > 0)' = (Marks("wake_end") > 0)
        /\ (pc = "resolve")' = (pc = "resolve") /\ Ran' = Ran
    BY <2>1, <2>6, RanStays
  <2>8. Guard!Expire(Permit)
    BY <2>3, <2>4, <2>5, <2>6, <2>7 DEF Guard!Expire
  <2> QED BY <2>3, <2>8 DEF Guard!GuardNext
<1>11. CASE \/ LocalStep \/ EventStep \/ Denied \/ NonceRejected \/ IncrementIteration
            \/ (\E name \in Names : Resolve(name)) \/ SetMode \/ UNCHANGED vars
            \/ \E name \in Names : CreateCredential(name) \/ RevokeCredential(name)
  BY <1>11, UnseenSteps
<1> QED BY <1>1, <1>2, <1>3, <1>4, <1>5, <1>6, <1>7, <1>8, <1>9, <1>10, <1>11
        DEF Next, LoopStep, LocalStep, EventStep

\* The loop implements the guard, for every request, cap and limit and however many
\* wakes there are: what the event log, the nonces and the commands show of a call is
\* its record, its permit, its authorisation, the permit spent once and in time, the
\* command after that and once, and an answer before the next call and the wake's end.
THEOREM GuardImplemented == Spec => ImplementsGuard
<1>1. Init => GuardInv
  <2> SUFFICES ASSUME Init PROVE GuardInv OBVIOUS
  <2>1. pc = "idle" BY DEF Init
  <2> QED BY <2>1 DEF GuardInv, Outside, CallPcs, HandPcs, PermitPcs
<1>2. TypeInv /\ CountInv /\ GuardInv /\ [Next]_vars => GuardInv' BY GuardInvNext
<1>3. Init => Guard!GuardInit BY GuardInit
<1>4. TypeInv /\ CountInv /\ GuardInv /\ [Next]_vars => [Guard!GuardNext]_(Guard!guardVars)
  BY GuardSteps
<1> QED BY <1>1, <1>2, <1>3, <1>4, TypeInvariant, CountInvariant, PTL
        DEF Spec, ImplementsGuard, Guard!GuardSpec
=============================================================================
