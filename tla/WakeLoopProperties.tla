------------------------- MODULE WakeLoopProperties -------------------------
(***************************************************************************)
(* What a wake promises about its calls, stated over the events it leaves  *)
(* behind, the commands that ran, the nonces and the credentials.          *)
(***************************************************************************)
EXTENDS WakeLoop

Is(i, type) == log[i].type = type
IsOf(i, type, number) == log[i] = [type |-> type, number |-> number]

\* Both events of a call are among the first n.
LoggedBefore(n, number) ==
    \E i, j \in 1 .. n :
        i < j /\ IsOf(i, "tool_call", number) /\ IsOf(j, "AuthorizeExecution", number)

\* A command runs only after its tool_call and its AuthorizeExecution are in the
\* event log, in that order, and each for a call of its own.
EffectsAreLogged ==
    \A e \in effects :
        /\ LoggedBefore(e.at, e.number)
        /\ \A f \in effects : e.number = f.number => e = f

AnsweredBefore(i, k) == \E j \in i .. k : IsOf(j, "tool_result", log[i].number)

\* The record that the mode refused the call of the i-th event.
DenialOf(i) == [type |-> "tool_capability_denied", number |-> log[i].number]

\* A wake has one call in flight: each has its result before the next is recorded, or
\* is on record as denied by the mode, and a wake that ended without a failure has no
\* other calls.
CallsAreAnswered ==
    \A i, k \in DOMAIN log :
        i < k /\ Is(i, "tool_call") /\ (Is(k, "tool_call") \/ Is(k, "wake_end"))
            => AnsweredBefore(i, k) \/ \E j \in i .. k : log[j] = DenialOf(i)

\* AC-80: a command that ran spent a nonce minted for this very wake and request,
\* before it expired, and no two commands spent the same one.
NonceGuardsEffect ==
    \A e \in effects :
        /\ e.ticket \in DOMAIN nonces
        /\ nonces[e.ticket] = [wake |-> wake, request |-> e.request,
                               consumed |-> TRUE, expired |-> FALSE]
        /\ \A f \in effects : e.ticket = f.ticket => e = f

\* AC-43: a command gets the credentials it asks for, all of them, and none that
\* was revoked before the command was authorised.
SecretsAreCurrent ==
    /\ \A e \in effects : {credentials[r].name : r \in e.secrets} = e.request.names
    /\ pc = "resolve" => call.secrets \subseteq live

\* AC-35: a command is about to run only if, at some moment since the loop came
\* round to this response, the agent's mode allowed it.
GateUsesARecentMode ==
    pc = "resolve" => \E m \in modes : mode_allows(m, call.request.tool)

\* AC-79: no wake records more calls than its limit, nor overruns the iteration
\* cap by more than the response that crosses it.
DispatchesBounded ==
    \A i \in DOMAIN log :
        Is(i, "tool_call") => /\ log[i].number <= RateLimit
                              /\ log[i].number < IterationCap + MaxBatch

\* AC-79: after an echoed canary or an exceeded limit a wake does nothing more.
TerminalEventsAreLast ==
    \A i, k \in DOMAIN log :
        /\ Is(i, "prompt_injection_suspected") \/ Is(i, "tool_call_rate_limit_exceeded")
        /\ i < k
        => Is(k, "wake_end")

InvalidSinceLastCall ==
    {i \in DOMAIN log :
        /\ Is(i, "model_response_schema_invalid")
        /\ \A k \in DOMAIN log : k > i => ~Is(k, "tool_call")}

\* AC-79: a wake ends in FailureAuditPending for its limit, or for as many invalid
\* responses as the retry cap since it last handled a call.
FailureIsEarned ==
    pc = "wake_end" /\ reason = "FailureAuditPending" =>
        \/ \E i \in DOMAIN log : Is(i, "tool_call_rate_limit_exceeded")
        \/ Cardinality(InvalidSinceLastCall) >= SchemaCap

-----------------------------------------------------------------------------
(* The wake as a guard of its calls.                                       *)

\* How many events of the wake are of a type.
Marks(type) == Cardinality({i \in DOMAIN log : Is(i, type)})

\* A call is in hand from its record to its answer, and has its permit from the mint on.
PermitPcs == {"authorize", "dispatch_tool", "resolve", "tool_result", "sleep_result"}
HandPcs   == PermitPcs \cup {"mint"}

InHand  == IF pc \in HandPcs THEN call.request ELSE NoRequest
Permit  == IF pc \in PermitPcs THEN call.ticket ELSE 0
Permits == {n \in DOMAIN nonces : ~nonces[n].consumed /\ ~nonces[n].expired}
Ran     == {[call |-> e.number, request |-> e.request, permit |-> e.ticket] : e \in effects}

Guard == INSTANCE GuardedCalls WITH
    Commands   <- {r \in Requests : r.tool = "shell"},
    open       <- pc # "idle",
    over       <- Marks("wake_end") > 0,
    recorded   <- Marks("tool_call"),
    authorized <- Marks("AuthorizeExecution"),
    answered   <- Marks("tool_result"),
    request    <- InHand,
    permit     <- Permit,
    issued     <- Len(nonces),
    valid      <- Permits,
    cleared    <- pc = "resolve",
    ran        <- Ran

\* Rounds, modes, credentials, refusals and failures left out, what the event log, the
\* nonces and the commands show is the guard's protocol: a record, a permit, an
\* authorisation, the permit spent, the command, the answer, and then the next call.
ImplementsGuard == Guard!GuardSpec

-----------------------------------------------------------------------------

\* AC-4: text puts the agent to sleep and the iteration cap stops whatever else
\* goes on, so a wake that has begun comes to its end.
WakeEnds == pc # "idle" ~> pc = "idle"
=============================================================================
