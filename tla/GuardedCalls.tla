---------------------------- MODULE GuardedCalls ----------------------------
(***************************************************************************)
(* What a wake promises about the calls it makes: a guard.  A call is put  *)
(* on record, gets a permit, is authorised on record, and spends its       *)
(* permit, once and in time; only then may its command run, once.  It is   *)
(* answered, whatever became of it, before there is a next one and before  *)
(* the wake says that it is over.  A wake may vanish at any moment.        *)
(***************************************************************************)
EXTENDS Naturals

CONSTANTS
    Requests,   \* what a call may ask for
    Commands,   \* those of them that run a command
    NoRequest   \* no call is in hand

VARIABLES
    open,       \* a wake is going on
    over,       \* the last wake has said that it is over
    recorded,   \* its calls on record
    authorized, \* its authorisations on record
    answered,   \* its answers on record
    request,    \* what the call in hand asks for, or NoRequest
    permit,     \* the permit it was given, or 0
    issued,     \* permits ever issued, the last one's number
    valid,      \* those of them that were not spent and did not expire
    cleared,    \* the call in hand has spent its permit for a command
    ran         \* the commands that ran in this wake, with call and permit

wakes   == <<open, over>>
record  == <<recorded, authorized, answered>>
hand    == <<request, permit, cleared>>
permits == <<issued, valid>>

guardVars == <<wakes, record, hand, permits, ran>>

EmptyHanded == request = NoRequest /\ permit = 0 /\ cleared = FALSE

GuardInit ==
    /\ open = FALSE /\ over = FALSE
    /\ recorded = 0 /\ authorized = 0 /\ answered = 0
    /\ EmptyHanded
    /\ issued = 0 /\ valid = {} /\ ran = {}

Begin ==
    /\ ~open
    /\ open' = TRUE /\ over' = FALSE
    /\ recorded' = 0 /\ authorized' = 0 /\ answered' = 0
    /\ ran' = {}
    /\ UNCHANGED <<hand, permits>>

Record(r) ==
    /\ open /\ EmptyHanded
    /\ recorded = answered
    /\ recorded' = recorded + 1
    /\ request' = r
    /\ UNCHANGED <<wakes, authorized, answered, permit, cleared, permits, ran>>

Issue ==
    /\ request # NoRequest /\ permit = 0
    /\ issued' = issued + 1
    /\ permit' = issued'
    /\ valid' = valid \cup {issued'}
    /\ UNCHANGED <<wakes, record, request, cleared, ran>>

Authorize ==
    /\ permit # 0
    /\ authorized = answered
    /\ authorized' = recorded
    /\ UNCHANGED <<wakes, recorded, answered, hand, permits, ran>>

Expire(p) ==
    /\ p \in valid
    /\ valid' = valid \ {p}
    /\ UNCHANGED <<wakes, record, hand, issued, ran>>

Spend ==
    /\ authorized = recorded
    /\ permit \in valid
    /\ valid' = valid \ {permit}
    /\ cleared' = (request \in Commands)
    /\ UNCHANGED <<wakes, record, request, permit, issued, ran>>

\* The command runs, or something it needs is not there.
Run ==
    /\ cleared
    /\ cleared' = FALSE
    /\ ran' = ran \cup {[call |-> recorded, request |-> request, permit |-> permit]}
    /\ UNCHANGED <<wakes, record, request, permit, permits>>

Forgo ==
    /\ cleared
    /\ cleared' = FALSE
    /\ UNCHANGED <<wakes, record, request, permit, permits, ran>>

Answer ==
    /\ permit # 0 /\ ~cleared
    /\ authorized = recorded
    /\ answered' = answered + 1 /\ answered' = recorded
    /\ EmptyHanded'
    /\ UNCHANGED <<wakes, recorded, authorized, permits, ran>>

Finish ==
    /\ open /\ EmptyHanded
    /\ answered = recorded
    /\ open' = FALSE /\ over' = TRUE
    /\ UNCHANGED <<record, hand, permits, ran>>

Vanish ==
    /\ open
    /\ open' = FALSE
    /\ EmptyHanded'
    /\ UNCHANGED <<over, record, permits, ran>>

GuardNext ==
    \/ Begin \/ Issue \/ Authorize \/ Spend \/ Run \/ Forgo \/ Answer \/ Finish \/ Vanish
    \/ \E r \in Requests : Record(r)
    \/ \E p \in valid : Expire(p)

GuardSpec == GuardInit /\ [][GuardNext]_guardVars
=============================================================================
