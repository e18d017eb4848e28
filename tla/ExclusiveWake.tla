---------------------------- MODULE ExclusiveWake ----------------------------
(***************************************************************************)
(* What the wake machinery promises: a lease.  At most one worker holds    *)
(* the agent's wake; a wake id is handed out once; a holder may renew into *)
(* a fresh wake, release, or vanish, and only a wake whose holder has      *)
(* vanished is taken back.                                                 *)
(***************************************************************************)
EXTENDS Naturals

CONSTANTS
    Workers,
    Nobody      \* the holder of a wake that no worker is inside, not a worker

VARIABLES
    holder,     \* the worker in the wake, or Nobody
    wake,       \* the current wake, 0 when the agent is at rest
    issued      \* wake ids handed out

leaseVars == <<holder, wake, issued>>

LeaseInit == holder = Nobody /\ wake = 0 /\ issued = 0

Issue == issued' = issued + 1 /\ wake' = issued'

Begin(w) == wake = 0 /\ Issue /\ holder' = w

Renew(w) == holder = w /\ Issue /\ UNCHANGED holder

Finish(w) == holder = w /\ holder' = Nobody /\ wake' = 0 /\ UNCHANGED issued

Vanish(w) == holder = w /\ holder' = Nobody /\ UNCHANGED <<wake, issued>>

Reclaim == holder = Nobody /\ wake # 0 /\ wake' = 0 /\ UNCHANGED <<holder, issued>>

LeaseNext ==
    \/ \E w \in Workers : Begin(w) \/ Renew(w) \/ Finish(w) \/ Vanish(w)
    \/ Reclaim

LeaseSpec == LeaseInit /\ [][LeaseNext]_leaseVars
=============================================================================
