-------------------------- MODULE CapabilityNonces --------------------------
(***************************************************************************)
(* capability_nonces: one row per authorised tool call, bound to the wake  *)
(* and to what the call asks for, redeemable once and for sixty seconds.   *)
(* A row is known by its position, as the code knows it by its sixteen     *)
(* random bytes; the workspace is the agent's throughout.                  *)
(***************************************************************************)
EXTENDS Naturals, Sequences

CONSTANT Requests       \* what a tool call may ask for: tool_name and shape

VARIABLE nonces

NonceRows == [wake : Nat, request : Requests, consumed : BOOLEAN, expired : BOOLEAN]

NoncesTypeOK == nonces \in Seq(NonceRows)

NoncesInit == nonces = << >>

\* capability_nonce::mint: the new row is the last one.
mint(wake, request) ==
    nonces' = Append(nonces, [wake |-> wake, request |-> request,
                              consumed |-> FALSE, expired |-> FALSE])

\* Mutant: a predicate without `expires_at > now()`.
RedeemableForever(n, wake, request) ==
    /\ nonces[n].wake = wake
    /\ nonces[n].request = request
    /\ ~nonces[n].consumed

\* The WHERE clause of the consuming UPDATE.
Redeemable(n, wake, request) ==
    /\ nonces[n].wake = wake
    /\ nonces[n].request = request
    /\ ~nonces[n].consumed
    /\ ~nonces[n].expired

consume(n, wake, request) ==
    /\ Redeemable(n, wake, request)
    /\ nonces' = [nonces EXCEPT ![n].consumed = TRUE]

\* expires_at passes.  Nothing reads the expiry of a consumed row.
expire(n) ==
    /\ ~nonces[n].consumed
    /\ ~nonces[n].expired
    /\ nonces' = [nonces EXCEPT ![n].expired = TRUE]
=============================================================================
