-------------------------------- MODULE MCApi --------------------------------
(***************************************************************************)
(* The two groups of handlers that write to tables of their own: webhook   *)
(* ingress, and bootstrap with the providers.  They share no state, so a   *)
(* step of one commutes with every step of the other, and no property      *)
(* speaks of both: it is enough to run each while the other has not begun. *)
(***************************************************************************)
EXTENDS WebhookProperties, ProviderProperties, TLC

CONSTANTS d1, d2, k1, none, c1, c2, a1, a2, w1, key, other, p, q

TwoDeliveries == {d1, d2}
TwoClients == {c1, c2}
TwoAdmins == {a1, a2}
TwoNames == {key, other}
TwoProviders == {p, q}

ApiInit == Init /\ RegistryInit

ApiNext ==
    \/ RegistryInit /\ Next /\ UNCHANGED registryVars
    \/ Init /\ RegistryNext /\ UNCHANGED vars

ApiSpec == ApiInit /\ [][ApiNext]_<<vars, registryVars>>

\* Once the registry is in use, nobody bootstraps or logs in, and the session lasts.
SettledOnceInUse ==
    providers # << >> \/ credentials # << >> \/ (\E a \in Admins : request[a].step # "idle")
        => sessions /\ \A c \in Clients : setup[c] = "idle"

Interchangeable ==
    Permutations(TwoAdmins)
    \union Permutations(TwoNames) \union Permutations(TwoProviders)
=============================================================================
