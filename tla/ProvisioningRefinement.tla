----------------------- MODULE ProvisioningRefinement -----------------------
(***************************************************************************)
(* Provisioning implements HostPromise: the key store that wins the next   *)
(* start is the key, and what a rotation carries is on its way.            *)
(***************************************************************************)
EXTENDS Provisioning

\* Between the hash and the terminal.
Carriers == {p \in Commands : At(p) \in {"store", "print"}}
Unseen == {proc[p].token : p \in Carriers}

Host == INSTANCE HostPromise WITH
    opens <- NextKey,
    depends <- sealed,
    accepted <- home[ServiceHome].hash,
    kept <- custody,
    printed <- shown,
    unseen <- Unseen,
    lost <- cut.tokens,
    serving <- (At("serve") = "serving")

\* Every step of installs, rotations, removals, kills, reboots and the daemon, in any
\* interleaving, is a step of the promise or leaves it alone (cli/service.go over
\* platform/secrets and service/auth.go).
KeepsPromise == Host!Promise
=============================================================================
