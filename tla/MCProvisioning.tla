--------------------------- MODULE MCProvisioning ---------------------------
(***************************************************************************)
(* Instances of Provisioning for TLC: the machines an install may meet.    *)
(***************************************************************************)
EXTENDS ProvisioningRefinement

A(system, canSeal, handsOver, old) ==
    [os |-> system, seals |-> canSeal, delivers |-> handsOver, key |-> old]

\* Linux without systemd-creds, with it but without the hand-over (a container), and
\* with both, new or with a key file of old; a Mac that has its Keychain item.
FiveHosts == {A("linux", FALSE, FALSE, 0), A("linux", TRUE, FALSE, 0),
              A("linux", TRUE, TRUE, 0), A("linux", TRUE, TRUE, 1),
              A("darwin", FALSE, FALSE, 1)}

\* A server with systemd, set up by `sudo tumika install` and nothing else.
OneServer == {A("linux", TRUE, TRUE, 0)}
=============================================================================
