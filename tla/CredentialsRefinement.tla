----------------------- MODULE CredentialsRefinement -----------------------
(***************************************************************************)
(* Credentials implements CredentialPromise: the live row of a provider is *)
(* its slot.                                                               *)
(***************************************************************************)
EXTENDS Credentials

\* The element of a set that has one, 0 of an empty one.
TheOne(S) == IF S = {} THEN 0 ELSE CHOOSE i \in S : TRUE

Slots == [p \in Providers |-> TheOne(GetLive(p))]
Trusted == {p \in Providers : Having(p, {"active"}) # {}}
Cards == [i \in Ids |-> [provider |-> rows[i].provider, secret |-> rows[i].secret]]
Revoked == {i \in Ids : rows[i].status = "revoked"}

Vault == INSTANCE CredentialPromise WITH
    slot <- Slots,
    trusted <- Trusted,
    card <- Cards,
    retired <- Revoked,
    dismissed <- deleted,
    honoured <- wasValid,
    refused <- wasInvalid

\* Every step of submissions, verifications and deletions, in any interleaving, is a step
\* of the promise or leaves it alone (service/provider.go over the table).
KeepsPromise == Vault!Promise
=============================================================================
