------------------------- MODULE CredentialPromise -------------------------
(***************************************************************************)
(* What the credential store promises its operator, without requests,      *)
(* verdicts on the way or a table: every provider has one slot.  An        *)
(* untested credential only enters an empty slot; one that takes another's *)
(* place has been honoured first; the slot is emptied by a refusal or by   *)
(* the operator; what was replaced or dismissed never comes back (store:   *)
(* "prove the candidate before retiring what works").                      *)
(***************************************************************************)
EXTENDS Naturals

CONSTANTS Providers, Secrets, Ids

VARIABLES
    slot,       \* the credential each provider uses, 0 for none
    trusted,    \* the providers known to honour what is in their slot
    card,       \* whose credential each one is, and its secret
    retired,    \* credentials replaced or dismissed
    dismissed,  \* credentials the operator was told are gone
    honoured,   \* secrets a provider has honoured
    refused     \* secrets a provider has refused

promiseVars == <<slot, trusted, card, retired, dismissed, honoured, refused>>

NoCard == [provider |-> "none", secret |-> "none"]
CardOf(p, s) == [provider |-> p, secret |-> s]

PromiseInit ==
    /\ slot = [p \in Providers |-> 0]
    /\ trusted = {}
    /\ card = [i \in Ids |-> NoCard]
    /\ retired = {}
    /\ dismissed = {}
    /\ honoured \subseteq Secrets
    /\ refused \subseteq Secrets

\* Nothing is in use, so nothing is lost by using what nobody has tested.
Try(p, i, s) ==
    /\ slot[p] = 0
    /\ card[i] = NoCard
    /\ slot' = [slot EXCEPT ![p] = i]
    /\ card' = [card EXCEPT ![i] = CardOf(p, s)]
    /\ UNCHANGED <<trusted, retired, dismissed, honoured, refused>>

\* An honoured credential takes the slot: a new one from whatever was there, an old one
\* only if the slot is its own or empty.
Settle(p, i, s) ==
    /\ s \in honoured
    /\ i \notin retired
    /\ card[i] = NoCard \/ (card[i] = CardOf(p, s) /\ slot[p] \in {0, i})
    /\ slot' = [slot EXCEPT ![p] = i]
    /\ trusted' = trusted \cup {p}
    /\ card' = [card EXCEPT ![i] = CardOf(p, s)]
    /\ retired' = retired \cup ({slot[p]} \ {0, i})
    /\ UNCHANGED <<dismissed, honoured, refused>>

\* A refused credential leaves the slot, and may be honoured again.
Drop(p) ==
    /\ slot[p] # 0
    /\ card[slot[p]].secret \in refused
    /\ slot' = [slot EXCEPT ![p] = 0]
    /\ trusted' = trusted \ {p}
    /\ UNCHANGED <<card, retired, dismissed, honoured, refused>>

Dismiss(p) ==
    /\ slot' = [slot EXCEPT ![p] = 0]
    /\ trusted' = trusted \ {p}
    /\ retired' = retired \cup ({slot[p]} \ {0})
    /\ dismissed' = dismissed \cup {i \in Ids : card[i].provider = p}
    /\ UNCHANGED <<card, honoured, refused>>

\* A provider changes its mind.
Change ==
    /\ honoured \subseteq honoured' /\ honoured' \subseteq Secrets
    /\ refused \subseteq refused' /\ refused' \subseteq Secrets
    /\ UNCHANGED <<slot, trusted, card, retired, dismissed>>

PromiseNext ==
    \/ Change
    \/ \E p \in Providers :
          \/ \E i \in Ids, s \in Secrets : Try(p, i, s) \/ Settle(p, i, s)
          \/ Drop(p) \/ Dismiss(p)

Promise == PromiseInit /\ [][PromiseNext]_promiseVars
=============================================================================
