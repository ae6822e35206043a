---------------------------- MODULE HostPromise ----------------------------
(***************************************************************************)
(* What a host that was set up promises its operator, without commands,    *)
(* units, key stores or locks: the key that opens the stored credentials   *)
(* does not move once anybody relies on it, and every token the service    *)
(* accepts is shown, unless whoever carried it was cut off (cli/service.go, *)
(* "a token nobody has ever seen").                                        *)
(***************************************************************************)
EXTENDS Naturals

VARIABLES
    opens,      \* the key the next start of the service gets, 0 for none yet
    depends,    \* the keys credentials are stored under
    accepted,   \* the token the service accepts, 0 for none yet
    kept,       \* the copy of a token in custody, 0 for none
    printed,    \* tokens somebody was shown
    unseen,     \* tokens on their way to be shown
    lost,       \* tokens nobody will be shown
    serving     \* whether requests are answered

keys == <<opens, depends>>
tokens == <<accepted, kept, printed, unseen, lost>>
promiseVars == <<keys, tokens, serving>>

PromiseInit ==
    /\ opens \in Nat /\ depends = {}
    /\ accepted = 0 /\ kept = 0
    /\ printed = {} /\ unseen = {} /\ lost = {}
    /\ serving = FALSE

\* Commands are cut off, and whatever they carried with them; the service may stop.
Interrupt(T) ==
    /\ unseen' = unseen \ T
    /\ lost' = lost \cup T
    /\ serving' \in {FALSE, serving}
    /\ UNCHANGED <<keys, accepted, kept, printed>>

\* A key is made, sealed or taken away: only while nobody relies on it.
Move ==
    /\ depends = {} /\ ~serving
    /\ opens' \in Nat
    /\ UNCHANGED <<depends, tokens, serving>>

\* Nothing is served without a key and a token.
Serve ==
    /\ opens # 0 /\ accepted # 0
    /\ serving' = TRUE
    /\ UNCHANGED <<keys, tokens>>

Rely ==
    /\ serving
    /\ depends' = depends \cup {opens}
    /\ UNCHANGED <<opens, tokens, serving>>

\* A token nobody has had before.
Rotate ==
    /\ accepted' \in Nat \ ({0} \cup printed \cup unseen \cup lost)
    /\ unseen' = unseen \cup {accepted'}
    /\ UNCHANGED <<keys, kept, printed, lost, serving>>

\* Custody is only given the token that is accepted at that moment.
Keep ==
    /\ accepted \in unseen
    /\ kept' = accepted
    /\ UNCHANGED <<keys, accepted, printed, unseen, lost, serving>>

Show(t) ==
    /\ unseen' = unseen \ {t}
    /\ printed' = printed \cup {t}
    /\ UNCHANGED <<keys, accepted, kept, lost, serving>>

PromiseNext ==
    \/ \E T \in SUBSET unseen : Interrupt(T)
    \/ Move \/ Serve \/ Rely
    \/ Rotate \/ Keep \/ \E t \in unseen : Show(t)

Promise == PromiseInit /\ [][PromiseNext]_promiseVars
=============================================================================
