--------------------------- MODULE UpdatePromise ---------------------------
(***************************************************************************)
(* What the self-updater promises its operator, without a row, a file or a *)
(* process: the machine starts a build it trusts, or one on trial; a trial *)
(* ends by trusting a build that has served, or by going back to the build *)
(* trusted before it (ADR-0003: "Boot is confirmed, and failure rolls      *)
(* back").                                                                 *)
(***************************************************************************)
EXTENDS TLAPS

CONSTANTS Builds, Installed

VARIABLES
    active,     \* the build the supervisor starts
    trusted,    \* the build to go back to
    trial,      \* whether the active build has yet to be trusted
    served      \* the builds that have served

promiseVars == <<active, trusted, trial, served>>

PromiseInit ==
    /\ active = Installed
    /\ trusted = Installed
    /\ trial = FALSE
    /\ served = {Installed}

\* Only one trial at a time.
Install(b) ==
    /\ ~trial
    /\ b # active
    /\ active' = b
    /\ trial' = TRUE
    /\ UNCHANGED <<trusted, served>>

Serve ==
    /\ served' = served \cup {active}
    /\ UNCHANGED <<active, trusted, trial>>

Accept ==
    /\ trial
    /\ active \in served
    /\ trusted' = active
    /\ trial' = FALSE
    /\ UNCHANGED <<active, served>>

GoBack ==
    /\ trial
    /\ active' = trusted
    /\ trial' = FALSE
    /\ UNCHANGED <<trusted, served>>

PromiseNext == (\E b \in Builds : Install(b)) \/ Serve \/ Accept \/ GoBack

Promise == PromiseInit /\ [][PromiseNext]_promiseVars

\* Whatever is installed, there is a build to go back to that has served, and
\* the only build the supervisor may start in its stead is the one on trial.
TrustedHasServed == trusted \in served /\ (~trial => active = trusted)

\* There is always a build to go back to, and it has served (ADR-0003's promise).
THEOREM TrustedAlwaysServed == Promise => []TrustedHasServed
<1>1. PromiseInit => TrustedHasServed
    BY DEF PromiseInit, TrustedHasServed
<1>2. TrustedHasServed /\ [PromiseNext]_promiseVars => TrustedHasServed'
    BY DEF TrustedHasServed, PromiseNext, Install, Serve, Accept, GoBack, promiseVars
<1> QED
    BY <1>1, <1>2, PTL DEF Promise
=============================================================================
