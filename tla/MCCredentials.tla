--------------------------- MODULE MCCredentials ---------------------------
(***************************************************************************)
(* Instances of Credentials for TLC: which secrets have the shape of which *)
(* provider's.                                                             *)
(***************************************************************************)
EXTENDS CredentialsRefinement, TLC

CONSTANTS t1, t2, k1    \* two tokens of Claude Code, a key of the Anthropic API

Prefixes == [p \in Providers |-> IF p \in Cli THEN {t1, t2} ELSE {k1}]

\* Requests are interchangeable, and so are the tokens.
Symmetric == Permutations(Callers) \cup Permutations({t1, t2})
=============================================================================
