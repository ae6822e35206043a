---------------------------- MODULE Credentials ----------------------------
(***************************************************************************)
(* Provider credentials: service/provider.go over the provider_credentials *)
(* table, and the two drivers that say whether a secret works.             *)
(*                                                                         *)
(* A request holds no transaction while it looks for an incumbent or calls *)
(* the provider, so requests interleave between any two accesses to the    *)
(* table.  Each driver materialises one kind of credential: the loops over *)
(* credentialKinds find rows of that kind only, and the partial unique     *)
(* index on (provider, kind) is one slot per provider.                     *)
(***************************************************************************)
EXTENDS Naturals, FiniteSets

CONSTANTS
    Cli,            \* providers driven through a CLI (claudecode)
    Http,           \* providers driven over HTTP (anthropicapi)
    Secrets,        \* every string a client may submit
    ShapeOf,        \* the secrets of the shape each provider accepts
    Ids,            \* row ids, in AUTOINCREMENT order; bound: rows ever stored
    Callers,        \* concurrent requests
    MaxFaults       \* bound: failed writes and changes of the provider's mind

Providers == Cli \cup Http

ASSUME DriversAssumption ==
    /\ Cli \cap Http = {}
    /\ "none" \notin Providers
    /\ ShapeOf \in [Providers -> SUBSET Secrets]
ASSUME IdsAssumption == Ids \subseteq Nat \ {0}
ASSUME CredentialFaultsAssumption == MaxFaults \in Nat

VARIABLES
    rows,           \* the table: a row for every id, "absent" until inserted
    pc,             \* where each request is
    req,            \* what each request carries from one access to the next
    valid,          \* the secrets the providers honour at the moment
    wasValid,       \* history: secrets a provider has honoured
    wasInvalid,     \* history: secrets a provider has not honoured
    deleted,        \* history: rows stored when DELETE was answered
    faults          \* failures so far, at most MaxFaults

provider == <<valid, wasValid, wasInvalid>>
vars == <<rows, pc, req, provider, deleted, faults>>

Statuses == {"unverified", "active", "invalid", "revoked"}
Expiries == {"none", "set"}
Errors == {"", "refused"}
Verdicts == {"active", "invalid", "none"}
Rows == [status : Statuses \cup {"absent"}, provider : Providers \cup {"none"},
         secret : Secrets \cup {"none"}, expires : Expiries, error : Errors]
Requests == [provider : Providers \cup {"none"}, secret : Secrets \cup {"none"},
             expires : Expiries, row : Ids \cup {0}, verdict : Verdicts]
Checking == {"checking", "recording"}
Submitting == {"looking", "proving", "swapping", "inserting"}
Places == Submitting \cup Checking \cup {"opening", "idle"}

Absent == [status |-> "absent", provider |-> "none", secret |-> "none",
           expires |-> "none", error |-> ""]
NoRequest == [provider |-> "none", secret |-> "none", expires |-> "none", row |-> 0,
              verdict |-> "none"]

TypeOK ==
    /\ rows \in [Ids -> Rows]
    /\ \A i \in Ids : rows[i].status # "absent" =>
          rows[i].provider \in Providers /\ rows[i].secret \in Secrets
    /\ pc \in [Callers -> Places]
    /\ req \in [Callers -> Requests]
    /\ \A c \in Callers : pc[c] # "idle" => req[c].provider \in Providers
    /\ \A c \in Callers : pc[c] \in Submitting \cup Checking => req[c].secret \in Secrets
    /\ \A c \in Callers : pc[c] \in Checking => req[c].row \in Ids
    /\ valid \subseteq Secrets
    /\ wasValid \subseteq Secrets
    /\ wasInvalid \subseteq Secrets
    /\ deleted \subseteq Ids
    /\ faults \in Nat

Init ==
    /\ rows = [i \in Ids |-> Absent]
    /\ pc = [c \in Callers |-> "idle"]
    /\ req = [c \in Callers |-> NoRequest]
    /\ valid \in SUBSET Secrets
    /\ wasValid = valid
    /\ wasInvalid = Secrets \ valid
    /\ deleted = {}
    /\ faults = 0

Fault == faults < MaxFaults /\ faults' = faults + 1

(***************************************************************************)
(* The table                                                               *)
(***************************************************************************)

\* Mutant: "unverified" does not occupy the slot.
LiveProven(status) == status = "active"

\* CredentialStatus.Live, and the predicate of the partial unique index.
Live(status) == status \in {"active", "unverified"}

GetLive(p) == {i \in Ids : rows[i].provider = p /\ Live(rows[i].status)}

\* The newest row not revoked, if there is one.
GetLatest(p) ==
    LET candidates == {i \in Ids : rows[i].provider = p /\ rows[i].status # "revoked"}
    IN  {i \in candidates : \A j \in candidates : j <= i}

\* The id AUTOINCREMENT gives the next row.
NextId(i) ==
    /\ rows[i].status = "absent"
    /\ \A j \in Ids : j < i => rows[j].status # "absent"

\* The row a request stores.
Sealed(r) ==
    [status |-> "unverified", provider |-> r.provider, secret |-> r.secret,
     expires |-> r.expires, error |-> ""]

\* Retire: every live row of the provider is revoked, the others stay as they are.
Retired(i, p) ==
    IF i \in GetLive(p) THEN [rows[i] EXCEPT !.status = "revoked"] ELSE rows[i]

\* Mutant: what the driver did not report is overwritten too.
MergeMetaWholesale(stored, verdict) ==
    [stored EXCEPT !.status = IF verdict = "none" THEN @ ELSE verdict,
                   !.expires = "none",
                   !.error = IF verdict = "invalid" THEN "refused" ELSE ""]

\* mergeMeta: the drivers' checks report a status and its error, never an expiry.
MergeMeta(stored, verdict) ==
    [stored EXCEPT !.status = IF verdict = "none" THEN @ ELSE verdict,
                   !.error = IF verdict = "invalid" THEN "refused" ELSE ""]

(***************************************************************************)
(* The drivers                                                             *)
(***************************************************************************)

\* ValidateSecret: an API key and a subscription token have different prefixes.
ValidateSecret(p, s) == s \in ShapeOf[p]

\* Materialize: a token has an expiry, read from it or estimated, a key none.
Materialize(p, s, e) ==
    /\ e = IF p \in Cli THEN "set" ELSE "none"
    /\ ValidateSecret(p, s)

\* What the provider can answer.  The CLI says first which credential it
\* resolved: any other than ours answers for itself.
Replies == [auth : {"own", "other"},
            code : {"ok", "refused", "forbidden", "busy", "empty", "unreachable"}]
Answers(p, s) ==
    {r \in Replies :
        /\ r.auth = "other" => p \in Cli
        /\ r.auth = "own" /\ r.code = "ok" => s \in valid
        /\ r.auth = "own" /\ r.code = "refused" => s \notin valid
        /\ r.auth = "own" /\ r.code = "forbidden" /\ p \in Cli => s \notin valid}

\* anthropicapi: a 403 may be about the endpoint, and is not a verdict.
HttpVerdict(code) ==
    CASE code = "ok" -> "active"
      [] code = "refused" -> "invalid"
      [] OTHER -> "none"

\* Mutant: the second stage alone decides.
CliVerdictUnrouted(auth, code) ==
    CASE code = "ok" -> "active"
      [] code \in {"refused", "forbidden"} -> "invalid"
      [] OTHER -> "none"

\* claudecode: nothing is concluded from a turn made with another credential, from
\* a document that is not a result, or from a rate limit.
CliVerdict(auth, code) ==
    CASE auth = "own" /\ code = "ok" -> "active"
      [] auth = "own" /\ code \in {"refused", "forbidden"} -> "invalid"
      [] OTHER -> "none"

\* check: an error of the driver is no verdict.
Verdict(p, r) ==
    IF p \in Cli THEN CliVerdict(r.auth, r.code) ELSE HttpVerdict(r.code)
VerdictsOf(p, s) == {Verdict(p, r) : r \in Answers(p, s)}

(***************************************************************************)
(* PUT credential: SubmitSecret and store                                  *)
(***************************************************************************)

Return(c) ==
    /\ pc' = [pc EXCEPT ![c] = "idle"]
    /\ req' = [req EXCEPT ![c] = NoRequest]

\* Bound: a submission starts only while there is an id left for its row.
RoomForRow ==
    Cardinality({c \in Callers : pc[c] \in Submitting}) <
    Cardinality({i \in Ids : rows[i].status = "absent"})

\* The secret has the right shape, is materialised and sealed.
Submit(c, p, s) ==
    /\ pc[c] = "idle"
    /\ RoomForRow
    /\ \E e \in Expiries :
          /\ Materialize(p, s, e)
          /\ req' = [req EXCEPT ![c] = [NoRequest EXCEPT
                        !.provider = p, !.secret = s, !.expires = e]]
    /\ pc' = [pc EXCEPT ![c] = "looking"]
    /\ UNCHANGED <<rows, provider, deleted, faults>>

\* Is there an incumbent?  Asked outside the transaction that acts on it.
Lookup(c) ==
    /\ pc[c] = "looking"
    /\ pc' = [pc EXCEPT ![c] =
                 IF GetLive(req[c].provider) # {} THEN "proving" ELSE "inserting"]
    /\ UNCHANGED <<rows, req, provider, deleted, faults>>

\* Mutant: only a rejection keeps the incumbent; a check that could not be carried
\* out does not.
ProveUnlessInvalid(c) ==
    /\ pc[c] = "proving"
    /\ \E v \in VerdictsOf(req[c].provider, req[c].secret) :
          IF v # "invalid"
          THEN /\ pc' = [pc EXCEPT ![c] = "swapping"]
               /\ req' = [req EXCEPT ![c].verdict = v]
          ELSE Return(c)
    /\ UNCHANGED <<rows, provider, deleted, faults>>

\* Replacing: the candidate is checked first, and anything short of active leaves
\* the incumbent alone.
Prove(c) ==
    /\ pc[c] = "proving"
    /\ \E v \in VerdictsOf(req[c].provider, req[c].secret) :
          IF v = "active"
          THEN /\ pc' = [pc EXCEPT ![c] = "swapping"]
               /\ req' = [req EXCEPT ![c].verdict = v]
          ELSE Return(c)
    /\ UNCHANGED <<rows, provider, deleted, faults>>

\* One transaction: every live row is retired, the candidate inserted as checked.
Swap(c) ==
    /\ pc[c] = "swapping"
    /\ \E n \in Ids :
          /\ NextId(n)
          /\ rows' = [i \in Ids |->
                IF i = n THEN MergeMeta(Sealed(req[c]), req[c].verdict)
                         ELSE Retired(i, req[c].provider)]
    /\ Return(c)
    /\ UNCHANGED <<provider, deleted, faults>>

\* Mutant: an insertion that meets a live row takes its place.
InsertUpserts(c) ==
    /\ pc[c] = "inserting"
    /\ \E n \in Ids :
          /\ NextId(n)
          /\ rows' = [i \in Ids |->
                IF i = n THEN Sealed(req[c]) ELSE Retired(i, req[c].provider)]
          /\ req' = [req EXCEPT ![c].row = n]
    /\ pc' = [pc EXCEPT ![c] = "checking"]
    /\ UNCHANGED <<provider, deleted, faults>>

\* First credential: stored unverified, then checked.
Insert(c) ==
    /\ pc[c] = "inserting"
    /\ GetLive(req[c].provider) = {}
    /\ \E n \in Ids :
          /\ NextId(n)
          /\ rows' = [rows EXCEPT ![n] = Sealed(req[c])]
          /\ req' = [req EXCEPT ![c].row = n]
    /\ pc' = [pc EXCEPT ![c] = "checking"]
    /\ UNCHANGED <<provider, deleted, faults>>

\* Another submission was first: the unique index, ErrConflict.
InsertConflicts(c) ==
    /\ pc[c] = "inserting"
    /\ GetLive(req[c].provider) # {}
    /\ Return(c)
    /\ UNCHANGED <<rows, provider, deleted, faults>>

(***************************************************************************)
(* POST verify: openLive, check, verify                                    *)
(***************************************************************************)

Opened(c, p, i) ==
    /\ pc' = [pc EXCEPT ![c] = "checking"]
    /\ req' = [req EXCEPT ![c] = [NoRequest EXCEPT
                  !.provider = p, !.row = i, !.secret = rows[i].secret,
                  !.expires = rows[i].expires]]

\* Mutant: the lookup's ErrNotFound is dropped, and a zero credential checked.
VerifyCalledUnfound(c, p) ==
    /\ pc[c] = "idle"
    /\ pc' = [pc EXCEPT ![c] = "checking"]
    /\ \/ \E i \in GetLive(p) : req' = [req EXCEPT ![c] = [NoRequest EXCEPT
                                        !.provider = p, !.row = i, !.secret = rows[i].secret]]
       \/ GetLive(p) = {} /\ req' = [req EXCEPT ![c] = [NoRequest EXCEPT !.provider = p]]
    /\ UNCHANGED <<rows, provider, deleted, faults>>

\* openLive prefers the live credential.
VerifyCalled(c, p) ==
    /\ pc[c] = "idle"
    /\ IF GetLive(p) # {}
       THEN \E i \in GetLive(p) : Opened(c, p, i)
       ELSE /\ pc' = [pc EXCEPT ![c] = "opening"]
            /\ req' = [req EXCEPT ![c] = [NoRequest EXCEPT !.provider = p]]
    /\ UNCHANGED <<rows, provider, deleted, faults>>

\* openLive falls back to the latest credential not revoked, or answers 404.
OpenLatest(c) ==
    /\ pc[c] = "opening"
    /\ IF GetLatest(req[c].provider) # {}
       THEN \E i \in GetLatest(req[c].provider) : Opened(c, req[c].provider, i)
       ELSE Return(c)
    /\ UNCHANGED <<rows, provider, deleted, faults>>

\* The provider is called holding no transaction.
Check(c) ==
    /\ pc[c] = "checking"
    /\ \E v \in VerdictsOf(req[c].provider, req[c].secret) :
          IF v = "none"
          THEN Return(c)
          ELSE /\ pc' = [pc EXCEPT ![c] = "recording"]
               /\ req' = [req EXCEPT ![c].verdict = v]
    /\ UNCHANGED <<rows, provider, deleted, faults>>

\* Mutant: the write is not guarded on the row's status.
RecordableAlways(i, p, verdict) ==
    verdict = "active" => GetLive(p) \subseteq {i}

\* UpdateMeta and UpdateStatus apply to a row that is not revoked, and the index
\* refuses a second live one: ErrSuperseded, ErrConflict.
Recordable(i, p, verdict) ==
    /\ rows[i].status # "revoked"
    /\ verdict = "active" => GetLive(p) \subseteq {i}

\* The verdict is recorded in a transaction of its own.
Record(c) ==
    /\ pc[c] = "recording"
    /\ Recordable(req[c].row, req[c].provider, req[c].verdict)
    /\ rows' = [rows EXCEPT ![req[c].row] =
                   MergeMeta([@ EXCEPT !.expires = req[c].expires], req[c].verdict)]
    /\ Return(c)
    /\ UNCHANGED <<provider, deleted, faults>>

\* The row was replaced or removed while the provider was called.
RecordDiscarded(c) ==
    /\ pc[c] = "recording"
    /\ ~Recordable(req[c].row, req[c].provider, req[c].verdict)
    /\ Return(c)
    /\ UNCHANGED <<rows, provider, deleted, faults>>

(***************************************************************************)
(* DELETE credential, failures, the provider's side                        *)
(***************************************************************************)

\* One transaction; it touches the live rows only.
DeleteCredential(p) ==
    /\ rows' = [i \in Ids |-> Retired(i, p)]
    /\ deleted' = deleted \cup {i \in Ids : rows[i].provider = p}
    /\ UNCHANGED <<pc, req, provider, faults>>

\* A transaction fails and is rolled back.
WriteFails(c) ==
    /\ pc[c] \in {"swapping", "inserting", "recording"}
    /\ Fault
    /\ Return(c)
    /\ UNCHANGED <<rows, provider, deleted>>

\* The client goes away, which cancels the request's context, or the daemon is
\* killed and restarted: what was committed stays.
Abandoned(c) ==
    /\ pc[c] # "idle"
    /\ Return(c)
    /\ UNCHANGED <<rows, provider, deleted, faults>>

\* A subscription lapses, a key is revoked at the console, or works again.
ProviderChanges(s) ==
    /\ Fault
    /\ valid' = IF s \in valid THEN valid \ {s} ELSE valid \cup {s}
    /\ wasValid' = wasValid \cup valid'
    /\ wasInvalid' = wasInvalid \cup (Secrets \ valid')
    /\ UNCHANGED <<rows, pc, req, deleted>>

RequestStep(c) ==
    \/ Lookup(c) \/ Prove(c) \/ Swap(c) \/ Insert(c) \/ InsertConflicts(c)
    \/ OpenLatest(c) \/ Check(c) \/ Record(c) \/ RecordDiscarded(c)

Next ==
    \/ \E c \in Callers :
          \/ \E p \in Providers : \/ \E s \in Secrets : Submit(c, p, s)
                                  \/ VerifyCalled(c, p)
          \/ RequestStep(c) \/ WriteFails(c) \/ Abandoned(c)
    \/ \E p \in Providers : DeleteCredential(p)
    \/ \E s \in Secrets : ProviderChanges(s)

Spec == Init /\ [][Next]_vars

(***************************************************************************)
(* Safety                                                                  *)
(***************************************************************************)

Having(p, S) == {i \in Ids : rows[i].provider = p /\ rows[i].status \in S}

\* A provider has one credential in use, whichever submissions, verifications and
\* deletions interleave (store, the partial unique index).
OneLive ==
    \A p \in Providers : \A i, j \in Having(p, {"active", "unverified"}) : i = j

\* A row says active, or invalid, only when its provider has honoured, or refused,
\* that very secret: an outage, a 403 of the API, a turn made with another
\* credential condemn nothing and prove nothing (check, Verify of both drivers).
VerdictsEarned ==
    \A i \in Ids :
        /\ rows[i].status = "active" => rows[i].secret \in wasValid
        /\ rows[i].status = "invalid" => rows[i].secret \in wasInvalid

\* A provider stops having an active credential, or a live one, only when the
\* operator deletes it or the provider refused that secret: a wrong candidate, an
\* outage or a failed write never costs it (store: prove before retiring).
CredentialKept ==
    [][\A p \in Providers : \A S \in {{"active"}, {"active", "unverified"}} :
          Having(p, S) # {} /\ Having(p, S)' = {} =>
              \A i \in Having(p, S) : i \in deleted' \/ rows[i].secret \in wasInvalid]_vars

\* A revoked credential is never changed again, by a verdict that arrives late
\* either, and no row changes its provider or its secret (UpdateStatus' guard).
RevokedStays ==
    [][\A i \in Ids : rows[i].status = "revoked" => rows'[i] = rows[i]]_vars

\* Every token keeps the expiry it was stored with, and a row carries the error of a
\* refusal exactly while the refusal stands (Materialize, mergeMeta).
MetaHonest ==
    \A i \in Ids :
        /\ rows[i].provider \in Cli => rows[i].expires # "none"
        /\ rows[i].error = "refused" <=> rows[i].status = "invalid"
=============================================================================
