-------------------------- MODULE CredentialsProofs ------------------------
(***************************************************************************)
(* What Credentials guarantees for any providers, secrets, number of rows, *)
(* concurrent requests and failures.                                       *)
(***************************************************************************)
EXTENDS CredentialsRefinement, TLAPS

(***************************************************************************)
(* The inductive invariant.  What a request carries is as old as its last  *)
(* access to the table, and the invariant says what of it is still true.   *)
(***************************************************************************)

AbsentIsEmpty == \A i \in Ids : rows[i].status = "absent" => rows[i] = Absent

HistoriesCover == valid \subseteq wasValid /\ Secrets \ valid \subseteq wasInvalid

VerdictsCarried ==
    \A c \in Callers :
        /\ pc[c] = "swapping" => req[c].verdict = "active"
        /\ pc[c] = "recording" => req[c].verdict \in {"active", "invalid"}
        /\ pc[c] \in {"swapping", "recording"} =>
              /\ req[c].verdict = "active" => req[c].secret \in wasValid
              /\ req[c].verdict = "invalid" => req[c].secret \in wasInvalid

\* The row a request checks is the one it read: rows are never deleted, and
\* neither their provider nor their secret changes.
RowsCarried ==
    \A c \in Callers :
        pc[c] \in Checking =>
            /\ rows[req[c].row].status # "absent"
            /\ rows[req[c].row].provider = req[c].provider
            /\ rows[req[c].row].secret = req[c].secret

ExpiryCarried ==
    \A c \in Callers :
        pc[c] \in Submitting \cup Checking /\ req[c].provider \in Cli =>
            req[c].expires # "none"

IInv ==
    /\ TypeOK
    /\ AbsentIsEmpty
    /\ HistoriesCover
    /\ OneLive
    /\ VerdictsEarned
    /\ MetaHonest
    /\ VerdictsCarried
    /\ RowsCarried
    /\ ExpiryCarried

LEMMA VerdictIsEarned ==
    ASSUME NEW p \in Providers, NEW s, NEW v \in VerdictsOf(p, s)
    PROVE  /\ v \in Verdicts
           /\ v = "active" => s \in valid
           /\ v = "invalid" => s \notin valid
<1>0. PICK r \in Answers(p, s) : v = Verdict(p, r)
    BY DEF VerdictsOf
<1>1. r \in Replies /\ (r.auth = "own" \/ p \in Cli)
    BY DEF Answers, Replies
<1>2. CASE p \in Cli
    BY <1>0, <1>1, <1>2 DEF Answers, Replies, Verdict, CliVerdict, Verdicts
<1>3. CASE p \notin Cli
    BY <1>0, <1>1, <1>3 DEF Answers, Replies, Verdict, HttpVerdict, Verdicts
<1> QED
    BY <1>2, <1>3

LEMMA IInvInit == Init => IInv
<1> SUFFICES ASSUME Init PROVE IInv
    OBVIOUS
<1> USE DEF Init
<1>1. Absent \in Rows /\ NoRequest \in Requests
    BY DEF Absent, NoRequest, Rows, Requests, Verdicts, Expiries, Errors
<1>2. \A i \in Ids : rows[i].status = "absent" /\ rows[i].provider = "none"
                     /\ rows[i].error = ""
    BY DEF Absent
<1>3. TypeOK
    <2>1. rows \in [Ids -> Rows] /\ req \in [Callers -> Requests]
        BY <1>1
    <2>2. pc \in [Callers -> Places] /\ \A c \in Callers : pc[c] = "idle"
        BY DEF Places
    <2>3. deleted \subseteq Ids /\ faults \in Nat
        BY CredentialFaultsAssumption
    <2> QED
        BY <1>2, <2>1, <2>2, <2>3 DEF TypeOK, Submitting, Checking
<1>4. AbsentIsEmpty /\ HistoriesCover /\ VerdictsEarned /\ OneLive
    BY <1>2 DEF AbsentIsEmpty, HistoriesCover, VerdictsEarned, OneLive, Having
<1>5. MetaHonest
    BY <1>2, DriversAssumption DEF MetaHonest, Providers
<1>6. VerdictsCarried /\ RowsCarried /\ ExpiryCarried
    BY DEF VerdictsCarried, RowsCarried, ExpiryCarried, Submitting, Checking
<1> QED
    BY <1>3, <1>4, <1>5, <1>6 DEF IInv

\* A step of one request that leaves the table alone.
LEMMA RequestLocal ==
    ASSUME IInv, NEW c \in Callers,
           UNCHANGED <<rows, provider, deleted>>,
           faults' \in Nat,
           NEW to \in Places, NEW q \in Requests,
           pc' = [pc EXCEPT ![c] = to], req' = [req EXCEPT ![c] = q],
           to # "idle" => q.provider \in Providers,
           to \in Submitting \cup Checking => q.secret \in Secrets,
           to \in Submitting \cup Checking /\ q.provider \in Cli => q.expires # "none",
           to \in Checking =>
              /\ q.row \in Ids
              /\ rows[q.row].status # "absent"
              /\ rows[q.row].provider = q.provider
              /\ rows[q.row].secret = q.secret,
           to = "swapping" => q.verdict = "active",
           to = "recording" => q.verdict \in {"active", "invalid"},
           to \in {"swapping", "recording"} =>
              /\ q.verdict = "active" => q.secret \in wasValid
              /\ q.verdict = "invalid" => q.secret \in wasInvalid
    PROVE  IInv'
<1> USE DEF IInv, provider
<1>1. TypeOK'
    BY DEF TypeOK
<1>2. AbsentIsEmpty' /\ HistoriesCover' /\ VerdictsEarned' /\ MetaHonest'
    BY DEF AbsentIsEmpty, HistoriesCover, VerdictsEarned, MetaHonest
<1>3. OneLive'
    BY DEF OneLive, Having
<1>4. VerdictsCarried'
    BY DEF VerdictsCarried, TypeOK
<1>5. RowsCarried'
    BY DEF RowsCarried, TypeOK
<1>6. ExpiryCarried'
    BY DEF ExpiryCarried, TypeOK
<1> QED
    BY <1>1, <1>2, <1>3, <1>4, <1>5, <1>6
\* What one request does to the others' rows: a step that leaves the requests alone
\* but for c, and changes rows without inserting, deleting or moving any.
LEMMA Requests_Rows ==
    ASSUME IInv, TypeOK', UNCHANGED provider,
           \A d \in Callers : pc'[d] # "idle" => pc'[d] = pc[d] /\ req'[d] = req[d],
           \A i \in Ids : rows[i].status # "absent" =>
              /\ rows'[i].status # "absent"
              /\ rows'[i].provider = rows[i].provider
              /\ rows'[i].secret = rows[i].secret
    PROVE  VerdictsCarried' /\ RowsCarried' /\ ExpiryCarried' /\ HistoriesCover'
<1> USE DEF IInv, provider
<1>1. \A d \in Callers : pc'[d] \in Submitting \cup Checking => pc'[d] # "idle"
    BY DEF Submitting, Checking
<1>2. VerdictsCarried' /\ HistoriesCover'
    BY DEF VerdictsCarried, HistoriesCover
<1>3. ExpiryCarried'
    BY <1>1 DEF ExpiryCarried
<1>4. RowsCarried'
    BY <1>1 DEF RowsCarried, TypeOK
<1> QED
    BY <1>2, <1>3, <1>4

\* What Return leaves behind.
LEMMA ReturnTypes ==
    ASSUME TypeOK, NEW c \in Callers, Return(c)
    PROVE  /\ pc' \in [Callers -> Places]
           /\ req' \in [Callers -> Requests]
           /\ \A d \in Callers : pc'[d] # "idle" => pc'[d] = pc[d] /\ req'[d] = req[d]
           /\ \A d \in Callers : pc'[d] # "idle" => req'[d].provider \in Providers
           /\ \A d \in Callers :
                 pc'[d] \in Submitting \cup Checking => req'[d].secret \in Secrets
           /\ \A d \in Callers : pc'[d] \in Checking => req'[d].row \in Ids
<1>1. NoRequest \in Requests /\ "idle" \in Places
    BY DEF NoRequest, Requests, Expiries, Verdicts, Places
<1>2. "idle" \notin Submitting \cup Checking
    BY DEF Submitting, Checking
<1> QED
    BY <1>1, <1>2 DEF TypeOK, Return

\* A request that returns without having written.
LEMMA ReturnStep ==
    ASSUME IInv, NEW c \in Callers, Return(c), faults' \in Nat,
           UNCHANGED <<rows, provider, deleted>>
    PROVE  IInv'
<1>1. TypeOK'
    BY ReturnTypes DEF IInv, TypeOK, provider
<1>2. VerdictsCarried' /\ RowsCarried' /\ ExpiryCarried' /\ HistoriesCover'
    BY <1>1, Requests_Rows, ReturnTypes DEF IInv
<1>3. AbsentIsEmpty' /\ VerdictsEarned' /\ MetaHonest'
    BY DEF IInv, AbsentIsEmpty, VerdictsEarned, MetaHonest, provider
<1>4. OneLive'
    BY DEF IInv, OneLive, Having
<1> QED
    BY <1>1, <1>2, <1>3, <1>4 DEF IInv

\* What retiring the rows of p makes of one of them.
RetiredFrom(p, old, new) ==
    /\ new \in Rows
    /\ new.provider = old.provider /\ new.secret = old.secret
    /\ new.expires = old.expires /\ new.error = old.error
    /\ \/ new = old
       \/ new.status = "revoked" /\ old.status \in {"active", "unverified"}
    /\ new.provider = p => new.status \notin {"active", "unverified"}

LEMMA RetiredRow ==
    ASSUME IInv, NEW p \in Providers
    PROVE  \A i \in Ids : RetiredFrom(p, rows[i], Retired(i, p))
<1> SUFFICES ASSUME NEW i \in Ids PROVE RetiredFrom(p, rows[i], Retired(i, p))
    OBVIOUS
<1> USE DEF IInv, TypeOK, Rows, Statuses, RetiredFrom
<1>1. CASE i \in GetLive(p)
    BY <1>1 DEF Retired, GetLive, Live
<1>2. CASE i \notin GetLive(p)
    BY <1>2 DEF Retired, GetLive, Live
<1> QED
    BY <1>1, <1>2

(***************************************************************************)
(* The steps that write rows                                               *)
(***************************************************************************)

LEMMA SwapStep == ASSUME IInv, NEW c \in Callers, Swap(c) PROVE IInv'
<1> DEFINE p == req[c].provider
           s == req[c].secret
           new == MergeMeta(Sealed(req[c]), req[c].verdict)
<1>0. p \in Providers /\ s \in Secrets /\ req[c] \in Requests
      /\ req[c].verdict = "active" /\ s \in wasValid
      /\ (p \in Cli => req[c].expires # "none")
    BY DEF IInv, TypeOK, VerdictsCarried, ExpiryCarried, Swap, Submitting
<1>1. /\ new \in Rows
      /\ new.status = "active" /\ new.provider = p /\ new.secret = s
      /\ new.expires = req[c].expires /\ new.error = ""
    BY <1>0 DEF MergeMeta, Sealed, Rows, Requests, Statuses, Errors, Verdicts
<1>2. PICK n \in Ids :
         /\ NextId(n)
         /\ rows' = [i \in Ids |-> IF i = n THEN new ELSE Retired(i, p)]
    BY DEF Swap
<1>3. rows[n].status = "absent" /\ rows'[n] = new
      /\ \A i \in Ids \ {n} : RetiredFrom(p, rows[i], rows'[i])
    BY <1>0, <1>2, RetiredRow DEF NextId
<1> HIDE DEF new
<1>4. \A i \in Ids : rows'[i] \in Rows
    BY <1>0, <1>1, <1>3 DEF RetiredFrom
<1>5. \A i \in Ids : rows[i].status # "absent" =>
         /\ rows'[i].status # "absent"
         /\ rows'[i].provider = rows[i].provider
         /\ rows'[i].secret = rows[i].secret
    BY <1>0, <1>3 DEF RetiredFrom
<1>6. UNCHANGED <<provider, deleted, faults>> /\ Return(c)
    BY DEF Swap
<1>7. rows' \in [Ids -> Rows]
    BY <1>2, <1>4
<1>8. \A i \in Ids : rows'[i].status # "absent" =>
         rows'[i].provider \in Providers /\ rows'[i].secret \in Secrets
    BY <1>0, <1>1, <1>3 DEF RetiredFrom, IInv, TypeOK
<1>9. TypeOK'
    BY <1>6, <1>7, <1>8, ReturnTypes DEF IInv, TypeOK, provider
<1>10. VerdictsCarried' /\ RowsCarried' /\ ExpiryCarried' /\ HistoriesCover'
    BY <1>5, <1>6, <1>9, Requests_Rows, ReturnTypes DEF IInv
<1>11. AbsentIsEmpty'
    BY <1>0, <1>1, <1>3 DEF RetiredFrom, IInv, AbsentIsEmpty
<1>12. VerdictsEarned'
    BY <1>0, <1>1, <1>3, <1>6 DEF RetiredFrom, IInv, VerdictsEarned, provider
<1>13. MetaHonest'
    <2>1. /\ rows'[n].provider \in Cli => rows'[n].expires # "none"
          /\ rows'[n].error = "refused" <=> rows'[n].status = "invalid"
        BY <1>0, <1>1, <1>3
    <2>2. ASSUME NEW i \in Ids \ {n}
          PROVE  /\ rows'[i].provider \in Cli => rows'[i].expires # "none"
                 /\ rows'[i].error = "refused" <=> rows'[i].status = "invalid"
        BY <1>3 DEF RetiredFrom, IInv, MetaHonest
    <2> QED
        BY <2>1, <2>2 DEF MetaHonest
<1>14. OneLive'
    <2>1. \A i \in Ids \ {n} : rows'[i].provider = p =>
             rows'[i].status \notin {"active", "unverified"}
        BY <1>0, <1>3 DEF RetiredFrom
    <2>2. \A q \in Providers \ {p} : \A i \in Ids :
             rows'[i].provider = q /\ rows'[i].status \in {"active", "unverified"} =>
                rows[i].provider = q /\ rows[i].status \in {"active", "unverified"}
        BY <1>0, <1>1, <1>3 DEF RetiredFrom
    <2> QED
        BY <2>1, <2>2 DEF IInv, OneLive, Having
<1> QED
    BY <1>9, <1>10, <1>11, <1>12, <1>13, <1>14 DEF IInv

LEMMA InsertStep == ASSUME IInv, NEW c \in Callers, Insert(c) PROVE IInv'
<1> DEFINE p == req[c].provider
           s == req[c].secret
           new == Sealed(req[c])
<1>0. /\ p \in Providers /\ s \in Secrets /\ req[c] \in Requests
      /\ p \in Cli => req[c].expires # "none"
    BY DEF IInv, TypeOK, ExpiryCarried, Insert, Submitting
<1>1. /\ new \in Rows
      /\ new.status = "unverified" /\ new.provider = p /\ new.secret = s
      /\ new.expires = req[c].expires /\ new.error = ""
    BY <1>0 DEF Sealed, Rows, Requests, Statuses, Errors
<1>2. PICK n \in Ids :
         /\ NextId(n)
         /\ rows' = [rows EXCEPT ![n] = new]
         /\ req' = [req EXCEPT ![c].row = n]
    BY DEF Insert
<1>3. /\ rows[n].status = "absent" /\ rows'[n] = new
      /\ \A i \in Ids \ {n} : rows'[i] = rows[i]
      /\ rows' \in [Ids -> Rows]
    BY <1>1, <1>2 DEF NextId, IInv, TypeOK
<1> HIDE DEF new
<1>4. /\ pc' = [pc EXCEPT ![c] = "checking"] /\ pc[c] = "inserting"
      /\ UNCHANGED <<provider, deleted, faults>>
      /\ GetLive(p) = {}
    BY DEF Insert
<1>5. /\ req'[c] = [req[c] EXCEPT !.row = n] /\ req'[c] \in Requests
      /\ \A d \in Callers \ {c} : req'[d] = req[d] /\ pc'[d] = pc[d]
      /\ pc'[c] = "checking"
      /\ req' \in [Callers -> Requests] /\ pc' \in [Callers -> Places]
    BY <1>0, <1>2, <1>4 DEF IInv, TypeOK, Requests, Places, Checking
<1>6. /\ req'[c].row = n /\ req'[c].provider = p /\ req'[c].secret = s
      /\ req'[c].expires = req[c].expires
    BY <1>0, <1>5 DEF Requests
<1>7. TypeOK'
    <2>1. \A i \in Ids : rows'[i].status # "absent" =>
             rows'[i].provider \in Providers /\ rows'[i].secret \in Secrets
        BY <1>0, <1>1, <1>3 DEF IInv, TypeOK
    <2>2. \A d \in Callers : pc'[d] # "idle" => req'[d].provider \in Providers
        BY <1>0, <1>5, <1>6 DEF IInv, TypeOK
    <2>3. \A d \in Callers :
             pc'[d] \in Submitting \cup Checking => req'[d].secret \in Secrets
        BY <1>0, <1>5, <1>6 DEF IInv, TypeOK
    <2>4. \A d \in Callers : pc'[d] \in Checking => req'[d].row \in Ids
        BY <1>0, <1>5, <1>6 DEF IInv, TypeOK
    <2> QED
        BY <1>3, <1>4, <1>5, <2>1, <2>2, <2>3, <2>4 DEF IInv, TypeOK, provider
<1>8. AbsentIsEmpty' /\ HistoriesCover'
    BY <1>1, <1>3, <1>4 DEF IInv, AbsentIsEmpty, HistoriesCover, provider
<1>9. VerdictsEarned'
    BY <1>1, <1>3, <1>4 DEF IInv, VerdictsEarned, provider
<1>10. MetaHonest'
    BY <1>0, <1>1, <1>3 DEF IInv, MetaHonest
<1>11. VerdictsCarried'
    BY <1>4, <1>5 DEF IInv, VerdictsCarried, provider
<1>12. RowsCarried'
    <2>1. \A d \in Callers \ {c} : pc[d] \in Checking => req[d].row \in Ids \ {n}
        BY <1>3 DEF IInv, TypeOK, RowsCarried
    <2> SUFFICES ASSUME NEW d \in Callers, pc'[d] \in Checking
                 PROVE  /\ rows'[req'[d].row].status # "absent"
                        /\ rows'[req'[d].row].provider = req'[d].provider
                        /\ rows'[req'[d].row].secret = req'[d].secret
        BY DEF RowsCarried
    <2>2. CASE d = c
        BY <1>1, <1>3, <1>6, <2>2
    <2>3. CASE d # c
        BY <1>3, <1>5, <2>1, <2>3 DEF IInv, RowsCarried
    <2> QED
        BY <2>2, <2>3
<1>13. ExpiryCarried'
    BY <1>0, <1>5, <1>6 DEF IInv, ExpiryCarried
<1>14. OneLive'
    <2>1. \A i \in Ids : ~(rows[i].provider = p /\ rows[i].status \in {"active", "unverified"})
        BY <1>4 DEF GetLive, Live
    <2>2. \A q \in Providers \ {p} : \A i \in Ids :
             rows'[i].provider = q => rows'[i] = rows[i]
        BY <1>1, <1>3
    <2> QED
        BY <1>3, <2>1, <2>2 DEF IInv, OneLive, Having
<1> QED
    BY <1>7, <1>8, <1>9, <1>10, <1>11, <1>12, <1>13, <1>14 DEF IInv

LEMMA RecordStep == ASSUME IInv, NEW c \in Callers, Record(c) PROVE IInv'
<1> DEFINE k == req[c].row
           v == req[c].verdict
           new == MergeMeta([rows[k] EXCEPT !.expires = req[c].expires], v)
<1>0. /\ k \in Ids /\ req[c] \in Requests /\ req[c].provider \in Providers
      /\ v \in {"active", "invalid"}
      /\ v = "active" => req[c].secret \in wasValid
      /\ v = "invalid" => req[c].secret \in wasInvalid
      /\ rows[k] \in Rows /\ rows[k].status # "absent"
      /\ rows[k].provider = req[c].provider /\ rows[k].secret = req[c].secret
      /\ req[c].provider \in Cli => req[c].expires # "none"
    BY DEF IInv, TypeOK, VerdictsCarried, RowsCarried, ExpiryCarried, Record, Checking
<1>1. /\ new \in Rows
      /\ new.status = v /\ new.provider = rows[k].provider /\ new.secret = rows[k].secret
      /\ new.expires = req[c].expires
      /\ new.error = IF v = "invalid" THEN "refused" ELSE ""
    BY <1>0 DEF MergeMeta, Rows, Requests, Statuses, Errors
<1>2. rows' = [rows EXCEPT ![k] = new]
    BY <1>0 DEF Record
<1>3. /\ rows'[k] = new /\ \A i \in Ids \ {k} : rows'[i] = rows[i]
      /\ rows' \in [Ids -> Rows]
    BY <1>0, <1>1, <1>2 DEF IInv, TypeOK
<1> HIDE DEF new
<1>4. UNCHANGED <<provider, deleted, faults>> /\ Return(c)
    BY DEF Record
<1>5. v = "active" => \A i \in Ids \ {k} :
          ~(rows[i].provider = req[c].provider /\ rows[i].status \in {"active", "unverified"})
    BY DEF Record, Recordable, GetLive, Live
<1>6. \A i \in Ids : rows[i].status # "absent" =>
         /\ rows'[i].status # "absent"
         /\ rows'[i].provider = rows[i].provider
         /\ rows'[i].secret = rows[i].secret
    BY <1>0, <1>1, <1>3
<1>7. TypeOK'
    <2>1. \A i \in Ids : rows'[i].status # "absent" =>
             rows'[i].provider \in Providers /\ rows'[i].secret \in Secrets
        BY <1>0, <1>1, <1>3 DEF IInv, TypeOK
    <2> QED
        BY <1>3, <1>4, <2>1, ReturnTypes DEF IInv, TypeOK, provider
<1>8. VerdictsCarried' /\ RowsCarried' /\ ExpiryCarried' /\ HistoriesCover'
    BY <1>4, <1>6, <1>7, Requests_Rows, ReturnTypes DEF IInv
<1>9. AbsentIsEmpty'
    BY <1>0, <1>1, <1>3 DEF IInv, AbsentIsEmpty
<1>10. VerdictsEarned'
    BY <1>0, <1>1, <1>3, <1>4 DEF IInv, VerdictsEarned, provider
<1>11. MetaHonest'
    <2>1. /\ rows'[k].provider \in Cli => rows'[k].expires # "none"
          /\ rows'[k].error = "refused" <=> rows'[k].status = "invalid"
        BY <1>0, <1>1, <1>3
    <2>2. ASSUME NEW i \in Ids \ {k}
          PROVE  /\ rows'[i].provider \in Cli => rows'[i].expires # "none"
                 /\ rows'[i].error = "refused" <=> rows'[i].status = "invalid"
        BY <1>3 DEF IInv, MetaHonest
    <2> QED
        BY <2>1, <2>2 DEF MetaHonest
<1>12. OneLive'
    <2>1. CASE v = "active"
        <3>1. \A i \in Ids :
                 rows'[i].provider = req[c].provider
                 /\ rows'[i].status \in {"active", "unverified"} => i = k
            BY <1>3, <1>5, <2>1
        <3>2. \A q \in Providers \ {req[c].provider} : \A i \in Ids :
                 rows'[i].provider = q => rows'[i] = rows[i]
            BY <1>0, <1>1, <1>3
        <3> QED
            BY <3>1, <3>2 DEF IInv, OneLive, Having
    <2>2. CASE v = "invalid"
        BY <1>0, <1>1, <1>3, <2>2 DEF IInv, OneLive, Having
    <2> QED
        BY <1>0, <2>1, <2>2
<1> QED
    BY <1>7, <1>8, <1>9, <1>10, <1>11, <1>12 DEF IInv

LEMMA DeleteStep == ASSUME IInv, NEW p \in Providers, DeleteCredential(p) PROVE IInv'
<1>1. /\ rows' = [i \in Ids |-> Retired(i, p)]
      /\ UNCHANGED <<pc, req, provider, faults>>
      /\ deleted' \subseteq Ids
    BY DEF DeleteCredential, IInv, TypeOK
<1>2. \A i \in Ids : RetiredFrom(p, rows[i], rows'[i])
    BY <1>1, RetiredRow
<1>3. rows' \in [Ids -> Rows]
    BY <1>1, <1>2 DEF RetiredFrom
<1>4. TypeOK'
    <2>1. \A i \in Ids : rows'[i].status # "absent" =>
             rows'[i].provider \in Providers /\ rows'[i].secret \in Secrets
        BY <1>2 DEF RetiredFrom, IInv, TypeOK
    <2> QED
        BY <1>1, <1>3, <2>1 DEF IInv, TypeOK, provider
<1>5. \A i \in Ids : rows[i].status # "absent" =>
         /\ rows'[i].status # "absent"
         /\ rows'[i].provider = rows[i].provider
         /\ rows'[i].secret = rows[i].secret
    BY <1>2 DEF RetiredFrom
<1>6. VerdictsCarried' /\ RowsCarried' /\ ExpiryCarried' /\ HistoriesCover'
    BY <1>1, <1>4, <1>5, Requests_Rows
<1>7. AbsentIsEmpty'
    BY <1>2 DEF RetiredFrom, IInv, AbsentIsEmpty
<1>8. VerdictsEarned' /\ MetaHonest'
    BY <1>1, <1>2 DEF RetiredFrom, IInv, VerdictsEarned, MetaHonest, provider
<1>9. OneLive'
    BY <1>2 DEF RetiredFrom, IInv, OneLive, Having
<1> QED
    BY <1>4, <1>6, <1>7, <1>8, <1>9 DEF IInv

LEMMA ProviderChangesStep ==
    ASSUME IInv, NEW s \in Secrets, ProviderChanges(s) PROVE IInv'
<1> USE DEF IInv, ProviderChanges
<1>1. /\ valid' \subseteq Secrets
      /\ wasValid \subseteq wasValid' /\ wasValid' \subseteq Secrets
      /\ wasInvalid \subseteq wasInvalid' /\ wasInvalid' \subseteq Secrets
      /\ faults' \in Nat
    BY DEF TypeOK, Fault
<1>2. UNCHANGED <<rows, pc, req, deleted>>
    OBVIOUS
<1>3. TypeOK'
    BY <1>1, <1>2 DEF TypeOK
<1>4. AbsentIsEmpty' /\ MetaHonest' /\ RowsCarried' /\ ExpiryCarried'
    BY <1>2 DEF AbsentIsEmpty, MetaHonest, RowsCarried, ExpiryCarried
<1>5. HistoriesCover'
    BY DEF HistoriesCover
<1>6. VerdictsEarned'
    BY <1>1, <1>2 DEF VerdictsEarned
<1>7. VerdictsCarried'
    BY <1>1, <1>2 DEF VerdictsCarried
<1>8. OneLive'
    BY <1>2 DEF OneLive, Having
<1> QED
    BY <1>3, <1>4, <1>5, <1>6, <1>7, <1>8

(***************************************************************************)
(* The steps that read                                                     *)
(***************************************************************************)

LEMMA SubmitStep ==
    ASSUME IInv, NEW c \in Callers, NEW p \in Providers, NEW s \in Secrets, Submit(c, p, s)
    PROVE  IInv'
<1>1. PICK e \in Expiries :
         /\ p \in Cli => e = "set"
         /\ req' = [req EXCEPT ![c] = [NoRequest EXCEPT
                       !.provider = p, !.secret = s, !.expires = e]]
    BY DEF Submit, Materialize
<1> DEFINE q == [NoRequest EXCEPT !.provider = p, !.secret = s, !.expires = e]
<1>2. q \in Requests /\ q.provider = p /\ q.secret = s /\ q.expires = e
    BY DEF NoRequest, Requests, Verdicts
<1>3. /\ pc' = [pc EXCEPT ![c] = "looking"] /\ req' = [req EXCEPT ![c] = q]
      /\ UNCHANGED <<rows, provider, deleted>> /\ faults' \in Nat
    BY <1>1 DEF Submit, IInv, TypeOK
<1> HIDE DEF q
<1> QED
    BY <1>1, <1>2, <1>3, RequestLocal DEF Places, Submitting, Checking

LEMMA LookupStep == ASSUME IInv, NEW c \in Callers, Lookup(c) PROVE IInv'
<1> DEFINE to == IF GetLive(req[c].provider) # {} THEN "proving" ELSE "inserting"
<1>1. /\ pc' = [pc EXCEPT ![c] = to] /\ req' = [req EXCEPT ![c] = req[c]]
      /\ UNCHANGED <<rows, provider, deleted>> /\ faults' \in Nat
    BY DEF Lookup, IInv, TypeOK
<1>2. /\ req[c] \in Requests /\ req[c].provider \in Providers /\ req[c].secret \in Secrets
      /\ req[c].provider \in Cli => req[c].expires # "none"
    BY DEF Lookup, IInv, TypeOK, ExpiryCarried, Submitting
<1>3. to \in {"proving", "inserting"}
    OBVIOUS
<1> HIDE DEF to
<1> QED
    BY <1>1, <1>2, <1>3, RequestLocal DEF Places, Submitting, Checking

LEMMA ProveStep == ASSUME IInv, NEW c \in Callers, Prove(c) PROVE IInv'
<1>1. /\ UNCHANGED <<rows, provider, deleted>> /\ faults' \in Nat
      /\ req[c] \in Requests /\ req[c].provider \in Providers /\ req[c].secret \in Secrets
      /\ req[c].provider \in Cli => req[c].expires # "none"
    BY DEF Prove, IInv, TypeOK, ExpiryCarried, Submitting
<1>2. PICK v \in VerdictsOf(req[c].provider, req[c].secret) :
         \/ /\ v = "active"
            /\ pc' = [pc EXCEPT ![c] = "swapping"]
            /\ req' = [req EXCEPT ![c].verdict = "active"]
         \/ Return(c)
    BY DEF Prove
<1>3. CASE Return(c)
    BY <1>1, <1>3, ReturnStep
<1>4. CASE ~Return(c)
    <2> DEFINE q == [req[c] EXCEPT !.verdict = "active"]
    <2>1. q \in Requests /\ q.provider = req[c].provider /\ q.secret = req[c].secret
          /\ q.expires = req[c].expires /\ q.verdict = "active"
        BY <1>1 DEF Requests, Verdicts
    <2>2. req[c].secret \in wasValid
        BY <1>1, <1>2, <1>4, VerdictIsEarned DEF IInv, HistoriesCover
    <2>3. pc' = [pc EXCEPT ![c] = "swapping"] /\ req' = [req EXCEPT ![c] = q]
        BY <1>2, <1>4
    <2> HIDE DEF q
    <2> QED
        BY <1>1, <2>1, <2>2, <2>3, RequestLocal DEF Places, Submitting, Checking
<1> QED
    BY <1>3, <1>4

\* A verification has read row i.
LEMMA OpenedStep ==
    ASSUME IInv, NEW c \in Callers, NEW p \in Providers, NEW i \in Ids,
           rows[i].provider = p, Opened(c, p, i), UNCHANGED <<rows, provider, deleted, faults>>
    PROVE  IInv'
<1> DEFINE q == [NoRequest EXCEPT !.provider = p, !.row = i, !.secret = rows[i].secret,
                                  !.expires = rows[i].expires]
<1>1. rows[i].status # "absent"
    <2>1. Absent.provider = "none"
        BY DEF Absent
    <2>2. rows[i].provider # "none"
        BY DriversAssumption
    <2> QED
        BY <2>1, <2>2 DEF IInv, AbsentIsEmpty
<1>2. /\ rows[i] \in Rows /\ rows[i].secret \in Secrets
      /\ p \in Cli => rows[i].expires # "none"
    BY <1>1 DEF IInv, TypeOK, MetaHonest
<1>3. /\ q \in Requests /\ q.provider = p /\ q.row = i /\ q.secret = rows[i].secret
      /\ q.expires = rows[i].expires
    BY <1>2 DEF NoRequest, Requests, Verdicts, Rows
<1>4. /\ pc' = [pc EXCEPT ![c] = "checking"] /\ req' = [req EXCEPT ![c] = q]
      /\ faults' \in Nat
    BY DEF Opened, IInv, TypeOK
<1> HIDE DEF q
<1> QED
    BY <1>1, <1>2, <1>3, <1>4, RequestLocal DEF Places, Checking

LEMMA VerifyCalledStep ==
    ASSUME IInv, NEW c \in Callers, NEW p \in Providers, VerifyCalled(c, p) PROVE IInv'
<1>1. CASE GetLive(p) # {}
    BY <1>1, OpenedStep DEF VerifyCalled, GetLive
<1>2. CASE GetLive(p) = {}
    <2> DEFINE q == [NoRequest EXCEPT !.provider = p]
    <2>1. q \in Requests /\ q.provider = p
        BY DEF NoRequest, Requests, Verdicts, Expiries
    <2>2. /\ pc' = [pc EXCEPT ![c] = "opening"] /\ req' = [req EXCEPT ![c] = q]
          /\ UNCHANGED <<rows, provider, deleted>> /\ faults' \in Nat
        BY <1>2 DEF VerifyCalled, IInv, TypeOK
    <2> HIDE DEF q
    <2> QED
        BY <2>1, <2>2, RequestLocal DEF Places, Submitting, Checking
<1> QED
    BY <1>1, <1>2

LEMMA OpenLatestStep == ASSUME IInv, NEW c \in Callers, OpenLatest(c) PROVE IInv'
<1>1. req[c].provider \in Providers /\ UNCHANGED <<rows, provider, deleted, faults>>
      /\ faults' \in Nat
    BY DEF OpenLatest, IInv, TypeOK
<1>2. CASE GetLatest(req[c].provider) # {}
    BY <1>1, <1>2, OpenedStep DEF OpenLatest, GetLatest
<1>3. CASE GetLatest(req[c].provider) = {}
    BY <1>1, <1>3, ReturnStep DEF OpenLatest
<1> QED
    BY <1>2, <1>3

LEMMA CheckStep == ASSUME IInv, NEW c \in Callers, Check(c) PROVE IInv'
<1>1. /\ UNCHANGED <<rows, provider, deleted>> /\ faults' \in Nat
      /\ req[c] \in Requests /\ req[c].provider \in Providers /\ req[c].secret \in Secrets
      /\ req[c].row \in Ids
      /\ req[c].provider \in Cli => req[c].expires # "none"
      /\ rows[req[c].row].status # "absent"
      /\ rows[req[c].row].provider = req[c].provider
      /\ rows[req[c].row].secret = req[c].secret
    BY DEF Check, IInv, TypeOK, ExpiryCarried, RowsCarried, Checking
<1>2. PICK v \in VerdictsOf(req[c].provider, req[c].secret) :
         \/ /\ v # "none"
            /\ pc' = [pc EXCEPT ![c] = "recording"]
            /\ req' = [req EXCEPT ![c].verdict = v]
         \/ Return(c)
    BY DEF Check
<1>3. CASE Return(c)
    BY <1>1, <1>3, ReturnStep
<1>4. CASE ~Return(c)
    <2> DEFINE q == [req[c] EXCEPT !.verdict = v]
    <2>1. /\ v \in {"active", "invalid"}
          /\ v = "active" => req[c].secret \in wasValid
          /\ v = "invalid" => req[c].secret \in wasInvalid
        BY <1>1, <1>2, <1>4, VerdictIsEarned DEF Verdicts, IInv, HistoriesCover
    <2>2. pc' = [pc EXCEPT ![c] = "recording"] /\ req' = [req EXCEPT ![c] = q]
        BY <1>2, <1>4
    <2>3. /\ q \in Requests /\ q.provider = req[c].provider /\ q.secret = req[c].secret
          /\ q.expires = req[c].expires /\ q.row = req[c].row /\ q.verdict = v
        BY <1>1, <2>1 DEF Requests, Verdicts
    <2> HIDE DEF q
    <2> QED
        BY <1>1, <2>1, <2>2, <2>3, RequestLocal DEF Places, Submitting, Checking
<1> QED
    BY <1>3, <1>4

LEMMA IInvStep == IInv /\ [Next]_vars => IInv'
<1> SUFFICES ASSUME IInv, [Next]_vars PROVE IInv'
    OBVIOUS
<1>0. faults \in Nat
    BY DEF IInv, TypeOK
<1>1. ASSUME NEW c \in Callers, NEW p \in Providers, NEW s \in Secrets, Submit(c, p, s)
      PROVE  IInv'
    BY <1>1, SubmitStep
<1>2. ASSUME NEW c \in Callers, NEW p \in Providers, VerifyCalled(c, p) PROVE IInv'
    BY <1>2, VerifyCalledStep
<1>3. ASSUME NEW c \in Callers, RequestStep(c) PROVE IInv'
    <2>1. CASE InsertConflicts(c)
        BY <1>0, <2>1, ReturnStep DEF InsertConflicts
    <2>2. CASE RecordDiscarded(c)
        BY <1>0, <2>2, ReturnStep DEF RecordDiscarded
    <2> QED
        BY <1>3, <2>1, <2>2, LookupStep, ProveStep, SwapStep, InsertStep, OpenLatestStep,
           CheckStep, RecordStep DEF RequestStep
<1>4. ASSUME NEW c \in Callers, WriteFails(c) PROVE IInv'
    BY <1>0, <1>4, ReturnStep DEF WriteFails, Fault
<1>5. ASSUME NEW c \in Callers, Abandoned(c) PROVE IInv'
    BY <1>0, <1>5, ReturnStep DEF Abandoned
<1>6. ASSUME NEW p \in Providers, DeleteCredential(p) PROVE IInv'
    BY <1>6, DeleteStep
<1>7. ASSUME NEW s \in Secrets, ProviderChanges(s) PROVE IInv'
    BY <1>7, ProviderChangesStep
<1>8. CASE UNCHANGED vars
    BY <1>8 DEF vars, provider, IInv, TypeOK, AbsentIsEmpty, HistoriesCover, OneLive, Having,
       VerdictsEarned, MetaHonest, VerdictsCarried, RowsCarried, ExpiryCarried
<1> QED
    BY <1>1, <1>2, <1>3, <1>4, <1>5, <1>6, <1>7, <1>8 DEF Next

LEMMA IInvAlways == Spec => []IInv
BY IInvInit, IInvStep, PTL DEF Spec

(***************************************************************************)
(* What the runs check, for every instance                                 *)
(***************************************************************************)

\* Every variable keeps its type (provider_credentials' columns and CHECKs).
THEOREM TypeCorrect == Spec => []TypeOK
BY IInvAlways, PTL DEF IInv

\* A provider never has two live credentials (store, 0001_init.sql's index).
THEOREM OneCredential == Spec => []OneLive
BY IInvAlways, PTL DEF IInv

\* No row holds a verdict its provider did not give on that secret (check and the
\* drivers' Verify).
THEOREM VerdictsHold == Spec => []VerdictsEarned
BY IInvAlways, PTL DEF IInv

\* Expiries and errors describe the row they are on (Materialize, mergeMeta).
THEOREM MetaHolds == Spec => []MetaHonest
BY IInvAlways, PTL DEF IInv

\* Late verdicts never reach a revoked row (UpdateCredentialStatus).
THEOREM RevokedIsTerminal == Spec => RevokedStays
<1>1. IInv /\ [Next]_vars =>
         [\A i \in Ids : rows[i].status = "revoked" => rows'[i] = rows[i]]_vars
    <2> SUFFICES ASSUME IInv, [Next]_vars, NEW i \in Ids, rows[i].status = "revoked"
                 PROVE  rows'[i] = rows[i]
        OBVIOUS
    <2>1. CASE UNCHANGED rows
        BY <2>1
    <2>2. ASSUME NEW c \in Callers, Swap(c) PROVE rows'[i] = rows[i]
        <3>1. req[c].provider \in Providers
            BY <2>2 DEF IInv, TypeOK, Swap
        <3>2. PICK n \in Ids :
                 /\ NextId(n)
                 /\ \A j \in Ids \ {n} : rows'[j] = Retired(j, req[c].provider)
            BY <2>2 DEF Swap
        <3>3. i # n
            BY <3>2 DEF NextId
        <3>4. RetiredFrom(req[c].provider, rows[i], rows'[i])
            BY <3>1, <3>2, <3>3, RetiredRow
        <3> QED
            BY <3>4 DEF RetiredFrom
    <2>3. ASSUME NEW c \in Callers, Insert(c) PROVE rows'[i] = rows[i]
        BY <2>3 DEF Insert, NextId, IInv, TypeOK
    <2>4. ASSUME NEW c \in Callers, Record(c) PROVE rows'[i] = rows[i]
        BY <2>4 DEF Record, Recordable, IInv, TypeOK
    <2>5. ASSUME NEW p \in Providers, DeleteCredential(p) PROVE rows'[i] = rows[i]
        <3>1. RetiredFrom(p, rows[i], rows'[i])
            BY <2>5, RetiredRow DEF DeleteCredential
        <3> QED
            BY <3>1 DEF RetiredFrom
    <2> QED
        BY <2>1, <2>2, <2>3, <2>4, <2>5
           DEF Next, RequestStep, Submit, VerifyCalled, Lookup, Prove, InsertConflicts,
               OpenLatest, Check, RecordDiscarded, WriteFails, Abandoned, ProviderChanges, vars
<1> QED
    BY <1>1, IInvAlways, PTL DEF Spec, RevokedStays

\* A credential in use is lost by a deletion or a refusal only (store).
THEOREM CredentialNeverLost == Spec => CredentialKept
<1> DEFINE Lost ==
       \A p \in Providers : \A S \in {{"active"}, {"active", "unverified"}} :
          Having(p, S) # {} /\ Having(p, S)' = {} =>
              \A i \in Having(p, S) : i \in deleted' \/ rows[i].secret \in wasInvalid
<1>1. IInv /\ [Next]_vars => [Lost]_vars
    <2> SUFFICES ASSUME IInv, [Next]_vars, NEW p \in Providers,
                        NEW S \in {{"active"}, {"active", "unverified"}},
                        Having(p, S)' = {}, NEW i \in Having(p, S)
                 PROVE  i \in deleted' \/ rows[i].secret \in wasInvalid
        OBVIOUS
    <2>0. /\ i \in Ids /\ rows[i].provider = p /\ rows[i].status \in S
          /\ ~(rows'[i].provider = p /\ rows'[i].status \in S)
          /\ "active" \in S /\ S \subseteq {"active", "unverified"}
        BY DEF Having
    <2>1. CASE UNCHANGED rows
        BY <2>0, <2>1
    <2>2. ASSUME NEW c \in Callers, Swap(c) PROVE FALSE
        <3> DEFINE new == MergeMeta(Sealed(req[c]), req[c].verdict)
        <3>1. /\ req[c].provider \in Providers /\ req[c] \in Requests
              /\ req[c].verdict = "active"
            BY <2>2 DEF IInv, TypeOK, VerdictsCarried, Swap
        <3>2. new.status = "active" /\ new.provider = req[c].provider
            BY <3>1 DEF MergeMeta, Sealed, Requests
        <3>3. PICK n \in Ids :
                 /\ rows'[n] = new
                 /\ \A j \in Ids \ {n} : rows'[j] = Retired(j, req[c].provider)
                 /\ NextId(n)
            BY <2>2 DEF Swap
        <3>4. CASE req[c].provider = p
            BY <2>0, <3>2, <3>3, <3>4 DEF Having
        <3>5. CASE req[c].provider # p
            <4>1. i # n
                BY <2>0, <3>3 DEF NextId
            <4>2. rows'[i] = rows[i]
                BY <2>0, <3>3, <3>5, <4>1 DEF Retired, GetLive
            <4> QED
                BY <2>0, <4>2
        <3> QED
            BY <3>4, <3>5
    <2>3. ASSUME NEW c \in Callers, Insert(c) PROVE FALSE
        BY <2>0, <2>3 DEF Insert, NextId, IInv, TypeOK
    <2>4. ASSUME NEW c \in Callers, Record(c) PROVE rows[i].secret \in wasInvalid
        <3> DEFINE k == req[c].row
                   new == MergeMeta([rows[k] EXCEPT !.expires = req[c].expires],
                                    req[c].verdict)
        <3>1. /\ k \in Ids /\ rows[k] \in Rows /\ rows[k].secret = req[c].secret
              /\ req[c].verdict \in {"active", "invalid"}
              /\ req[c].verdict = "invalid" => req[c].secret \in wasInvalid
            BY <2>4 DEF IInv, TypeOK, VerdictsCarried, RowsCarried, Record, Checking
        <3>2. new.status = req[c].verdict /\ new.provider = rows[k].provider
            BY <3>1 DEF MergeMeta, Rows
        <3>3. rows'[k] = new /\ \A j \in Ids \ {k} : rows'[j] = rows[j]
            BY <2>4, <3>1 DEF Record, IInv, TypeOK
        <3> HIDE DEF new
        <3>4. i = k
            BY <2>0, <3>3
        <3>5. req[c].verdict = "invalid"
            BY <2>0, <3>1, <3>2, <3>3, <3>4
        <3> QED
            BY <3>1, <3>4, <3>5
    <2>5. ASSUME NEW q \in Providers, DeleteCredential(q) PROVE i \in deleted'
        <3>1. CASE q = p
            BY <2>0, <2>5, <3>1 DEF DeleteCredential
        <3>2. CASE q # p
            BY <2>0, <2>5, <3>2 DEF DeleteCredential, Retired, GetLive
        <3> QED
            BY <3>1, <3>2
    <2> QED
        BY <2>1, <2>2, <2>3, <2>4, <2>5
           DEF Next, RequestStep, Submit, VerifyCalled, Lookup, Prove, InsertConflicts,
               OpenLatest, Check, RecordDiscarded, WriteFails, Abandoned, ProviderChanges, vars
<1> QED
    BY <1>1, IInvAlways, PTL DEF Spec, CredentialKept

(***************************************************************************)
(* Credentials implements CredentialPromise                                *)
(***************************************************************************)

LEMMA TheOneOf == ASSUME NEW S, NEW i \in S, \A j \in S : j = i PROVE TheOne(S) = i
BY DEF TheOne

\* A live row fills its provider's slot.
LEMMA SlotFilled ==
    ASSUME IInv, NEW p \in Providers, NEW i \in GetLive(p)
    PROVE  GetLive(p) = {i} /\ Slots[p] = i
<1>1. i \in Ids /\ \A j \in GetLive(p) : j = i
    BY DEF IInv, OneLive, Having, GetLive, Live
<1>2. TheOne(GetLive(p)) = i
    BY <1>1, TheOneOf
<1> QED
    BY <1>1, <1>2 DEF Slots

LEMMA SlotEmpty ==
    ASSUME NEW p \in Providers, GetLive(p) = {} PROVE Slots[p] = 0
BY DEF Slots, TheOne

\* What the live rows of every provider are says what is in the slots.
LEMMA SlotsFollow ==
    ASSUME NEW p \in Providers,
           \A q \in Providers \ {p} : GetLive(q)' = GetLive(q),
           NEW k, TheOne(GetLive(p)') = k
    PROVE  Slots' = [Slots EXCEPT ![p] = k]
BY DEF Slots

LEMMA RefinesInit == Init => Vault!PromiseInit
<1> SUFFICES ASSUME Init PROVE Vault!PromiseInit
    OBVIOUS
<1>1. \A i \in Ids : /\ rows[i].status = "absent"
                    /\ rows[i].provider = "none" /\ rows[i].secret = "none"
    BY DEF Init, Absent
<1>2. \A p \in Providers : GetLive(p) = {} /\ Having(p, {"active"}) = {}
    BY <1>1 DEF GetLive, Having, Live
<1>3. Slots = [p \in Providers |-> 0] /\ Trusted = {}
    BY <1>2 DEF Slots, Trusted, TheOne
<1>4. Cards = [i \in Ids |-> Vault!NoCard] /\ Revoked = {}
    BY <1>1 DEF Cards, Revoked, Vault!NoCard
<1> QED
    BY <1>3, <1>4 DEF Init, Vault!PromiseInit

\* A step that leaves the table and the deletions alone changes at most a provider's mind.
LEMMA RefinesOutside ==
    ASSUME IInv, [Next]_vars, UNCHANGED <<rows, deleted>>
    PROVE  [Vault!PromiseNext]_Vault!promiseVars
<1>1. UNCHANGED <<Slots, Trusted, Cards, Revoked>>
    BY DEF Slots, Trusted, Cards, Revoked, GetLive, Having
<1>2. CASE \E s \in Secrets : ProviderChanges(s)
    <2>1. Vault!Change
        BY <1>1, <1>2 DEF ProviderChanges, Vault!Change, IInv, TypeOK
    <2> QED
        BY <2>1 DEF Vault!PromiseNext
<1>3. CASE ~\E s \in Secrets : ProviderChanges(s)
    <2>1. ASSUME NEW c \in Callers, RequestStep(c) PROVE UNCHANGED provider
        BY <2>1 DEF RequestStep, Lookup, Prove, Swap, Insert, InsertConflicts, OpenLatest,
                    Check, Record, RecordDiscarded
    <2>2. ASSUME NEW c \in Callers, NEW p \in Providers, NEW s \in Secrets,
                 Submit(c, p, s)
          PROVE  UNCHANGED provider
        BY <2>2 DEF Submit
    <2>3. ASSUME NEW c \in Callers, NEW p \in Providers, VerifyCalled(c, p)
          PROVE  UNCHANGED provider
        BY <2>3 DEF VerifyCalled
    <2>4. ASSUME NEW c \in Callers, WriteFails(c) \/ Abandoned(c) PROVE UNCHANGED provider
        BY <2>4 DEF WriteFails, Abandoned
    <2>5. ASSUME NEW p \in Providers, DeleteCredential(p) PROVE UNCHANGED provider
        BY <2>5 DEF DeleteCredential
    <2>6. UNCHANGED provider
        BY <1>3, <2>1, <2>2, <2>3, <2>4, <2>5 DEF Next, vars
    <2> QED
        BY <1>1, <2>6 DEF Vault!promiseVars, provider
<1> QED
    BY <1>2, <1>3


LEMMA SlotSet == ASSUME IInv, NEW p \in Providers PROVE GetLive(p) = {Slots[p]} \ {0}
<1>1. CASE GetLive(p) = {}
    BY <1>1, SlotEmpty
<1>2. ASSUME NEW i \in GetLive(p) PROVE GetLive(p) = {Slots[p]} \ {0}
    <2>1. i \in Ids /\ i # 0
        BY IdsAssumption DEF GetLive
    <2> QED
        BY <1>2, <2>1, SlotFilled
<1> QED
    BY <1>1, <1>2

\* A row that does not exist yet is nobody's.
LEMMA FreshRow ==
    ASSUME IInv, NEW n \in Ids, rows[n].status = "absent"
    PROVE  /\ Cards[n] = Vault!NoCard /\ n \notin Revoked
           /\ \A p \in Providers : n \notin GetLive(p) /\ n \notin Having(p, {"active"})
<1>1. rows[n].provider = "none" /\ rows[n].secret = "none"
    <2>1. rows[n] = Absent
        BY DEF IInv, AbsentIsEmpty
    <2>2. Absent.provider = "none" /\ Absent.secret = "none"
        BY DEF Absent
    <2> QED
        BY <2>1, <2>2
<1> QED
    BY <1>1 DEF Cards, Revoked, Vault!NoCard, GetLive, Having, Live

\* A row is stored: the one write of a transaction that also retires, or does not.
LEMMA StoredCard ==
    ASSUME IInv, NEW n \in Ids, NEW p \in Providers, NEW s \in Secrets,
           rows[n].status = "absent",
           rows'[n].provider = p, rows'[n].secret = s,
           \A i \in Ids \ {n} : rows'[i] \in {Retired(i, p), rows[i]}
    PROVE  /\ Cards' = [Cards EXCEPT ![n] = Vault!CardOf(p, s)]
           /\ \A q \in Providers \ {p} :
                 /\ GetLive(q)' = GetLive(q)
                 /\ Having(q, {"active"})' = Having(q, {"active"})
<1>1. \A i \in Ids \ {n} :
         rows'[i].provider = rows[i].provider /\ rows'[i].secret = rows[i].secret
    BY RetiredRow DEF RetiredFrom
<1>2. Cards' = [Cards EXCEPT ![n] = Vault!CardOf(p, s)]
    BY <1>1 DEF Cards, Vault!CardOf
<1>3. ASSUME NEW q \in Providers \ {p}
      PROVE  /\ GetLive(q)' = GetLive(q)
             /\ Having(q, {"active"})' = Having(q, {"active"})
    <2>1. n \notin GetLive(q) /\ n \notin Having(q, {"active"})
        BY <1>3, FreshRow
    <2>2. \A i \in Ids \ {n} : rows[i].provider = q => rows'[i] = rows[i]
        BY <1>3 DEF Retired, GetLive
    <2> QED
        BY <1>1, <1>3, <2>1, <2>2 DEF GetLive, Having
<1> QED
    BY <1>2, <1>3

LEMMA RefinesSwap == ASSUME IInv, NEW c \in Callers, Swap(c) PROVE Vault!PromiseNext
<1> DEFINE new == MergeMeta(Sealed(req[c]), req[c].verdict)
<1>1. PICK p \in Providers, s \in Secrets :
         /\ p = req[c].provider /\ s = req[c].secret /\ req[c] \in Requests
         /\ req[c].verdict = "active" /\ s \in wasValid
    BY DEF IInv, TypeOK, VerdictsCarried, Swap, Submitting
<1>2. new.status = "active" /\ new.provider = p /\ new.secret = s
    BY <1>1 DEF MergeMeta, Sealed, Requests
<1>3. PICK n \in Ids :
         /\ rows[n].status = "absent"
         /\ rows'[n] = new
         /\ \A i \in Ids \ {n} : rows'[i] = Retired(i, p)
    BY <1>1 DEF Swap, NextId
<1> HIDE DEF new
<1>4. UNCHANGED <<deleted, wasValid, wasInvalid>>
    BY DEF Swap, provider
<1>5. /\ Cards' = [Cards EXCEPT ![n] = Vault!CardOf(p, s)]
      /\ \A q \in Providers \ {p} :
            /\ GetLive(q)' = GetLive(q)
            /\ Having(q, {"active"})' = Having(q, {"active"})
    BY <1>1, <1>2, <1>3, StoredCard
<1>6. \A i \in Ids \ {n} : rows'[i].provider = p => ~Live(rows'[i].status)
    BY <1>1, <1>3, RetiredRow DEF RetiredFrom, Live
<1>7. GetLive(p)' = {n} /\ n \in Having(p, {"active"})'
    BY <1>2, <1>3, <1>6 DEF GetLive, Having, Live
<1>8. Slots' = [Slots EXCEPT ![p] = n] /\ Trusted' = Trusted \cup {p}
    <2>1. TheOne(GetLive(p)') = n
        BY <1>7, TheOneOf
    <2> QED
        BY <1>1, <1>5, <1>7, <2>1, SlotsFollow DEF Trusted
<1>9. Revoked' = Revoked \cup ({Slots[p]} \ {0, n})
    <2>1. n \notin GetLive(p) /\ n \notin Revoked
        BY <1>1, <1>3, FreshRow
    <2>2. Revoked' = Revoked \cup GetLive(p)
        BY <1>2, <1>3, <2>1 DEF Revoked, Retired, GetLive, IInv, TypeOK, Rows
    <2> QED
        BY <1>1, <2>1, <2>2, SlotSet
<1>10. Cards[n] = Vault!NoCard /\ n \notin Revoked
    BY <1>3, FreshRow
<1>11. Vault!Settle(p, n, s)
    BY <1>1, <1>4, <1>5, <1>8, <1>9, <1>10 DEF Vault!Settle
<1> QED
    BY <1>1, <1>11 DEF Vault!PromiseNext

LEMMA RefinesInsert == ASSUME IInv, NEW c \in Callers, Insert(c) PROVE Vault!PromiseNext
<1> DEFINE new == Sealed(req[c])
<1>1. PICK p \in Providers, s \in Secrets : p = req[c].provider /\ s = req[c].secret
    BY DEF IInv, TypeOK, Insert, Submitting
<1>2. new.status = "unverified" /\ new.provider = p /\ new.secret = s
    BY <1>1 DEF Sealed
<1>3. PICK n \in Ids :
         /\ rows[n].status = "absent"
         /\ rows'[n] = new
         /\ \A i \in Ids \ {n} : rows'[i] = rows[i]
    BY DEF Insert, NextId, IInv, TypeOK
<1>4. UNCHANGED <<deleted, wasValid, wasInvalid>> /\ GetLive(p) = {}
    BY <1>1 DEF Insert, provider
<1> HIDE DEF new
<1>5. /\ Cards' = [Cards EXCEPT ![n] = Vault!CardOf(p, s)]
      /\ \A q \in Providers \ {p} :
            /\ GetLive(q)' = GetLive(q)
            /\ Having(q, {"active"})' = Having(q, {"active"})
    BY <1>1, <1>2, <1>3, StoredCard
<1>6. /\ GetLive(p)' = {n}
      /\ Having(p, {"active"}) = {} /\ Having(p, {"active"})' = {}
    BY <1>2, <1>3, <1>4 DEF GetLive, Having, Live
<1>7. Slots' = [Slots EXCEPT ![p] = n] /\ Trusted' = Trusted
    <2>1. TheOne(GetLive(p)') = n
        BY <1>6, TheOneOf
    <2> QED
        BY <1>1, <1>5, <1>6, <2>1, SlotsFollow DEF Trusted
<1>8. Revoked' = Revoked
    BY <1>2, <1>3 DEF Revoked
<1>9. Cards[n] = Vault!NoCard /\ Slots[p] = 0
    BY <1>1, <1>3, <1>4, FreshRow, SlotEmpty
<1>10. Vault!Try(p, n, s)
    BY <1>4, <1>5, <1>7, <1>8, <1>9 DEF Vault!Try
<1> QED
    BY <1>1, <1>10 DEF Vault!PromiseNext

LEMMA RefinesRecord ==
    ASSUME IInv, NEW c \in Callers, Record(c)
    PROVE  Vault!PromiseNext \/ UNCHANGED Vault!promiseVars
<1>1. PICK k \in Ids, p \in Providers, s \in Secrets :
         /\ k = req[c].row /\ p = req[c].provider /\ s = req[c].secret
         /\ rows[k] \in Rows /\ rows[k].status \notin {"absent", "revoked"}
         /\ rows[k].provider = p /\ rows[k].secret = s
    BY DEF IInv, TypeOK, RowsCarried, Record, Recordable, Checking
<1>2. PICK v \in {"active", "invalid"} :
         /\ v = req[c].verdict
         /\ v = "active" => s \in wasValid /\ GetLive(p) \subseteq {k}
         /\ v = "invalid" => s \in wasInvalid
    BY <1>1 DEF IInv, VerdictsCarried, Record, Recordable
<1> DEFINE new == MergeMeta([rows[k] EXCEPT !.expires = req[c].expires], v)
<1>3. new.status = v /\ new.provider = p /\ new.secret = s
    BY <1>1, <1>2 DEF MergeMeta, Rows
<1>4. rows'[k] = new /\ \A i \in Ids \ {k} : rows'[i] = rows[i]
    BY <1>1, <1>2 DEF Record, IInv, TypeOK
<1> HIDE DEF new
<1>5. UNCHANGED <<deleted, wasValid, wasInvalid>>
    BY DEF Record, provider
<1>6. /\ Cards' = Cards /\ Cards[k] = Vault!CardOf(p, s)
      /\ Revoked' = Revoked /\ k \notin Revoked
    BY <1>1, <1>3, <1>4 DEF Cards, Revoked, Vault!CardOf
<1>7. \A q \in Providers \ {p} :
         /\ GetLive(q)' = GetLive(q)
         /\ Having(q, {"active"})' = Having(q, {"active"})
    BY <1>1, <1>3, <1>4 DEF GetLive, Having
<1>8. CASE v = "active"
    <2>1. GetLive(p)' = {k} /\ k \in Having(p, {"active"})'
        BY <1>2, <1>3, <1>4, <1>8 DEF GetLive, Having, Live
    <2>2. TheOne(GetLive(p)') = k
        BY <2>1, TheOneOf
    <2>3. Slots' = [Slots EXCEPT ![p] = k] /\ Trusted' = Trusted \cup {p}
        BY <1>7, <2>1, <2>2, SlotsFollow DEF Trusted
    <2>4. Slots[p] \in {0, k}
        BY <1>2, <1>8, SlotSet
    <2>5. Cards' = [Cards EXCEPT ![k] = Vault!CardOf(p, s)]
        BY <1>6 DEF Cards
    <2>6. Vault!Settle(p, k, s)
        BY <1>2, <1>5, <1>6, <1>8, <2>3, <2>4, <2>5 DEF Vault!Settle
    <2> QED
        BY <2>6 DEF Vault!PromiseNext
<1>9. CASE v = "invalid" /\ k \in GetLive(p)
    <2>1. GetLive(p) = {k} /\ Slots[p] = k /\ k # 0
        BY <1>9, SlotFilled, IdsAssumption
    <2>2. GetLive(p)' = {} /\ Having(p, {"active"})' = {}
        BY <1>3, <1>4, <1>9, <2>1 DEF GetLive, Having, Live
    <2>3. TheOne(GetLive(p)') = 0
        BY <2>2 DEF TheOne
    <2>4. Slots' = [Slots EXCEPT ![p] = 0] /\ Trusted' = Trusted \ {p}
        BY <1>7, <2>2, <2>3, SlotsFollow DEF Trusted
    <2>5. Cards[Slots[p]].secret \in wasInvalid
        BY <1>2, <1>6, <1>9, <2>1 DEF Vault!CardOf
    <2>6. Vault!Drop(p)
        BY <1>5, <1>6, <2>1, <2>4, <2>5 DEF Vault!Drop
    <2> QED
        BY <2>6 DEF Vault!PromiseNext
<1>10. CASE v = "invalid" /\ k \notin GetLive(p)
    <2>1. \A q \in Providers :
             GetLive(q)' = GetLive(q) /\ Having(q, {"active"})' = Having(q, {"active"})
        BY <1>1, <1>3, <1>4, <1>7, <1>10 DEF GetLive, Having, Live
    <2>2. Slots' = Slots /\ Trusted' = Trusted
        BY <2>1 DEF Slots, Trusted
    <2> QED
        BY <1>5, <1>6, <2>2 DEF Vault!promiseVars
<1> QED
    BY <1>8, <1>9, <1>10

LEMMA RefinesDelete ==
    ASSUME IInv, NEW p \in Providers, DeleteCredential(p) PROVE Vault!PromiseNext
<1>1. \A i \in Ids : rows'[i] = Retired(i, p)
    BY DEF DeleteCredential
<1>2. UNCHANGED <<wasValid, wasInvalid>>
    BY DEF DeleteCredential, provider
<1>3. Cards' = Cards
    BY <1>1, RetiredRow DEF Cards, RetiredFrom
<1>4. deleted' = deleted \cup {i \in Ids : Cards[i].provider = p}
    BY DEF DeleteCredential, Cards
<1>5. \A q \in Providers \ {p} :
         /\ GetLive(q)' = GetLive(q)
         /\ Having(q, {"active"})' = Having(q, {"active"})
    <2>1. \A i \in Ids : rows'[i].provider = rows[i].provider
        BY <1>1, RetiredRow DEF RetiredFrom
    <2>2. \A q \in Providers \ {p} : \A i \in Ids :
             rows[i].provider = q => rows'[i] = rows[i]
        BY <1>1 DEF Retired, GetLive
    <2> QED
        BY <2>1, <2>2 DEF GetLive, Having
<1>6. GetLive(p)' = {} /\ Having(p, {"active"})' = {}
    BY <1>1, RetiredRow DEF RetiredFrom, GetLive, Having, Live
<1>7. TheOne(GetLive(p)') = 0
    BY <1>6 DEF TheOne
<1>8. Slots' = [Slots EXCEPT ![p] = 0] /\ Trusted' = Trusted \ {p}
    BY <1>5, <1>6, <1>7, SlotsFollow DEF Trusted
<1>9. Revoked' = Revoked \cup ({Slots[p]} \ {0})
    <2>1. Revoked' = Revoked \cup GetLive(p)
        BY <1>1 DEF Revoked, Retired, GetLive, IInv, TypeOK, Rows
    <2> QED
        BY <2>1, SlotSet
<1>10. Vault!Dismiss(p)
    BY <1>2, <1>3, <1>4, <1>8, <1>9 DEF Vault!Dismiss
<1> QED
    BY <1>10 DEF Vault!PromiseNext

\* Only four steps write the table or record a deletion.
LEMMA RefinesStep ==
    ASSUME IInv, [Next]_vars PROVE [Vault!PromiseNext]_Vault!promiseVars
<1>1. ASSUME NEW c \in Callers, RequestStep(c) PROVE [Vault!PromiseNext]_Vault!promiseVars
    <2>1. CASE Swap(c) \/ Insert(c) \/ Record(c)
        BY <2>1, RefinesSwap, RefinesInsert, RefinesRecord
    <2>2. CASE ~(Swap(c) \/ Insert(c) \/ Record(c))
        <3>1. UNCHANGED <<rows, deleted>>
            BY <1>1, <2>2 DEF RequestStep, Lookup, Prove, InsertConflicts, OpenLatest, Check,
                              RecordDiscarded
        <3> QED
            BY <3>1, RefinesOutside
    <2> QED
        BY <2>1, <2>2
<1>2. ASSUME NEW p \in Providers, DeleteCredential(p)
      PROVE  [Vault!PromiseNext]_Vault!promiseVars
    BY <1>2, RefinesDelete
<1>3. CASE /\ ~\E c \in Callers : RequestStep(c)
           /\ ~\E p \in Providers : DeleteCredential(p)
    <2>1. UNCHANGED <<rows, deleted>>
        BY <1>3 DEF Next, Submit, VerifyCalled, WriteFails, Abandoned, ProviderChanges, vars
    <2> QED
        BY <2>1, RefinesOutside
<1> QED
    BY <1>1, <1>2, <1>3

\* The table, under any interleaving of requests, abandoned and failing ones included,
\* keeps the promise of one slot per provider (service/provider.go: prove before
\* retiring; 0001_init.sql's partial unique index).
THEOREM PromiseKept == Spec => KeepsPromise
<1>1. IInv /\ [Next]_vars => [Vault!PromiseNext]_Vault!promiseVars
    BY RefinesStep
<1> QED
    BY IInvAlways, RefinesInit, <1>1, PTL DEF Spec, KeepsPromise, Vault!Promise
=============================================================================
