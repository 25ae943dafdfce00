----------------------- MODULE PostgresEvidenceStore -----------------------
(***************************************************************************)
(* PostgresStore of the Ledger: each call is several statements that other *)
(* calls run between, at READ COMMITTED.  A statement sees what was        *)
(* committed before it; rows, unique keys and advisory locks make the      *)
(* later of two transactions wait.  A call may fail after any statement:   *)
(* its transaction is rolled back, its locks go, and whether it committed  *)
(* before its answer was lost the caller cannot tell.                      *)
(***************************************************************************)
EXTENDS EvidenceRules

CONSTANTS
  Client,   \* concurrent requests
  Request,  \* the calls they make
  Id,       \* receipt ids, the nanosecond the receipt was made in
  MaxTime   \* bound on the clock

ASSUME MaxTimeAssumption == MaxTime \in Nat

\* A report's payload is the whole of it, its id with it; a policy's id is not
\* empty; a deadline is a time.
ASSUME RequestAssumption ==
  \A r \in Request :
    /\ r.op \in {"record", "reconcile", "retain", "erase", "policy", "gate"}
    /\ r.op = "record" => r = [op |-> "record", key |-> r.key, payload |-> r.payload]
    /\ r.op = "reconcile" =>
         /\ r = [op |-> "reconcile", key |-> r.key, id |-> r.id, payload |-> r.payload]
         /\ \A q \in Request : q.op = "reconcile" /\ q.payload = r.payload => q.id = r.id
    /\ r.op = "retain" => r.until \in Nat /\ r.hold \in BOOLEAN
    /\ r.op = "policy" => r.key # NoPolicy

VARIABLES
  now,       \* the clock
  receipts,  \* evidence_receipts by id
  answers,   \* idempotency_keys by service and key
  policies,  \* review_policies by the key their id is made from
  reports,   \* reconciliation_reports by id
  call,      \* what each client asked and was answered
  step,      \* the next statement of each call
  copy,      \* the row a transaction has read and changed, not yet committed
  told       \* requests and the answers their callers received

tables == <<receipts, answers, policies, reports>>
vars == <<now, tables, call, step, copy, told>>

Done(value) == [status |-> "ok", value |-> <<value>>]
Refused(why) == [status |-> why, value |-> <<>>]
NoReply == Refused("none")
Idle == [request |-> [op |-> "none"], reply |-> NoReply]
Failed == Refused("failed")
NoCopy == <<>>

Init ==
  /\ now = 0
  /\ receipts = [i \in {} |-> 0]
  /\ answers = [k \in {} |-> 0]
  /\ policies = [k \in {} |-> 0]
  /\ reports = [k \in {} |-> 0]
  /\ call = [c \in Client |-> Idle]
  /\ step = [c \in Client |-> "idle"]
  /\ copy = [c \in Client |-> NoCopy]
  /\ told = {}

----------------------------------------------------------------------------
Put(f, k, v) == [x \in DOMAIN f \cup {k} |-> IF x = k THEN v ELSE f[x]]
Req(c) == call[c].request
Go(c, s) == step' = [step EXCEPT ![c] = s] /\ UNCHANGED <<call, copy>>

\* The function returns; a transaction it left open is rolled back.
Answer(c, reply) ==
  /\ call' = [call EXCEPT ![c].reply = reply]
  /\ step' = [step EXCEPT ![c] = "answered"]
  /\ copy' = [copy EXCEPT ![c] = NoCopy]

FirstStep ==
  [record |-> "receipt_lookup", reconcile |-> "report_lookup", retain |-> "key_lock",
   erase |-> "key_lock", policy |-> "policy_lookup", gate |-> "gate_policy"]

Ask(c, r) ==
  /\ step[c] = "idle"
  /\ call' = [call EXCEPT ![c].request = r]
  /\ step' = [step EXCEPT ![c] = FirstStep[r.op]]
  /\ UNCHANGED <<now, tables, copy, told>>

----------------------------------------------------------------------------
(* RecordReceipt: look the key up, insert, and on a constraint error look  *)
(* it up again.                                                            *)
ByKey(key) == {i \in DOMAIN receipts : receipts[i].key = key}

Replayed(row, payload, value) ==
  IF row.payload = payload THEN Done(value) ELSE Refused("conflict")

ReceiptLookup(c) ==
  /\ step[c] = "receipt_lookup"
  /\ \/ \E i \in ByKey(Req(c).key) : Answer(c, Replayed(receipts[i], Req(c).payload, i))
     \/ ByKey(Req(c).key) = {} /\ Go(c, "receipt_insert")
  /\ UNCHANGED <<now, tables, told>>

\* The primary key and the unique idempotency key, in one statement.
ReceiptAccepted(i, r) == i \notin DOMAIN receipts /\ ByKey(r.key) = {}
ReceiptInsert(c) ==
  /\ step[c] = "receipt_insert"
  /\ \E i \in Id :
       \/ /\ ReceiptAccepted(i, Req(c))
          /\ receipts' = Put(receipts, i, NewReceipt(Req(c)))
          /\ Answer(c, Done(i))
       \/ ~ReceiptAccepted(i, Req(c)) /\ Go(c, "receipt_replay") /\ UNCHANGED receipts
  /\ UNCHANGED <<now, answers, policies, reports, told>>

\* Found: another call stored it.  Not found: the id was taken.
ReceiptReplay(c) ==
  /\ step[c] = "receipt_replay"
  /\ \/ \E i \in ByKey(Req(c).key) : Answer(c, Replayed(receipts[i], Req(c).payload, i))
     \/ ByKey(Req(c).key) = {} /\ Answer(c, Failed)
  /\ UNCHANGED <<now, tables, told>>

(* RecordReconciliation has the same shape; the report brings its own id.  *)
ReportsBy(key) == {i \in DOMAIN reports : reports[i].key = key}

ReportLookup(c) ==
  /\ step[c] = "report_lookup"
  /\ \/ \E i \in ReportsBy(Req(c).key) : Answer(c, Replayed(reports[i], Req(c).payload, i))
     \/ ReportsBy(Req(c).key) = {} /\ Go(c, "report_insert")
  /\ UNCHANGED <<now, tables, told>>

ReportAccepted(r) == r.id \notin DOMAIN reports /\ ReportsBy(r.key) = {}
ReportInsert(c) ==
  /\ step[c] = "report_insert"
  /\ \/ /\ ReportAccepted(Req(c))
        /\ reports' = Put(reports, Req(c).id, [key |-> Req(c).key, payload |-> Req(c).payload])
        /\ Answer(c, Done(Req(c).id))
     \/ ~ReportAccepted(Req(c)) /\ Go(c, "report_replay") /\ UNCHANGED reports
  /\ UNCHANGED <<now, receipts, answers, policies, told>>

ReportReplay(c) ==
  /\ step[c] = "report_replay"
  /\ \/ \E i \in ReportsBy(Req(c).key) : Answer(c, Replayed(reports[i], Req(c).payload, i))
     \/ ReportsBy(Req(c).key) = {} /\ Answer(c, Failed)
  /\ UNCHANGED <<now, tables, told>>

----------------------------------------------------------------------------
(* mutateReceipt, of UpdateReceiptRetention and PrivacyDeleteReceipt: an   *)
(* advisory lock on the key, the row FOR UPDATE, the change, the commit.   *)
MutationKey(r) == <<r.op, r.key>>
HoldsKey(d) == step[d] \in {"row", "row_commit"}
\* Mutant: no advisory lock.
KeyAlwaysFree(c) == TRUE

KeyFree(c) == \A d \in Client : HoldsKey(d) => MutationKey(Req(d)) # MutationKey(Req(c))

KeyLock(c) ==
  LET k == MutationKey(Req(c)) IN
  /\ step[c] = "key_lock" /\ KeyFree(c)
  /\ \/ k \in DOMAIN answers
        /\ Answer(c, IF answers[k].request = Req(c) THEN Done(answers[k].result)
                     ELSE Refused("conflict"))
     \/ k \notin DOMAIN answers /\ Go(c, "row")
  /\ UNCHANGED <<now, tables, told>>

HoldsRow(d) == step[d] = "row_commit"
\* Mutant: the row is read without FOR UPDATE.
RowAlwaysFree(c) == TRUE

RowFree(c) == \A d \in Client : HoldsRow(d) => Req(d).receipt # Req(c).receipt

RowForUpdate(c) ==
  LET i == Req(c).receipt IN
  /\ step[c] = "row" /\ RowFree(c)
  /\ \/ i \notin DOMAIN receipts /\ Answer(c, Refused("not_found"))
     \/ /\ i \in DOMAIN receipts
        /\ LET refusal == MutationRefusal(receipts[i], Req(c), now) IN
           refusal # "none" /\ Answer(c, Refused(refusal))
     \/ /\ i \in DOMAIN receipts /\ MutationRefusal(receipts[i], Req(c), now) = "none"
        /\ copy' = [copy EXCEPT ![c] = <<Mutated(receipts[i], Req(c))>>]
        /\ step' = [step EXCEPT ![c] = "row_commit"]
        /\ UNCHANGED call
  /\ UNCHANGED <<now, tables, told>>

RowCommit(c) ==
  /\ step[c] = "row_commit"
  /\ receipts' = [receipts EXCEPT ![Req(c).receipt] = copy[c][1]]
  /\ answers' = Put(answers, MutationKey(Req(c)),
                    [request |-> Req(c), result |-> RetentionOf(copy[c][1])])
  /\ Answer(c, Done(RetentionOf(copy[c][1])))
  /\ UNCHANGED <<now, policies, reports, told>>

----------------------------------------------------------------------------
(* CreateReviewPolicy: the key, what is active in the scope, the previous  *)
(* policy set to superseded, the insert, the commit; a constraint error or *)
(* a scope that does not allow it ends in replayReviewPolicy.              *)
Active == {k \in DOMAIN policies : policies[k].status = "active"}

\* Mutant: a key is replayed whatever the request.
PolicyReplayedUnread(r) == Done(r.key)

PolicyReplayed(r) ==
  IF policies[r.key].request = r THEN Done(r.key) ELSE Refused("conflict")

PolicyLookup(c) ==
  /\ step[c] = "policy_lookup"
  /\ IF Req(c).key \in DOMAIN policies THEN Answer(c, PolicyReplayed(Req(c)))
     ELSE Go(c, "policy_scope")
  /\ UNCHANGED <<now, tables, told>>

PolicyScope(c) ==
  LET refusal == PolicyRefusal(policies, Req(c)) IN
  /\ step[c] = "policy_scope"
  /\ \/ refusal = "not_found" /\ Answer(c, Refused("not_found"))
     \/ refusal = "invalid" /\ Go(c, "policy_replay")
     \/ refusal = "none" /\ Req(c).supersedes = NoPolicy /\ Go(c, "policy_insert")
     \/ refusal = "none" /\ Req(c).supersedes # NoPolicy /\ Go(c, "policy_update")
  /\ UNCHANGED <<now, tables, told>>

\* The update waits for the row; it does not read the status again.
HoldsPolicy(d) == step[d] \in {"policy_insert", "policy_commit"}
PreviousFree(c) == \A d \in Client : HoldsPolicy(d) => Req(d).supersedes # Req(c).supersedes
PolicyUpdate(c) ==
  /\ step[c] = "policy_update" /\ PreviousFree(c)
  /\ Go(c, "policy_insert")
  /\ UNCHANGED <<now, tables, told>>

\* The unique key, and the unique index on the active policy of a scope: a
\* policy another transaction has inserted is waited for.
PolicyPending(c) == \E d \in Client \ {c} : step[d] = "policy_commit"
\* Mutant: the unique index on the active policy is missing.
PolicyAcceptedByKey(r) == r.key \notin DOMAIN policies

PolicyAccepted(r) == r.key \notin DOMAIN policies /\ Active \subseteq {r.supersedes}
PolicyInsert(c) ==
  /\ step[c] = "policy_insert" /\ ~PolicyPending(c)
  /\ Go(c, IF PolicyAccepted(Req(c)) THEN "policy_commit" ELSE "policy_replay")
  /\ UNCHANGED <<now, tables, told>>

Superseding(r) ==
  [k \in DOMAIN policies |->
     IF k = r.supersedes THEN [policies[k] EXCEPT !.status = "superseded"] ELSE policies[k]]
PolicyCommit(c) ==
  /\ step[c] = "policy_commit"
  /\ policies' = Put(Superseding(Req(c)), Req(c).key, NewPolicy(Req(c)))
  /\ Answer(c, Done(Req(c).key))
  /\ UNCHANGED <<now, receipts, answers, reports, told>>

\* Mutant: a constraint error is refused without a second look at the key.
PolicyRefusedBlindly(c) ==
  /\ step[c] = "policy_replay"
  /\ Answer(c, Refused("invalid"))
  /\ UNCHANGED <<now, tables, told>>

PolicyReplay(c) ==
  /\ step[c] = "policy_replay"
  /\ Answer(c, IF Req(c).key \in DOMAIN policies THEN PolicyReplayed(Req(c))
               ELSE Refused("invalid"))
  /\ UNCHANGED <<now, tables, told>>

----------------------------------------------------------------------------
(* EvaluateReviewGate reads the policy and the reviews in two statements;  *)
(* the reviews it is asked about need not be recorded.                     *)
Reviews(keys) ==
  {receipts[i].payload : i \in {j \in DOMAIN receipts : receipts[j].key \in keys}}

GatePolicy(c) ==
  /\ step[c] = "gate_policy"
  /\ \/ Active = {} /\ Answer(c, Refused("not_found"))
     \/ \E k \in Active :
          /\ copy' = [copy EXCEPT ![c] = <<k>>]
          /\ step' = [step EXCEPT ![c] = "gate_reviews"]
          /\ UNCHANGED call
  /\ UNCHANGED <<now, tables, told>>

Gate(c) ==
  Done([policy |-> copy[c][1], gate |-> GateStatus(policies[copy[c][1]], Reviews(Req(c).reviews))])
GateReviews(c) ==
  /\ step[c] = "gate_reviews"
  /\ Answer(c, Gate(c))
  /\ UNCHANGED <<now, tables, told>>

----------------------------------------------------------------------------
(* Failures, the caller, the clock.                                        *)
Fail(c) ==
  /\ step[c] # "idle" /\ call[c].reply.status # "failed"
  /\ Answer(c, Failed)
  /\ UNCHANGED <<now, tables, told>>

Return(c) ==
  /\ step[c] = "answered"
  /\ told' = IF call[c].reply.status = "ok" /\ Req(c).op # "gate"
             THEN told \cup {<<Req(c), call[c].reply.value[1]>>} ELSE told
  /\ call' = [call EXCEPT ![c] = Idle]
  /\ step' = [step EXCEPT ![c] = "idle"]
  /\ UNCHANGED <<now, tables, copy>>

Tick ==
  /\ now < MaxTime
  /\ now' = now + 1
  /\ UNCHANGED <<tables, call, step, copy, told>>

Waiting(c) == KeyLock(c) \/ RowForUpdate(c) \/ PolicyUpdate(c) \/ PolicyInsert(c)
Running(c) ==
  \/ ReceiptLookup(c) \/ ReceiptInsert(c) \/ ReceiptReplay(c)
  \/ ReportLookup(c) \/ ReportInsert(c) \/ ReportReplay(c)
  \/ RowCommit(c)
  \/ PolicyLookup(c) \/ PolicyScope(c) \/ PolicyCommit(c) \/ PolicyReplay(c)
  \/ GatePolicy(c) \/ GateReviews(c)

Next ==
  \/ \E c \in Client :
       \/ \E r \in Request : Ask(c, r)
       \/ Waiting(c) \/ Running(c) \/ Fail(c) \/ Return(c)
  \/ Tick

Spec == Init /\ [][Next]_vars

----------------------------------------------------------------------------
(* Properties.                                                             *)

\* Tables, calls and copies hold values of their types.
TypeOK ==
  /\ now \in 0..MaxTime
  /\ DOMAIN receipts \subseteq Id
  /\ \A k \in DOMAIN answers : MutationKey(answers[k].request) = k
  /\ \A k \in DOMAIN policies :
       policies[k].request.key = k /\ policies[k].status \in {"active", "superseded"}
  /\ \A c \in Client :
       /\ step[c] = "idle" <=> Req(c).op = "none"
       /\ step[c] = "answered" => call[c].reply.status # "none"
       /\ copy[c] # NoCopy <=> step[c] \in {"row_commit", "gate_reviews"}

\* A caller who was told its receipt, report, retention or erasure is stored
\* finds it so ever after, whatever other calls did between its statements: a
\* later retention only adds to the one it was told.
ToldIsKept ==
  \A t \in told :
    LET r == t[1]
        value == t[2]
    IN CASE r.op = "record" ->
              value \in DOMAIN receipts /\ receipts[value].key = r.key
                /\ receipts[value].payload = r.payload
         [] r.op = "reconcile" ->
              value \in DOMAIN reports /\ reports[value].payload = r.payload
         [] r.op \in {"retain", "erase"} ->
              LET row == receipts[r.receipt] IN
              /\ row.until >= value.until
              /\ value.hold => row.hold
              /\ value.erased => row.erased
         [] r.op = "policy" -> value \in DOMAIN policies /\ policies[value].request = r

\* A key is answered for one payload only, and always with the same answer: no
\* two receipts, reports or mutations come of one key.
OneAnswerPerKey ==
  \A t, u \in told :
    (t[1].op = u[1].op /\ t[1].key = u[1].key) => t = u

\* Of the policies of one scope at most one is active, and one policy is
\* superseded at most once: two creations that both read the scope before
\* either commits do not both succeed.
OneActivePolicy ==
  /\ Cardinality(Active) <= 1
  /\ \A k, l \in DOMAIN policies :
       policies[k].request.supersedes = policies[l].request.supersedes => k = l
  /\ \A k \in DOMAIN policies :
       policies[k].status = "superseded" <=>
         \E l \in DOMAIN policies : policies[l].request.supersedes = k

\* Of concurrent retention updates and erasures none undoes another: the
\* deadline never moves closer, a hold is never lost, nothing erased returns, and
\* a receipt is erased only while no hold and no running deadline protects it
\* in the table, not only in the copy the transaction read.
RetentionHolds ==
  [][\A i \in DOMAIN receipts :
       LET row == receipts[i]
           next == receipts'[i]
       IN /\ i \in DOMAIN receipts'
          /\ next.until >= row.until
          /\ row.hold => next.hold
          /\ row.erased => next.erased
          /\ next.erased /\ ~row.erased => ~row.hold /\ row.until <= now]_vars

\* Report rows by their idempotency key, as the in-memory store keeps them.
ReportRows == [k \in {reports[i].key : i \in DOMAIN reports} |->
                 LET i == CHOOSE j \in ReportsBy(k) : TRUE IN
                 [id |-> i, payload |-> reports[i].payload]]
Memory == INSTANCE EvidenceStore WITH reports <- ReportRows

\* The one answer no call of one step gives: the policy a gate read has been
\* superseded before it reads the reviews, and decides all the same.
GateBySuperseded(c) ==
  /\ step[c] = "gate_reviews" /\ copy[c][1] \notin Active
  /\ Memory!Answer(c, Gate(c))
  /\ UNCHANGED <<now, tables>>

\* The store looks to its clients as the in-memory one, where a call is one
\* step, but for a gate during which its policy is superseded: every record,
\* report, retention, erasure, policy and every other gate is decided at one
\* instant of its call.
ActsAsMemory ==
  Memory!Init /\ [][Memory!Next \/ \E c \in Client : GateBySuperseded(c)]_(Memory!vars)

\* Does not hold (README, Known departures): the gate as the in-memory store
\* decides it, by the policy in force and the reviews at one instant.
GateAtOneInstant == Memory!Spec
=============================================================================
