--------------------------- MODULE EvidenceStore ---------------------------
(***************************************************************************)
(* The Ledger's evidence store as its in-memory implementation gives it:   *)
(* receipts (artifacts and reviews are receipts), their retention, review  *)
(* policies and the review gate, each call one step under one mutex.  It   *)
(* is what PostgresStore has to look like to its clients.                  *)
(***************************************************************************)
EXTENDS EvidenceRules

CONSTANTS
  Client,   \* concurrent requests
  Request,  \* the calls they make
  Id        \* receipt ids

VARIABLES
  now,       \* the clock
  receipts,  \* stored receipts by id
  answers,   \* mutations by their idempotency key, with the result first given
  policies,  \* review policies by the key that created them
  reports,   \* reconciliation reports by their idempotency key
  call       \* what each client asked and was answered

vars == <<now, receipts, answers, policies, reports, call>>

Done(value) == [status |-> "ok", value |-> <<value>>]
Refused(why) == [status |-> why, value |-> <<>>]
NoReply == Refused("none")
Idle == [request |-> [op |-> "none"], reply |-> NoReply]
Failed == Refused("failed")

Init ==
  /\ now = 0
  /\ receipts = [i \in {} |-> 0]
  /\ answers = [k \in {} |-> 0]
  /\ policies = [k \in {} |-> 0]
  /\ reports = [k \in {} |-> 0]
  /\ call = [c \in Client |-> Idle]

Put(f, k, v) == [x \in DOMAIN f \cup {k} |-> IF x = k THEN v ELSE f[x]]

ByKey(key) == {i \in DOMAIN receipts : receipts[i].key = key}
Answer(c, reply) == call' = [call EXCEPT ![c].reply = reply]

Ask(c, r) ==
  /\ call[c].request.op = "none"
  /\ call' = [call EXCEPT ![c].request = r]
  /\ UNCHANGED <<now, receipts, answers, policies, reports>>

Asked(c, op) == call[c].request.op = op /\ call[c].reply.status = "none"

RecordReceipt(c) ==
  LET r == call[c].request IN
  /\ Asked(c, "record")
  /\ \/ \E i \in ByKey(r.key) :
          /\ Answer(c, IF receipts[i].payload = r.payload THEN Done(i)
                       ELSE Refused("conflict"))
          /\ UNCHANGED receipts
     \/ /\ ByKey(r.key) = {}
        /\ \E i \in Id \ DOMAIN receipts :
             /\ receipts' = Put(receipts, i, NewReceipt(r))
             /\ Answer(c, Done(i))
  /\ UNCHANGED <<now, answers, policies, reports>>

RecordReconciliation(c) ==
  LET r == call[c].request IN
  /\ Asked(c, "reconcile")
  /\ \/ /\ r.key \in DOMAIN reports
        /\ Answer(c, IF reports[r.key].payload = r.payload THEN Done(reports[r.key].id)
                     ELSE Refused("conflict"))
        /\ UNCHANGED reports
     \/ /\ r.key \notin DOMAIN reports
        /\ reports' = Put(reports, r.key, [id |-> r.id, payload |-> r.payload])
        /\ Answer(c, Done(r.id))
  /\ UNCHANGED <<now, receipts, answers, policies>>

\* UpdateReceiptRetention and PrivacyDeleteReceipt.
Mutate(c) ==
  LET r == call[c].request
      k == <<r.op, r.key>>
  IN
  /\ Asked(c, "retain") \/ Asked(c, "erase")
  /\ \/ /\ k \in DOMAIN answers
        /\ Answer(c, IF answers[k].request = r THEN Done(answers[k].result)
                     ELSE Refused("conflict"))
        /\ UNCHANGED <<receipts, answers>>
     \/ /\ k \notin DOMAIN answers /\ r.receipt \notin DOMAIN receipts
        /\ Answer(c, Refused("not_found"))
        /\ UNCHANGED <<receipts, answers>>
     \/ /\ k \notin DOMAIN answers /\ r.receipt \in DOMAIN receipts
        /\ LET refusal == MutationRefusal(receipts[r.receipt], r, now) IN
           /\ refusal # "none"
           /\ Answer(c, Refused(refusal))
        /\ UNCHANGED <<receipts, answers>>
     \/ /\ k \notin DOMAIN answers /\ r.receipt \in DOMAIN receipts
        /\ MutationRefusal(receipts[r.receipt], r, now) = "none"
        /\ LET row == Mutated(receipts[r.receipt], r) IN
           /\ receipts' = [receipts EXCEPT ![r.receipt] = row]
           /\ answers' = Put(answers, k, [request |-> r, result |-> RetentionOf(row)])
           /\ Answer(c, Done(RetentionOf(row)))
  /\ UNCHANGED <<now, policies, reports>>

\* A request wrong in two ways may be refused for either.
CreateReviewPolicy(c) ==
  LET r == call[c].request IN
  /\ Asked(c, "policy")
  /\ \/ /\ r.key \in DOMAIN policies
        /\ Answer(c, IF policies[r.key].request = r THEN Done(r.key)
                     ELSE Refused("conflict"))
        /\ UNCHANGED policies
     \/ /\ PolicyRefusal(policies, r) # "none"
        /\ r.key \in DOMAIN policies => policies[r.key].request # r
        /\ Answer(c, Refused(PolicyRefusal(policies, r)))
        /\ UNCHANGED policies
     \/ /\ r.key \notin DOMAIN policies /\ PolicyRefusal(policies, r) = "none"
        /\ policies' =
             Put([k \in DOMAIN policies |->
                    IF k = r.supersedes THEN [policies[k] EXCEPT !.status = "superseded"]
                    ELSE policies[k]],
                 r.key, NewPolicy(r))
        /\ Answer(c, Done(r.key))
  /\ UNCHANGED <<now, receipts, answers, reports>>

Active == {k \in DOMAIN policies : policies[k].status = "active"}
Reviews(keys) ==
  {receipts[i].payload : i \in {j \in DOMAIN receipts : receipts[j].key \in keys}}

\* A review that is asked about and not recorded counts as missing.
EvaluateReviewGate(c) ==
  LET r == call[c].request IN
  /\ Asked(c, "gate")
  /\ \/ Active = {} /\ Answer(c, Refused("not_found"))
     \/ \E k \in Active :
          Answer(c, Done([policy |-> k, gate |-> GateStatus(policies[k], Reviews(r.reviews))]))
  /\ UNCHANGED <<now, receipts, answers, policies, reports>>

\* The call fails before it changed anything, or its answer is lost.
Fail(c) ==
  /\ call[c].request.op # "none" /\ call[c].reply.status # "failed"
  /\ Answer(c, Failed)
  /\ UNCHANGED <<now, receipts, answers, policies, reports>>

Return(c) ==
  /\ call[c].reply.status # "none"
  /\ call' = [call EXCEPT ![c] = Idle]
  /\ UNCHANGED <<now, receipts, answers, policies, reports>>

Tick == now' = now + 1 /\ UNCHANGED <<receipts, answers, policies, reports, call>>

Next ==
  \/ \E c \in Client :
       \/ \E r \in Request : Ask(c, r)
       \/ RecordReceipt(c) \/ RecordReconciliation(c)
       \/ Mutate(c) \/ CreateReviewPolicy(c)
       \/ EvaluateReviewGate(c) \/ Fail(c) \/ Return(c)
  \/ Tick

Spec == Init /\ [][Next]_vars
=============================================================================
