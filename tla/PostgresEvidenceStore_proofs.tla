-------------------- MODULE PostgresEvidenceStore_proofs --------------------
(***************************************************************************)
(* The safety of the Ledger's PostgresStore, for any clients, requests and *)
(* ids.  What a caller has been told, or is about to be, stands in the     *)
(* tables (Settled); what a transaction has read under a lock still holds  *)
(* when it commits (CallerOK), because the tables only grow and whoever    *)
(* could change what it read waits for the same lock (Locks).              *)
(***************************************************************************)
EXTENDS PostgresEvidenceStore, FiniteSetTheorems, TLAPS

RecordRequest == {r \in Request : r.op = "record"}
Keys == {r.key : r \in RecordRequest}
Payloads == {r.payload : r \in RecordRequest}
Row == [key : Keys, payload : Payloads, until : Nat, hold : BOOLEAN, erased : BOOLEAN]
Retention == [until : Nat, hold : BOOLEAN, erased : BOOLEAN]

\* A function of its domain, whatever its values.
AFunction(f, D) == f = [x \in D |-> f[x]]

\* The rows protect at least as much as a retention that was answered.
Covers(row, value) ==
  /\ row.until >= value.until
  /\ value.hold => row.hold
  /\ value.erased => row.erased

ReceiptsOK ==
  /\ AFunction(receipts, DOMAIN receipts) /\ DOMAIN receipts \subseteq Id
  /\ \A i \in DOMAIN receipts : receipts[i] \in Row
  /\ \A i, j \in DOMAIN receipts : receipts[i].key = receipts[j].key => i = j

ReportsOK ==
  /\ \A i, j \in DOMAIN reports : reports[i].key = reports[j].key => i = j
  /\ \A i \in DOMAIN reports :
       \E r \in Request : r.op = "reconcile" /\ r.id = i /\ r.payload = reports[i].payload

AnswersOK ==
  \A k \in DOMAIN answers :
    LET r == answers[k].request
        value == answers[k].result
    IN /\ r \in Request /\ r.op \in {"retain", "erase"} /\ MutationKey(r) = k
       /\ r.receipt \in DOMAIN receipts
       /\ value \in Retention
       /\ Covers(receipts[r.receipt], value)

PolicyRow(p) ==
  /\ p.request \in Request /\ p.request.op = "policy"
  /\ p.status \in {"active", "superseded"}
  /\ p = [version |-> p.request.version, reviewers |-> p.request.reviewers,
          status |-> p.status, request |-> p.request]

\* Policies supersede each other in a chain that has one end.
PoliciesOK ==
  /\ \A k \in DOMAIN policies :
       /\ PolicyRow(policies[k]) /\ policies[k].request.key = k
       /\ policies[k].request.supersedes \in DOMAIN policies \cup {NoPolicy}
  /\ \A k, l \in Active : k = l
  /\ DOMAIN policies # {} => Active # {}
  /\ \A k, l \in DOMAIN policies :
       policies[k].request.supersedes = policies[l].request.supersedes => k = l
  /\ \A k \in DOMAIN policies :
       policies[k].status = "superseded" <=>
         \E l \in DOMAIN policies : policies[l].request.supersedes = k

\* What a caller was told stands in the tables.
Settled(r, value) ==
  /\ r \in Request /\ r.op # "gate"
  /\ r.op = "record" =>
       value \in DOMAIN receipts /\ receipts[value].key = r.key /\ receipts[value].payload = r.payload
  /\ r.op = "reconcile" =>
       value \in DOMAIN reports /\ reports[value].key = r.key /\ reports[value].payload = r.payload
         /\ value = r.id
  /\ r.op \in {"retain", "erase"} =>
       MutationKey(r) \in DOMAIN answers
         /\ answers[MutationKey(r)].request = r /\ answers[MutationKey(r)].result = value
  /\ r.op = "policy" =>
       value = r.key /\ value \in DOMAIN policies /\ policies[value].request = r

ReceiptSteps == {"receipt_lookup", "receipt_insert", "receipt_replay"}
ReportSteps == {"report_lookup", "report_insert", "report_replay"}
MutationSteps == {"key_lock", "row", "row_commit"}
PolicySteps == {"policy_lookup", "policy_scope", "policy_update", "policy_insert",
                "policy_commit", "policy_replay"}
GateSteps == {"gate_policy", "gate_reviews"}
Step == {"idle", "answered"} \cup ReceiptSteps \cup ReportSteps \cup MutationSteps
          \cup PolicySteps \cup GateSteps

StepOf(op) ==
  CASE op = "record" -> ReceiptSteps
    [] op = "reconcile" -> ReportSteps
    [] op \in {"retain", "erase"} -> MutationSteps
    [] op = "policy" -> PolicySteps
    [] op = "gate" -> GateSteps

\* The previous policy was active in the scope when it was read; that it still
\* is, the insert finds out.
PreviousRead(r) ==
  r.supersedes # NoPolicy =>
    r.supersedes \in DOMAIN policies /\ policies[r.supersedes].version # r.version

\* What a call at a step has read and relies on.
CallerOK(r, reply, at, row) ==
  /\ at = "idle" => r = [op |-> "none"] /\ reply = NoReply
  /\ at # "idle" => r \in Request
  /\ at \notin {"idle", "answered"} => at \in StepOf(r.op) /\ reply = NoReply
  /\ at \notin {"row_commit", "gate_reviews"} => row = NoCopy
  /\ at = "answered" => reply.status # "none"
  /\ at = "answered" /\ reply.status = "ok" /\ r.op # "gate" => Settled(r, reply.value[1])
  /\ at \in {"row", "row_commit"} => MutationKey(r) \notin DOMAIN answers
  /\ at = "row_commit" =>
       /\ r.receipt \in DOMAIN receipts
       /\ MutationRefusal(receipts[r.receipt], r, now) = "none"
       /\ row = <<Mutated(receipts[r.receipt], r)>>
  /\ at \in {"policy_update", "policy_insert", "policy_commit"} => PreviousRead(r)
  /\ at = "policy_commit" => PolicyAccepted(r)
  /\ at = "policy_replay" /\ r.key \notin DOMAIN policies => PolicyRefusal(policies, r) = "invalid"
  /\ at = "gate_reviews" => row = <<row[1]>> /\ row[1] \in DOMAIN policies

Locks ==
  \A c, d \in Client : c # d =>
    /\ HoldsKey(c) /\ HoldsKey(d) => MutationKey(Req(c)) # MutationKey(Req(d))
    /\ HoldsRow(c) /\ HoldsRow(d) => Req(c).receipt # Req(d).receipt
    /\ ~(step[c] = "policy_commit" /\ step[d] = "policy_commit")

CallsOK ==
  /\ call = [c \in Client |-> [request |-> call[c].request, reply |-> call[c].reply]]
  /\ step \in [Client -> Step]
  /\ AFunction(copy, Client)
  /\ \A c \in Client : CallerOK(call[c].request, call[c].reply, step[c], copy[c])

ToldOK == \A t \in told : t = <<t[1], t[2]>> /\ Settled(t[1], t[2])

StoreInv ==
  /\ now \in 0..MaxTime
  /\ ReceiptsOK /\ ReportsOK /\ AnswersOK /\ PoliciesOK
  /\ CallsOK /\ Locks /\ ToldOK

----------------------------------------------------------------------------
(* What the tables keep while they grow.                                   *)

Grow ==
  /\ \A i \in DOMAIN receipts :
       /\ i \in DOMAIN receipts'
       /\ receipts'[i].key = receipts[i].key /\ receipts'[i].payload = receipts[i].payload
  /\ \A i \in DOMAIN reports : i \in DOMAIN reports' /\ reports'[i] = reports[i]
  /\ \A k \in DOMAIN answers : k \in DOMAIN answers' /\ answers'[k] = answers[k]
  /\ \A k \in DOMAIN policies :
       /\ k \in DOMAIN policies'
       /\ policies'[k].request = policies[k].request
       /\ policies'[k].version = policies[k].version

LEMMA StillGrow ==
  ASSUME UNCHANGED tables
  PROVE  Grow
BY DEF tables, Grow

LEMMA SettledKept ==
  ASSUME NEW r, NEW value, Settled(r, value), Grow
  PROVE  Settled(r, value)'
BY DEF Settled, Grow

LEMMA ToldKept ==
  ASSUME ToldOK, Grow, UNCHANGED told
  PROVE  ToldOK'
BY SettledKept DEF ToldOK

\* A refused mutation may be allowed later, an allowed one stays so.
LEMMA RefusalKept ==
  ASSUME NEW row \in Row, NEW r, now \in Nat, now' \in Nat, now' >= now,
         MutationRefusal(row, r, now) = "none"
  PROVE  MutationRefusal(row, r, now') = "none"
BY DEF MutationRefusal, EraseRefusal, Row

\* A call at rest while other calls run.
LEMMA CallerKept ==
  ASSUME NEW r, NEW reply, NEW at, NEW row, CallerOK(r, reply, at, row),
         Grow, ReceiptsOK, now \in Nat, now' \in Nat, now' >= now,
         at \in {"row", "row_commit"} => MutationKey(r) \notin DOMAIN answers',
         at = "row_commit" => receipts'[r.receipt] = receipts[r.receipt],
         at = "policy_commit" => UNCHANGED policies,
         at = "policy_replay" /\ r.key \notin DOMAIN policies' =>
           PolicyRefusal(policies', r) = "invalid"
  PROVE  CallerOK(r, reply, at, row)'
<1>1. at = "answered" /\ reply.status = "ok" /\ r.op # "gate" => Settled(r, reply.value[1])'
  BY SettledKept DEF CallerOK
<1>2. ASSUME at = "row_commit"
      PROVE  /\ r.receipt \in DOMAIN receipts'
             /\ MutationRefusal(receipts'[r.receipt], r, now') = "none"
             /\ row = <<Mutated(receipts'[r.receipt], r)>>
  <2>1. r.receipt \in DOMAIN receipts /\ receipts[r.receipt] \in Row
    BY <1>2 DEF CallerOK, ReceiptsOK
  <2>2. r.receipt \in DOMAIN receipts'
    BY <2>1 DEF Grow
  <2>3. MutationRefusal(receipts[r.receipt], r, now') = "none"
    BY <1>2, <2>1, RefusalKept DEF CallerOK
  <2> QED BY <1>2, <2>2, <2>3 DEF CallerOK
<1>3. at \in {"policy_update", "policy_insert", "policy_commit"} => PreviousRead(r)'
  BY DEF CallerOK, PreviousRead, Grow
<1>4. at = "policy_commit" => PolicyAccepted(r)'
  BY DEF CallerOK, PolicyAccepted, Active
<1>5. at = "gate_reviews" => row = <<row[1]>> /\ row[1] \in DOMAIN policies'
  BY DEF CallerOK, Grow
<1>6. at \in {"row", "row_commit"} => MutationKey(r)' \notin DOMAIN answers'
  BY DEF MutationKey
<1> QED BY <1>1, <1>2, <1>3, <1>4, <1>5, <1>6 DEF CallerOK

----------------------------------------------------------------------------
(* A step of one call.                                                     *)

Moves(c, r, reply, at, row) ==
  /\ call' = [call EXCEPT ![c] = [request |-> r, reply |-> reply]]
  /\ step' = [step EXCEPT ![c] = at]
  /\ copy' = [copy EXCEPT ![c] = row]

\* No other call holds a lock that this one would.
MayHold(c, r, at) ==
  \A d \in Client \ {c} :
    /\ at \in {"row", "row_commit"} /\ HoldsKey(d) => MutationKey(Req(d)) # MutationKey(r)
    /\ at = "row_commit" /\ HoldsRow(d) => Req(d).receipt # r.receipt
    /\ at = "policy_commit" => step[d] # "policy_commit"

\* What other calls rely on is not touched.
Spares(d) ==
  /\ step[d] \in {"row", "row_commit"} => MutationKey(Req(d)) \notin DOMAIN answers'
  /\ step[d] = "row_commit" => receipts'[Req(d).receipt] = receipts[Req(d).receipt]
  /\ step[d] = "policy_commit" => UNCHANGED policies
  /\ step[d] = "policy_replay" /\ Req(d).key \notin DOMAIN policies' =>
       PolicyRefusal(policies', Req(d)) = "invalid"

LEMMA MovesOne ==
  ASSUME CallsOK, NEW c \in Client, NEW r, NEW reply, NEW at \in Step, NEW row,
         Moves(c, r, reply, at, row)
  PROVE  /\ call' = [d \in Client |-> [request |-> call'[d].request, reply |-> call'[d].reply]]
         /\ step' \in [Client -> Step]
         /\ AFunction(copy', Client)
         /\ call'[c].request = r /\ call'[c].reply = reply /\ step'[c] = at /\ copy'[c] = row
         /\ \A d \in Client \ {c} :
              call'[d] = call[d] /\ step'[d] = step[d] /\ copy'[d] = copy[d]
<1>1. PICK new : new = [request |-> r, reply |-> reply]
  OBVIOUS
<1>2. new.request = r /\ new.reply = reply
  BY <1>1
<1>3. AFunction(call, Client) /\ AFunction(copy, Client) /\ step \in [Client -> Step]
  BY DEF CallsOK, AFunction
<1>4. \A d \in Client : call[d] = [request |-> call[d].request, reply |-> call[d].reply]
  BY DEF CallsOK
<1>5. call' = [call EXCEPT ![c] = new]
  BY <1>1 DEF Moves
<1>6. AFunction(call', Client) /\ call'[c] = new /\ \A d \in Client \ {c} : call'[d] = call[d]
  BY <1>3, <1>5 DEF AFunction
<1>7. \A d \in Client : call'[d] = [request |-> call'[d].request, reply |-> call'[d].reply]
  BY <1>1, <1>2, <1>4, <1>6
<1>8. call' = [d \in Client |-> [request |-> call'[d].request, reply |-> call'[d].reply]]
  BY <1>6, <1>7 DEF AFunction
<1>9. AFunction(copy', Client) /\ copy'[c] = row /\ \A d \in Client \ {c} : copy'[d] = copy[d]
  BY <1>3 DEF AFunction, Moves
<1>10. step' \in [Client -> Step] /\ step'[c] = at /\ \A d \in Client \ {c} : step'[d] = step[d]
  BY <1>3 DEF Moves
<1> QED BY <1>2, <1>6, <1>8, <1>9, <1>10

LEMMA StepKeeps ==
  ASSUME StoreInv, now' = now, told' = told \/ ToldOK', Grow,
         ReceiptsOK', ReportsOK', AnswersOK', PoliciesOK',
         NEW c \in Client, NEW r, NEW reply, NEW at \in Step, NEW row,
         Moves(c, r, reply, at, row), MayHold(c, r, at),
         CallerOK(r, reply, at, row)',
         \A d \in Client \ {c} : Spares(d)
  PROVE  StoreInv'
<1>1. /\ call' = [d \in Client |-> [request |-> call'[d].request, reply |-> call'[d].reply]]
      /\ step' \in [Client -> Step]
      /\ AFunction(copy', Client)
      /\ call'[c].request = r /\ call'[c].reply = reply /\ step'[c] = at /\ copy'[c] = row
      /\ \A d \in Client \ {c} :
           call'[d] = call[d] /\ step'[d] = step[d] /\ copy'[d] = copy[d]
  BY MovesOne DEF StoreInv
<1>2. now \in Nat /\ ReceiptsOK
  BY MaxTimeAssumption DEF StoreInv
<1>3. ASSUME NEW d \in Client
      PROVE  CallerOK(call[d].request, call[d].reply, step[d], copy[d])'
  <2>1. CASE d = c
    BY <1>1, <2>1
  <2>2. CASE d # c
    <3>1. PICK q, p, s, w : q = call[d].request /\ p = call[d].reply /\ s = step[d] /\ w = copy[d]
      OBVIOUS
    <3>2. CallerOK(q, p, s, w)
      BY <3>1 DEF StoreInv, CallsOK
    <3>3. /\ s \in {"row", "row_commit"} => MutationKey(q) \notin DOMAIN answers'
          /\ s = "row_commit" => receipts'[q.receipt] = receipts[q.receipt]
          /\ s = "policy_commit" => UNCHANGED policies
          /\ s = "policy_replay" /\ q.key \notin DOMAIN policies' =>
               PolicyRefusal(policies', q) = "invalid"
      BY <2>2, <3>1 DEF Spares, Req
    <3>4. CallerOK(q, p, s, w)'
      BY <1>2, <3>2, <3>3, CallerKept
    <3>5. q = call'[d].request /\ p = call'[d].reply /\ s = step'[d] /\ w = copy'[d]
      BY <1>1, <2>2, <3>1
    <3> QED BY <3>4, <3>5
  <2> QED BY <2>1, <2>2
<1>4. CallsOK'
  BY <1>1, <1>3 DEF CallsOK
<1>5. \A d \in Client \ {c} :
        /\ Req(d)' = Req(d)
        /\ HoldsKey(d)' <=> HoldsKey(d)
        /\ HoldsRow(d)' <=> HoldsRow(d)
        /\ step'[d] = step[d]
  BY <1>1 DEF Req, HoldsKey, HoldsRow
<1>6. Req(c)' = r /\ (HoldsKey(c)' <=> at \in {"row", "row_commit"})
      /\ (HoldsRow(c)' <=> at = "row_commit")
  BY <1>1 DEF Req, HoldsKey, HoldsRow
<1>7. Locks'
  <2> SUFFICES ASSUME NEW d \in Client, NEW e \in Client, d # e
               PROVE  (/\ HoldsKey(d) /\ HoldsKey(e) => MutationKey(Req(d)) # MutationKey(Req(e))
                       /\ HoldsRow(d) /\ HoldsRow(e) => Req(d).receipt # Req(e).receipt
                       /\ ~(step[d] = "policy_commit" /\ step[e] = "policy_commit"))'
    BY DEF Locks
  <2>1. CASE d # c /\ e # c
    BY <1>5, <2>1 DEF StoreInv, Locks, MutationKey
  <2>2. CASE d = c
    <3>1. e \in Client \ {c}
      BY <2>2
    <3> QED BY <1>1, <1>5, <1>6, <2>2, <3>1 DEF MayHold, MutationKey
  <2>3. CASE e = c
    <3>1. d \in Client \ {c}
      BY <2>3
    <3> QED BY <1>1, <1>5, <1>6, <2>3, <3>1 DEF MayHold, MutationKey
  <2> QED BY <2>1, <2>2, <2>3
<1>8. ToldOK'
  BY ToldKept DEF StoreInv
<1>9. now' \in 0..MaxTime
  BY DEF StoreInv
<1> QED BY <1>4, <1>7, <1>8, <1>9 DEF StoreInv

LEMMA QuietKeeps ==
  ASSUME StoreInv, now' = now, told' = told \/ ToldOK', UNCHANGED tables,
         NEW c \in Client, NEW r, NEW reply, NEW at \in Step, NEW row,
         Moves(c, r, reply, at, row), MayHold(c, r, at),
         CallerOK(r, reply, at, row)
  PROVE  StoreInv'
<1>1. /\ receipts' = receipts /\ answers' = answers /\ policies' = policies
      /\ reports' = reports /\ Grow
  BY StillGrow DEF tables
<1>2. ReceiptsOK' /\ ReportsOK' /\ AnswersOK'
  BY <1>1 DEF StoreInv, ReceiptsOK, ReportsOK, AnswersOK, MutationKey, Covers
<1>3. PoliciesOK'
  BY <1>1 DEF StoreInv, PoliciesOK, PolicyRow, Active
<1>4. now \in Nat /\ ReceiptsOK
  BY MaxTimeAssumption DEF StoreInv
<1>5. CallerOK(r, reply, at, row)'
  <2>1. /\ at \in {"row", "row_commit"} => MutationKey(r) \notin DOMAIN answers'
        /\ at = "policy_replay" /\ r.key \notin DOMAIN policies' =>
             PolicyRefusal(policies', r) = "invalid"
    BY <1>1 DEF CallerOK
  <2>2. at = "row_commit" => receipts'[r.receipt] = receipts[r.receipt]
    BY <1>1
  <2> QED BY <1>1, <1>4, <2>1, <2>2, CallerKept
<1>6. ASSUME NEW d \in Client \ {c}
      PROVE  Spares(d)
  <2>1. CallerOK(Req(d), call[d].reply, step[d], copy[d])
    BY DEF StoreInv, CallsOK, Req
  <2> QED BY <1>1, <2>1 DEF Spares, CallerOK
<1> QED BY <1>1, <1>2, <1>3, <1>5, <1>6, StepKeeps

\* What a call is about, from the step it is at.
LEMMA AtStep ==
  ASSUME StoreInv, NEW c \in Client
  PROVE  /\ CallerOK(Req(c), call[c].reply, step[c], copy[c])
         /\ step[c] \in Step
         /\ step[c] # "idle" => Req(c) \in Request
         /\ step[c] \in ReceiptSteps => Req(c).op = "record" /\ call[c].reply = NoReply
         /\ step[c] \in ReportSteps => Req(c).op = "reconcile" /\ call[c].reply = NoReply
         /\ step[c] \in MutationSteps => Req(c).op \in {"retain", "erase"} /\ call[c].reply = NoReply
         /\ step[c] \in PolicySteps => Req(c).op = "policy" /\ call[c].reply = NoReply
         /\ step[c] \in GateSteps => Req(c).op = "gate" /\ call[c].reply = NoReply
         /\ step[c] \notin {"row_commit", "gate_reviews"} => copy[c] = NoCopy
<1>1. CallerOK(Req(c), call[c].reply, step[c], copy[c]) /\ step[c] \in Step
  BY DEF StoreInv, CallsOK, Req
<1>2. step[c] # "idle" =>
        /\ Req(c) \in Request
        /\ Req(c).op \in {"record", "reconcile", "retain", "erase", "policy", "gate"}
  BY <1>1, RequestAssumption DEF CallerOK
<1>3. step[c] \notin {"idle", "answered"} =>
        step[c] \in StepOf(Req(c).op) /\ call[c].reply = NoReply
  BY <1>1 DEF CallerOK
<1>4. PICK op, s : op = Req(c).op /\ s = step[c]
  OBVIOUS
<1>5. ASSUME s \notin {"idle", "answered"}
      PROVE  /\ s \in ReceiptSteps => op = "record"
             /\ s \in ReportSteps => op = "reconcile"
             /\ s \in MutationSteps => op \in {"retain", "erase"}
             /\ s \in PolicySteps => op = "policy"
             /\ s \in GateSteps => op = "gate"
  <2>1. s \in StepOf(op) /\ op \in {"record", "reconcile", "retain", "erase", "policy", "gate"}
    BY <1>2, <1>3, <1>4, <1>5
  <2>2. CASE op = "record"
    BY <2>1, <2>2 DEF StepOf, ReceiptSteps, ReportSteps, MutationSteps, PolicySteps, GateSteps
  <2>3. CASE op = "reconcile"
    BY <2>1, <2>3 DEF StepOf, ReceiptSteps, ReportSteps, MutationSteps, PolicySteps, GateSteps
  <2>4. CASE op \in {"retain", "erase"}
    BY <2>1, <2>4 DEF StepOf, ReceiptSteps, ReportSteps, MutationSteps, PolicySteps, GateSteps
  <2>5. CASE op = "policy"
    BY <2>1, <2>5 DEF StepOf, ReceiptSteps, ReportSteps, MutationSteps, PolicySteps, GateSteps
  <2>6. CASE op = "gate"
    BY <2>1, <2>6 DEF StepOf, ReceiptSteps, ReportSteps, MutationSteps, PolicySteps, GateSteps
  <2> QED BY <2>1, <2>2, <2>3, <2>4, <2>5, <2>6
<1>6. s \in ReceiptSteps \cup ReportSteps \cup MutationSteps \cup PolicySteps \cup GateSteps
        => s \notin {"idle", "answered"}
  BY DEF ReceiptSteps, ReportSteps, MutationSteps, PolicySteps, GateSteps
<1>7. step[c] \notin {"row_commit", "gate_reviews"} => copy[c] = NoCopy
  BY <1>1 DEF CallerOK
<1> QED BY <1>1, <1>2, <1>3, <1>4, <1>5, <1>6, <1>7

LEMMA GoMoves ==
  ASSUME CallsOK, NEW c \in Client, NEW s, Go(c, s)
  PROVE  Moves(c, Req(c), call[c].reply, s, copy[c])
<1>1. AFunction(call, Client) /\ AFunction(copy, Client)
      /\ call[c] = [request |-> call[c].request, reply |-> call[c].reply]
  BY DEF CallsOK, AFunction
<1>2. call' = [call EXCEPT ![c] = call[c]] /\ copy' = [copy EXCEPT ![c] = copy[c]]
  BY <1>1 DEF Go, AFunction
<1> QED BY <1>1, <1>2 DEF Moves, Go, Req

LEMMA AnswerMoves ==
  ASSUME CallsOK, NEW c \in Client, NEW reply, Answer(c, reply)
  PROVE  Moves(c, Req(c), reply, "answered", NoCopy)
<1>1. call[c] = [request |-> call[c].request, reply |-> call[c].reply]
  BY DEF CallsOK
<1>2. [call[c] EXCEPT !.reply = reply] = [request |-> call[c].request, reply |-> reply]
  BY <1>1
<1>3. call' = [call EXCEPT ![c] = [call[c] EXCEPT !.reply = reply]]
  BY DEF Answer
<1> QED BY <1>2, <1>3 DEF Moves, Answer, Req

\* A call that goes to its next statement.
LEMMA GoKeeps ==
  ASSUME StoreInv, now' = now, told' = told, UNCHANGED tables,
         NEW c \in Client, step[c] \notin {"idle", "answered", "row_commit", "gate_reviews"},
         NEW s \in StepOf(Req(c).op) \ {"idle", "answered", "row_commit", "gate_reviews"},
         s \in Step, Go(c, s), MayHold(c, Req(c), s),
         s = "row" => MutationKey(Req(c)) \notin DOMAIN answers,
         s \in {"policy_update", "policy_insert", "policy_commit"} => PreviousRead(Req(c)),
         s = "policy_commit" => PolicyAccepted(Req(c)),
         s = "policy_replay" /\ Req(c).key \notin DOMAIN policies =>
           PolicyRefusal(policies, Req(c)) = "invalid"
  PROVE  StoreInv'
<1>1. PICK r, reply, row : r = Req(c) /\ reply = call[c].reply /\ row = copy[c]
  OBVIOUS
<1>2. Moves(c, r, reply, s, row)
  BY <1>1, GoMoves DEF StoreInv
<1>3. CallerOK(r, reply, step[c], row) /\ reply = NoReply /\ row = NoCopy
  BY <1>1, AtStep DEF CallerOK
<1>4. CallerOK(r, reply, s, row)
  BY <1>1, <1>3 DEF CallerOK
<1>5. MayHold(c, r, s)
  BY <1>1
<1> QED BY <1>2, <1>4, <1>5, QuietKeeps

\* A call that is answered.
LEMMA AnswerKeeps ==
  ASSUME StoreInv, now' = now, told' = told, UNCHANGED tables,
         NEW c \in Client, step[c] # "idle",
         NEW reply, Answer(c, reply), reply.status # "none",
         reply.status = "ok" /\ Req(c).op # "gate" => Settled(Req(c), reply.value[1])
  PROVE  StoreInv'
<1>1. PICK r : r = Req(c)
  OBVIOUS
<1>2. Moves(c, r, reply, "answered", NoCopy)
  BY <1>1, AnswerMoves DEF StoreInv
<1>3. CallerOK(r, call[c].reply, step[c], copy[c])
  BY <1>1, AtStep
<1>4. CallerOK(r, reply, "answered", NoCopy)
  BY <1>1, <1>3 DEF CallerOK
<1>5. MayHold(c, r, "answered") /\ "answered" \in Step
  BY DEF MayHold, Step
<1> QED BY <1>2, <1>4, <1>5, QuietKeeps

\* A refusal promises nothing.
LEMMA RefusalKeeps ==
  ASSUME StoreInv, now' = now, told' = told, UNCHANGED tables,
         NEW c \in Client, step[c] # "idle",
         NEW why, why \notin {"ok", "none"}, Answer(c, Refused(why))
  PROVE  StoreInv'
<1>1. PICK reply : reply = Refused(why)
  OBVIOUS
<1>2. reply.status = why
  BY <1>1 DEF Refused
<1> QED BY <1>1, <1>2, AnswerKeeps

----------------------------------------------------------------------------
(* RecordReceipt and RecordReconciliation.                                 *)

LEMMA DoneFields ==
  ASSUME NEW value
  PROVE  Done(value).status = "ok" /\ Done(value).value[1] = value
BY DEF Done

LEMMA PutFacts ==
  ASSUME NEW f, NEW k, NEW v
  PROVE  /\ DOMAIN Put(f, k, v) = DOMAIN f \cup {k}
         /\ AFunction(Put(f, k, v), DOMAIN f \cup {k})
         /\ Put(f, k, v)[k] = v
         /\ \A x \in DOMAIN f \ {k} : Put(f, k, v)[x] = f[x]
BY DEF Put, AFunction

\* A key that is found answers for the payload it was stored with.
LEMMA ReceiptReplayed ==
  ASSUME StoreInv, now' = now, told' = told, UNCHANGED tables,
         NEW c \in Client, step[c] # "idle", Req(c) \in Request, Req(c).op = "record",
         NEW i \in ByKey(Req(c).key), Answer(c, Replayed(receipts[i], Req(c).payload, i))
  PROVE  StoreInv'
<1>1. CASE receipts[i].payload = Req(c).payload
  <2>1. Answer(c, Done(i))
    BY <1>1 DEF Replayed
  <2>2. Settled(Req(c), i)
    BY <1>1 DEF Settled, ByKey
  <2> QED BY <2>1, <2>2, DoneFields, AnswerKeeps
<1>2. CASE receipts[i].payload # Req(c).payload
  BY <1>2, RefusalKeeps DEF Replayed
<1> QED BY <1>1, <1>2

LEMMA ReportReplayed ==
  ASSUME StoreInv, now' = now, told' = told, UNCHANGED tables,
         NEW c \in Client, step[c] # "idle", Req(c) \in Request, Req(c).op = "reconcile",
         NEW i \in ReportsBy(Req(c).key), Answer(c, Replayed(reports[i], Req(c).payload, i))
  PROVE  StoreInv'
<1>1. CASE reports[i].payload = Req(c).payload
  <2>1. Answer(c, Done(i))
    BY <1>1 DEF Replayed
  <2>2. i = Req(c).id
    BY <1>1, RequestAssumption DEF StoreInv, ReportsOK, ReportsBy
  <2>3. Settled(Req(c), i)
    BY <1>1, <2>2 DEF Settled, ReportsBy
  <2> QED BY <2>1, <2>3, DoneFields, AnswerKeeps
<1>2. CASE reports[i].payload # Req(c).payload
  BY <1>2, RefusalKeeps DEF Replayed
<1> QED BY <1>1, <1>2

LEMMA ReceiptLookupStep ==
  ASSUME StoreInv, NEW c \in Client, ReceiptLookup(c)
  PROVE  StoreInv'
<1>1. /\ step[c] = "receipt_lookup" /\ now' = now /\ told' = told /\ UNCHANGED tables
      /\ \/ \E i \in ByKey(Req(c).key) : Answer(c, Replayed(receipts[i], Req(c).payload, i))
         \/ Go(c, "receipt_insert")
  BY DEF ReceiptLookup
<1>2. Req(c) \in Request /\ Req(c).op = "record"
  BY <1>1, AtStep DEF ReceiptSteps
<1>3. CASE Go(c, "receipt_insert")
  <2>1. "receipt_insert" \in StepOf(Req(c).op) /\ "receipt_insert" \in Step
        /\ MayHold(c, Req(c), "receipt_insert")
    BY <1>2 DEF StepOf, ReceiptSteps, Step, MayHold
  <2> QED BY <1>1, <1>3, <2>1, GoKeeps
<1> QED BY <1>1, <1>2, <1>3, ReceiptReplayed

LEMMA ReceiptReplayStep ==
  ASSUME StoreInv, NEW c \in Client, ReceiptReplay(c)
  PROVE  StoreInv'
<1>1. /\ step[c] = "receipt_replay" /\ now' = now /\ told' = told /\ UNCHANGED tables
      /\ \/ \E i \in ByKey(Req(c).key) : Answer(c, Replayed(receipts[i], Req(c).payload, i))
         \/ Answer(c, Refused("failed"))
  BY DEF ReceiptReplay, Failed
<1>2. Req(c) \in Request /\ Req(c).op = "record"
  BY <1>1, AtStep DEF ReceiptSteps
<1> QED BY <1>1, <1>2, ReceiptReplayed, RefusalKeeps

\* The tables a step does not write to.
LEMMA ReceiptsKept ==
  ASSUME ReceiptsOK, UNCHANGED receipts
  PROVE  ReceiptsOK'
BY DEF ReceiptsOK

LEMMA ReportsKept ==
  ASSUME ReportsOK, UNCHANGED reports
  PROVE  ReportsOK'
BY DEF ReportsOK

LEMMA PoliciesKept ==
  ASSUME PoliciesOK, UNCHANGED policies
  PROVE  PoliciesOK'
BY DEF PoliciesOK, PolicyRow, Active

\* A row is only replaced by one that protects at least as much.
LEMMA AnswersKept ==
  ASSUME AnswersOK, ReceiptsOK, ReceiptsOK', UNCHANGED answers,
         \A i \in DOMAIN receipts :
           i \in DOMAIN receipts' /\ Covers(receipts'[i], RetentionOf(receipts[i]))
  PROVE  AnswersOK'
<1> SUFFICES ASSUME NEW k \in DOMAIN answers
             PROVE  LET r == answers[k].request
                        value == answers[k].result
                    IN /\ r \in Request /\ r.op \in {"retain", "erase"} /\ MutationKey(r) = k
                       /\ r.receipt \in DOMAIN receipts'
                       /\ value \in Retention
                       /\ Covers(receipts'[r.receipt], value)
  BY DEF AnswersOK, MutationKey, Covers
<1>1. PICK r, value : r = answers[k].request /\ value = answers[k].result
  OBVIOUS
<1>2. /\ r \in Request /\ r.op \in {"retain", "erase"} /\ MutationKey(r) = k
      /\ r.receipt \in DOMAIN receipts
      /\ value \in Retention
      /\ Covers(receipts[r.receipt], value)
  BY <1>1 DEF AnswersOK
<1>3. PICK row, new : row = receipts[r.receipt] /\ new = receipts'[r.receipt]
  OBVIOUS
<1>4. row \in Row /\ new \in Row /\ r.receipt \in DOMAIN receipts' /\ Covers(new, RetentionOf(row))
  BY <1>2, <1>3 DEF ReceiptsOK
<1>5. /\ row.until \in Nat /\ new.until \in Nat /\ value.until \in Nat
      /\ row.hold \in BOOLEAN /\ row.erased \in BOOLEAN
  BY <1>2, <1>4 DEF Row, Retention
<1>6. Covers(new, value)
  BY <1>2, <1>3, <1>4, <1>5 DEF Covers, RetentionOf
<1> QED BY <1>1, <1>2, <1>3, <1>4, <1>6

LEMMA ReceiptInsertStep ==
  ASSUME StoreInv, NEW c \in Client, ReceiptInsert(c)
  PROVE  StoreInv'
<1>1. /\ step[c] = "receipt_insert" /\ now' = now /\ told' = told
      /\ UNCHANGED <<answers, policies, reports>>
  BY DEF ReceiptInsert
<1>2. /\ Req(c) \in Request /\ Req(c).op = "record" /\ call[c].reply = NoReply
      /\ CallerOK(Req(c), call[c].reply, step[c], copy[c])
  BY <1>1, AtStep DEF ReceiptSteps
<1>3. ASSUME Go(c, "receipt_replay"), UNCHANGED receipts
      PROVE  StoreInv'
  <2>1. "receipt_replay" \in StepOf(Req(c).op) /\ "receipt_replay" \in Step
        /\ MayHold(c, Req(c), "receipt_replay")
    BY <1>2 DEF StepOf, ReceiptSteps, Step, MayHold
  <2>2. UNCHANGED tables
    BY <1>1, <1>3 DEF tables
  <2> QED BY <1>1, <1>3, <2>1, <2>2, GoKeeps
<1>4. ASSUME NEW i \in Id, ReceiptAccepted(i, Req(c)),
             receipts' = Put(receipts, i, NewReceipt(Req(c))), Answer(c, Done(i))
      PROVE  StoreInv'
  <2>1. PICK r : r = Req(c)
    OBVIOUS
  <2>2. PICK row : row = NewReceipt(r)
    OBVIOUS
  <2>3. row = [key |-> r.key, payload |-> r.payload, until |-> 0, hold |-> FALSE, erased |-> FALSE]
    BY <2>2 DEF NewReceipt, Unset
  <2>4. r.key \in Keys /\ r.payload \in Payloads
    BY <1>2, <2>1 DEF Keys, Payloads, RecordRequest
  <2>5. row \in Row /\ row.key = r.key /\ row.payload = r.payload
    BY <2>3, <2>4 DEF Row
  <2>6. /\ i \notin DOMAIN receipts
        /\ \A j \in DOMAIN receipts : receipts[j].key # r.key
    BY <1>4, <2>1 DEF ReceiptAccepted, ByKey
  <2>7. /\ DOMAIN receipts' = DOMAIN receipts \cup {i}
        /\ AFunction(receipts', DOMAIN receipts')
        /\ receipts'[i] = row
        /\ \A j \in DOMAIN receipts : receipts'[j] = receipts[j]
    <3>1. receipts' = Put(receipts, i, row)
      BY <1>4, <2>1, <2>2
    <3>2. /\ DOMAIN receipts' = DOMAIN receipts \cup {i}
          /\ AFunction(receipts', DOMAIN receipts \cup {i})
          /\ receipts'[i] = row
          /\ \A j \in DOMAIN receipts \ {i} : receipts'[j] = receipts[j]
      BY <3>1, PutFacts
    <3> QED BY <2>6, <3>2
  <2>8. Grow
    BY <1>1, <2>7 DEF Grow
  <2>9. ReceiptsOK'
    BY <2>5, <2>6, <2>7 DEF StoreInv, ReceiptsOK
  <2>10. AnswersOK'
    <3>1. \A j \in DOMAIN receipts : Covers(receipts[j], RetentionOf(receipts[j]))
      BY DEF StoreInv, ReceiptsOK, Row, Covers, RetentionOf
    <3>2. \A j \in DOMAIN receipts :
            j \in DOMAIN receipts' /\ Covers(receipts'[j], RetentionOf(receipts[j]))
      BY <2>7, <3>1
    <3> QED BY <1>1, <2>9, <3>2, AnswersKept DEF StoreInv
  <2>11. ReportsOK' /\ PoliciesOK'
    BY <1>1, ReportsKept, PoliciesKept DEF StoreInv
  <2>12. Moves(c, r, Done(i), "answered", NoCopy)
    BY <1>4, <2>1, AnswerMoves DEF StoreInv
  <2>13. Settled(r, i)'
    BY <1>2, <2>1, <2>5, <2>7 DEF Settled
  <2>14. CallerOK(r, Done(i), "answered", NoCopy)'
    BY <1>2, <2>1, <2>13, DoneFields DEF CallerOK
  <2>15. MayHold(c, r, "answered") /\ "answered" \in Step
    BY DEF MayHold, Step
  <2>16. ASSUME NEW d \in Client \ {c}
         PROVE  Spares(d)
    <3>1. CallerOK(Req(d), call[d].reply, step[d], copy[d])
      BY AtStep
    <3> QED BY <1>1, <2>7, <3>1 DEF Spares, CallerOK
  <2> QED BY <1>1, <2>8, <2>9, <2>10, <2>11, <2>12, <2>14, <2>15, <2>16, StepKeeps
<1> QED BY <1>3, <1>4 DEF ReceiptInsert

LEMMA ReportLookupStep ==
  ASSUME StoreInv, NEW c \in Client, ReportLookup(c)
  PROVE  StoreInv'
<1>1. /\ step[c] = "report_lookup" /\ now' = now /\ told' = told /\ UNCHANGED tables
      /\ \/ \E i \in ReportsBy(Req(c).key) : Answer(c, Replayed(reports[i], Req(c).payload, i))
         \/ Go(c, "report_insert")
  BY DEF ReportLookup
<1>2. Req(c) \in Request /\ Req(c).op = "reconcile"
  BY <1>1, AtStep DEF ReportSteps
<1>3. CASE Go(c, "report_insert")
  <2>1. "report_insert" \in StepOf(Req(c).op) /\ "report_insert" \in Step
        /\ MayHold(c, Req(c), "report_insert")
    BY <1>2 DEF StepOf, ReportSteps, Step, MayHold
  <2> QED BY <1>1, <1>3, <2>1, GoKeeps
<1> QED BY <1>1, <1>2, <1>3, ReportReplayed

LEMMA ReportReplayStep ==
  ASSUME StoreInv, NEW c \in Client, ReportReplay(c)
  PROVE  StoreInv'
<1>1. /\ step[c] = "report_replay" /\ now' = now /\ told' = told /\ UNCHANGED tables
      /\ \/ \E i \in ReportsBy(Req(c).key) : Answer(c, Replayed(reports[i], Req(c).payload, i))
         \/ Answer(c, Refused("failed"))
  BY DEF ReportReplay, Failed
<1>2. Req(c) \in Request /\ Req(c).op = "reconcile"
  BY <1>1, AtStep DEF ReportSteps
<1> QED BY <1>1, <1>2, ReportReplayed, RefusalKeeps

LEMMA ReportInsertStep ==
  ASSUME StoreInv, NEW c \in Client, ReportInsert(c)
  PROVE  StoreInv'
<1>1. /\ step[c] = "report_insert" /\ now' = now /\ told' = told
      /\ UNCHANGED <<receipts, answers, policies>>
  BY DEF ReportInsert
<1>2. /\ Req(c) \in Request /\ Req(c).op = "reconcile" /\ call[c].reply = NoReply
      /\ CallerOK(Req(c), call[c].reply, step[c], copy[c])
  BY <1>1, AtStep DEF ReportSteps
<1>3. ASSUME Go(c, "report_replay"), UNCHANGED reports
      PROVE  StoreInv'
  <2>1. "report_replay" \in StepOf(Req(c).op) /\ "report_replay" \in Step
        /\ MayHold(c, Req(c), "report_replay")
    BY <1>2 DEF StepOf, ReportSteps, Step, MayHold
  <2>2. UNCHANGED tables
    BY <1>1, <1>3 DEF tables
  <2> QED BY <1>1, <1>3, <2>1, <2>2, GoKeeps
<1>4. ASSUME ReportAccepted(Req(c)),
             reports' = Put(reports, Req(c).id, [key |-> Req(c).key, payload |-> Req(c).payload]),
             Answer(c, Done(Req(c).id))
      PROVE  StoreInv'
  <2>1. PICK r, i : r = Req(c) /\ i = Req(c).id
    OBVIOUS
  <2>2. PICK row : row = [key |-> r.key, payload |-> r.payload]
    OBVIOUS
  <2>3. row.key = r.key /\ row.payload = r.payload
    BY <2>2
  <2>4. /\ i \notin DOMAIN reports
        /\ \A j \in DOMAIN reports : reports[j].key # r.key
    BY <1>4, <2>1 DEF ReportAccepted, ReportsBy
  <2>5. /\ DOMAIN reports' = DOMAIN reports \cup {i}
        /\ reports'[i] = row
        /\ \A j \in DOMAIN reports : reports'[j] = reports[j]
    <3>1. reports' = Put(reports, i, row)
      BY <1>4, <2>1, <2>2
    <3>2. /\ DOMAIN reports' = DOMAIN reports \cup {i}
          /\ AFunction(reports', DOMAIN reports \cup {i})
          /\ reports'[i] = row
          /\ \A j \in DOMAIN reports \ {i} : reports'[j] = reports[j]
      BY <3>1, PutFacts
    <3> QED BY <2>4, <3>2
  <2>6. Grow
    BY <1>1, <2>5 DEF Grow
  <2>7. ReportsOK'
    <3>1. \A j, k \in DOMAIN reports' : reports'[j].key = reports'[k].key => j = k
      BY <2>3, <2>4, <2>5 DEF StoreInv, ReportsOK
    <3>2. ASSUME NEW j \in DOMAIN reports'
          PROVE  \E q \in Request :
                   q.op = "reconcile" /\ q.id = j /\ q.payload = reports'[j].payload
      <4>1. CASE j = i
        BY <1>2, <2>1, <2>3, <2>5, <4>1
      <4>2. CASE j # i
        BY <2>5, <4>2 DEF StoreInv, ReportsOK
      <4> QED BY <4>1, <4>2
    <3> QED BY <3>1, <3>2 DEF ReportsOK
  <2>8. ReceiptsOK' /\ PoliciesOK'
    BY <1>1, ReceiptsKept, PoliciesKept DEF StoreInv
  <2>9. AnswersOK'
    BY <1>1 DEF StoreInv, AnswersOK, MutationKey, Covers
  <2>10. Moves(c, r, Done(i), "answered", NoCopy)
    BY <1>4, <2>1, AnswerMoves DEF StoreInv
  <2>11. Settled(r, i)'
    BY <1>2, <2>1, <2>3, <2>5 DEF Settled
  <2>12. CallerOK(r, Done(i), "answered", NoCopy)'
    BY <1>2, <2>1, <2>11, DoneFields DEF CallerOK
  <2>13. MayHold(c, r, "answered") /\ "answered" \in Step
    BY DEF MayHold, Step
  <2>14. ASSUME NEW d \in Client \ {c}
         PROVE  Spares(d)
    <3>1. CallerOK(Req(d), call[d].reply, step[d], copy[d])
      BY AtStep
    <3> QED BY <1>1, <3>1 DEF Spares, CallerOK
  <2> QED BY <1>1, <2>6, <2>7, <2>8, <2>9, <2>10, <2>12, <2>13, <2>14, StepKeeps
<1> QED BY <1>3, <1>4 DEF ReportInsert

----------------------------------------------------------------------------
(* mutateReceipt.                                                          *)

LEMMA KeyLockStep ==
  ASSUME StoreInv, NEW c \in Client, KeyLock(c)
  PROVE  StoreInv'
<1>1. /\ step[c] = "key_lock" /\ now' = now /\ told' = told /\ UNCHANGED tables /\ KeyFree(c)
      /\ \/ /\ MutationKey(Req(c)) \in DOMAIN answers
            /\ Answer(c, IF answers[MutationKey(Req(c))].request = Req(c)
                         THEN Done(answers[MutationKey(Req(c))].result)
                         ELSE Refused("conflict"))
         \/ MutationKey(Req(c)) \notin DOMAIN answers /\ Go(c, "row")
  BY DEF KeyLock
<1>2. Req(c) \in Request /\ Req(c).op \in {"retain", "erase"}
  BY <1>1, AtStep DEF MutationSteps
<1>3. PICK k, r : k = MutationKey(r) /\ r = Req(c)
  OBVIOUS
<1>4. ASSUME k \in DOMAIN answers, answers[k].request = r, Answer(c, Done(answers[k].result))
      PROVE  StoreInv'
  <2>1. PICK value : value = answers[k].result
    OBVIOUS
  <2>2. Settled(Req(c), value)
    BY <1>2, <1>3, <1>4, <2>1 DEF Settled
  <2> QED BY <1>1, <1>4, <2>1, <2>2, DoneFields, AnswerKeeps
<1>5. ASSUME Answer(c, Refused("conflict"))
      PROVE  StoreInv'
  BY <1>1, <1>5, RefusalKeeps
<1>6. ASSUME k \notin DOMAIN answers, Go(c, "row")
      PROVE  StoreInv'
  <2>1. "row" \in StepOf(Req(c).op) /\ "row" \in Step
    BY <1>2 DEF StepOf, MutationSteps, Step
  <2>2. MayHold(c, Req(c), "row")
    BY <1>1 DEF MayHold, KeyFree
  <2> QED BY <1>1, <1>3, <1>6, <2>1, <2>2, GoKeeps
<1> QED BY <1>1, <1>3, <1>4, <1>5, <1>6

LEMMA RefusalWords ==
  ASSUME NEW row, NEW r, NEW t
  PROVE  MutationRefusal(row, r, t) \in {"none", "shortening", "legal_hold", "retention_active"}
BY DEF MutationRefusal, EraseRefusal

LEMMA RowForUpdateStep ==
  ASSUME StoreInv, NEW c \in Client, RowForUpdate(c)
  PROVE  StoreInv'
<1>1. PICK r, i, refusal : r = Req(c) /\ i = r.receipt /\ refusal = MutationRefusal(receipts[i], r, now)
  OBVIOUS
<1>2. /\ step[c] = "row" /\ now' = now /\ told' = told /\ UNCHANGED tables /\ RowFree(c)
      /\ \/ Answer(c, Refused("not_found"))
         \/ refusal # "none" /\ Answer(c, Refused(refusal))
         \/ /\ i \in DOMAIN receipts /\ refusal = "none"
            /\ copy' = [copy EXCEPT ![c] = <<Mutated(receipts[i], r)>>]
            /\ step' = [step EXCEPT ![c] = "row_commit"]
            /\ UNCHANGED call
  BY <1>1 DEF RowForUpdate
<1>3. /\ r \in Request /\ r.op \in {"retain", "erase"} /\ call[c].reply = NoReply
      /\ CallerOK(r, NoReply, "row", copy[c])
  BY <1>1, <1>2, AtStep DEF MutationSteps
<1>4. ASSUME refusal # "none", Answer(c, Refused(refusal))
      PROVE  StoreInv'
  BY <1>1, <1>2, <1>4, RefusalWords, RefusalKeeps
<1>5. ASSUME i \in DOMAIN receipts, refusal = "none",
             copy' = [copy EXCEPT ![c] = <<Mutated(receipts[i], r)>>],
             step' = [step EXCEPT ![c] = "row_commit"],
             UNCHANGED call
      PROVE  StoreInv'
  <2>1. PICK row : row = <<Mutated(receipts[i], r)>>
    OBVIOUS
  <2>2. call' = [call EXCEPT ![c] = [request |-> r, reply |-> NoReply]]
    BY <1>1, <1>3, <1>5 DEF StoreInv, CallsOK, Req
  <2>3. Moves(c, r, NoReply, "row_commit", row)
    BY <1>5, <2>1, <2>2 DEF Moves
  <2>4. "row_commit" \in Step
    BY DEF Step, MutationSteps
  <2>5. MayHold(c, r, "row_commit")
    <3> SUFFICES ASSUME NEW d \in Client \ {c}
                 PROVE  /\ HoldsKey(d) => MutationKey(Req(d)) # MutationKey(r)
                        /\ HoldsRow(d) => Req(d).receipt # r.receipt
      BY DEF MayHold
    <3>1. HoldsKey(c)
      BY <1>2 DEF HoldsKey
    <3>2. HoldsKey(d) => MutationKey(Req(d)) # MutationKey(r)
      BY <1>1, <3>1 DEF StoreInv, Locks
    <3> QED BY <1>1, <1>2, <3>2 DEF RowFree
  <2>6. CallerOK(r, NoReply, "row_commit", row)
    <3>1. "row_commit" \in StepOf(r.op)
      BY <1>3 DEF StepOf, MutationSteps
    <3> QED BY <1>1, <1>3, <1>5, <2>1, <3>1 DEF CallerOK
  <2> QED BY <1>2, <2>3, <2>4, <2>5, <2>6, QuietKeeps
<1> QED BY <1>2, <1>4, <1>5, RefusalKeeps

\* A mutation keeps the evidence and never protects it less.
LEMMA MutatedRow ==
  ASSUME NEW row \in Row, NEW r \in Request, r.op \in {"retain", "erase"}
  PROVE  /\ Mutated(row, r) \in Row
         /\ Mutated(row, r).key = row.key /\ Mutated(row, r).payload = row.payload
         /\ Covers(Mutated(row, r), RetentionOf(row))
         /\ Mutated(row, r).erased /\ ~row.erased => r.op = "erase"
<1>1. row.until \in Nat /\ row.hold \in BOOLEAN /\ row.erased \in BOOLEAN
      /\ row.key \in Keys /\ row.payload \in Payloads
  BY DEF Row
<1>2. CASE r.op = "retain"
  <2>1. r.until \in Nat /\ r.hold \in BOOLEAN
    BY <1>2, RequestAssumption
  <2>2. PICK until, hold : until = Larger(row.until, r.until) /\ hold = (row.hold \/ r.hold)
    OBVIOUS
  <2>3. until \in Nat /\ until >= row.until
    BY <1>1, <2>1, <2>2 DEF Larger
  <2>4. hold \in BOOLEAN /\ (row.hold => hold)
    BY <2>2
  <2>5. Mutated(row, r) = [row EXCEPT !.until = until, !.hold = hold]
    BY <1>2, <2>2 DEF Mutated, Retained
  <2>6. Mutated(row, r) = [key |-> row.key, payload |-> row.payload, until |-> until,
                           hold |-> hold, erased |-> row.erased]
    BY <2>5 DEF Row
  <2>7. PICK new : new = Mutated(row, r)
    OBVIOUS
  <2>8. new \in Row /\ new.key = row.key /\ new.payload = row.payload
        /\ new.until = until /\ new.hold = hold /\ new.erased = row.erased
    BY <1>1, <2>3, <2>4, <2>6, <2>7 DEF Row
  <2>9. Covers(new, RetentionOf(row))
    BY <2>3, <2>4, <2>8 DEF Covers, RetentionOf
  <2> QED BY <2>7, <2>8, <2>9
<1>3. CASE r.op = "erase"
  <2>1. Mutated(row, r) = [key |-> row.key, payload |-> row.payload, until |-> row.until,
                           hold |-> row.hold, erased |-> TRUE]
    BY <1>3 DEF Mutated, Row
  <2>2. PICK new : new = Mutated(row, r)
    OBVIOUS
  <2>3. new \in Row /\ new.key = row.key /\ new.payload = row.payload
        /\ new.until = row.until /\ new.hold = row.hold /\ new.erased = TRUE
    BY <1>1, <2>1, <2>2 DEF Row
  <2>4. Covers(new, RetentionOf(row))
    BY <1>1, <2>3 DEF Covers, RetentionOf
  <2> QED BY <1>3, <2>2, <2>3, <2>4
<1> QED BY <1>2, <1>3

LEMMA RowCommitStep ==
  ASSUME StoreInv, NEW c \in Client, RowCommit(c)
  PROVE  StoreInv'
<1>1. PICK r, i, k : r = Req(c) /\ i = r.receipt /\ k = MutationKey(r)
  OBVIOUS
<1>2. PICK old, row, value : old = receipts[i] /\ row = copy[c][1] /\ value = RetentionOf(row)
  OBVIOUS
<1>3. /\ step[c] = "row_commit" /\ now' = now /\ told' = told
      /\ UNCHANGED <<policies, reports>>
      /\ receipts' = [receipts EXCEPT ![i] = row]
      /\ answers' = Put(answers, k, [request |-> r, result |-> value])
      /\ Answer(c, Done(value))
  BY <1>1, <1>2 DEF RowCommit
<1>4. /\ r \in Request /\ r.op \in {"retain", "erase"} /\ call[c].reply = NoReply
      /\ CallerOK(r, NoReply, "row_commit", copy[c])
  BY <1>1, <1>3, AtStep DEF MutationSteps
<1>5. /\ i \in DOMAIN receipts /\ k \notin DOMAIN answers
      /\ copy[c] = <<Mutated(old, r)>>
  BY <1>1, <1>2, <1>4 DEF CallerOK
<1>6. row = Mutated(old, r) /\ old \in Row
  BY <1>2, <1>5 DEF StoreInv, ReceiptsOK
<1>7. /\ row \in Row
      /\ row.key = old.key /\ row.payload = old.payload
      /\ Covers(row, RetentionOf(old))
  BY <1>4, <1>6, MutatedRow
<1>8. /\ DOMAIN receipts' = DOMAIN receipts
      /\ AFunction(receipts', DOMAIN receipts')
      /\ receipts'[i] = row
      /\ \A j \in DOMAIN receipts \ {i} : receipts'[j] = receipts[j]
  BY <1>3, <1>5 DEF StoreInv, ReceiptsOK, AFunction
<1>9. PICK answer : answer = [request |-> r, result |-> value]
  OBVIOUS
<1>10. answer.request = r /\ answer.result = value
  BY <1>9
<1>11. /\ DOMAIN answers' = DOMAIN answers \cup {k}
       /\ answers'[k] = answer
       /\ \A x \in DOMAIN answers : answers'[x] = answers[x]
  <2>1. answers' = Put(answers, k, answer)
    BY <1>3, <1>9
  <2>2. /\ DOMAIN answers' = DOMAIN answers \cup {k}
        /\ AFunction(answers', DOMAIN answers \cup {k})
        /\ answers'[k] = answer
        /\ \A x \in DOMAIN answers \ {k} : answers'[x] = answers[x]
    BY <2>1, PutFacts
  <2> QED BY <1>5, <2>2
<1>12. Grow
  BY <1>2, <1>3, <1>7, <1>8, <1>11 DEF Grow
<1>13. ReceiptsOK'
  <2>1. \A j \in DOMAIN receipts : receipts'[j] \in Row /\ receipts'[j].key = receipts[j].key
    BY <1>2, <1>7, <1>8 DEF StoreInv, ReceiptsOK
  <2> QED BY <1>8, <2>1 DEF StoreInv, ReceiptsOK
<1>14. ReportsOK' /\ PoliciesOK'
  BY <1>3, ReportsKept, PoliciesKept DEF StoreInv
<1>15. \A j \in DOMAIN receipts : Covers(receipts'[j], RetentionOf(receipts[j]))
  <2>1. \A j \in DOMAIN receipts : Covers(receipts[j], RetentionOf(receipts[j]))
    BY DEF StoreInv, ReceiptsOK, Row, Covers, RetentionOf
  <2> QED BY <1>2, <1>7, <1>8, <2>1
<1>16. value \in Retention /\ Covers(row, value)
  BY <1>2, <1>7 DEF Row, Retention, Covers, RetentionOf
<1>17. AnswersOK'
  <2> SUFFICES ASSUME NEW x \in DOMAIN answers'
               PROVE  LET q == answers'[x].request
                          given == answers'[x].result
                      IN /\ q \in Request /\ q.op \in {"retain", "erase"} /\ MutationKey(q) = x
                         /\ q.receipt \in DOMAIN receipts'
                         /\ given \in Retention
                         /\ Covers(receipts'[q.receipt], given)
    BY DEF AnswersOK, MutationKey, Covers
  <2>1. CASE x = k
    BY <1>1, <1>4, <1>5, <1>8, <1>10, <1>11, <1>16, <2>1
  <2>2. CASE x # k
    <3>1. x \in DOMAIN answers /\ answers'[x] = answers[x]
      BY <1>11, <2>2
    <3>2. PICK q, given : q = answers[x].request /\ given = answers[x].result
      OBVIOUS
    <3>3. /\ q \in Request /\ q.op \in {"retain", "erase"} /\ MutationKey(q) = x
          /\ q.receipt \in DOMAIN receipts
          /\ given \in Retention
          /\ Covers(receipts[q.receipt], given)
      BY <3>1, <3>2 DEF StoreInv, AnswersOK
    <3>4. PICK was, is : was = receipts[q.receipt] /\ is = receipts'[q.receipt]
      OBVIOUS
    <3>5. was \in Row /\ is \in Row /\ Covers(is, RetentionOf(was))
      BY <1>8, <1>13, <1>15, <3>3, <3>4 DEF StoreInv, ReceiptsOK
    <3>6. Covers(is, given)
      BY <3>3, <3>4, <3>5 DEF Covers, RetentionOf, Row, Retention
    <3> QED BY <1>8, <3>1, <3>2, <3>3, <3>4, <3>6
  <2> QED BY <2>1, <2>2
<1>18. Moves(c, r, Done(value), "answered", NoCopy)
  BY <1>1, <1>3, AnswerMoves DEF StoreInv
<1>19. Settled(r, value)'
  BY <1>1, <1>4, <1>10, <1>11 DEF Settled, MutationKey
<1>20. CallerOK(r, Done(value), "answered", NoCopy)'
  BY <1>4, <1>19, DoneFields DEF CallerOK
<1>21. MayHold(c, r, "answered") /\ "answered" \in Step
  BY DEF MayHold, Step
<1>22. ASSUME NEW d \in Client \ {c}
       PROVE  Spares(d)
  <2>1. CallerOK(Req(d), call[d].reply, step[d], copy[d])
    BY AtStep
  <2>2. step[d] \in {"row", "row_commit"} => MutationKey(Req(d)) # k
    BY <1>1, <1>3 DEF StoreInv, Locks, HoldsKey
  <2>3. step[d] = "row_commit" =>
          Req(d).receipt # i /\ Req(d).receipt \in DOMAIN receipts
    BY <1>1, <1>3, <2>1 DEF StoreInv, Locks, HoldsRow, CallerOK
  <2> QED BY <1>3, <1>8, <1>11, <2>1, <2>2, <2>3 DEF Spares, CallerOK
<1> QED BY <1>3, <1>12, <1>13, <1>14, <1>17, <1>18, <1>20, <1>21, <1>22, StepKeeps

----------------------------------------------------------------------------
(* CreateReviewPolicy.                                                     *)

LEMMA PolicyReplayedKeeps ==
  ASSUME StoreInv, now' = now, told' = told, UNCHANGED tables,
         NEW c \in Client, step[c] # "idle", Req(c) \in Request, Req(c).op = "policy",
         Req(c).key \in DOMAIN policies, Answer(c, PolicyReplayed(Req(c)))
  PROVE  StoreInv'
<1>1. CASE policies[Req(c).key].request = Req(c)
  <2>1. Answer(c, Done(Req(c).key))
    BY <1>1 DEF PolicyReplayed
  <2>2. PICK value : value = Req(c).key
    OBVIOUS
  <2>3. Settled(Req(c), value)
    BY <1>1, <2>2 DEF Settled
  <2> QED BY <2>1, <2>2, <2>3, DoneFields, AnswerKeeps
<1>2. CASE policies[Req(c).key].request # Req(c)
  BY <1>2, RefusalKeeps DEF PolicyReplayed
<1> QED BY <1>1, <1>2

LEMMA PolicyLookupStep ==
  ASSUME StoreInv, NEW c \in Client, PolicyLookup(c)
  PROVE  StoreInv'
<1>1. /\ step[c] = "policy_lookup" /\ now' = now /\ told' = told /\ UNCHANGED tables
      /\ IF Req(c).key \in DOMAIN policies THEN Answer(c, PolicyReplayed(Req(c)))
         ELSE Go(c, "policy_scope")
  BY DEF PolicyLookup
<1>2. Req(c) \in Request /\ Req(c).op = "policy"
  BY <1>1, AtStep DEF PolicySteps
<1>3. CASE Go(c, "policy_scope")
  <2>1. "policy_scope" \in StepOf(Req(c).op) /\ "policy_scope" \in Step
        /\ MayHold(c, Req(c), "policy_scope")
    BY <1>2 DEF StepOf, PolicySteps, Step, MayHold
  <2> QED BY <1>1, <1>3, <2>1, GoKeeps
<1> QED BY <1>1, <1>2, <1>3, PolicyReplayedKeeps

\* What the scope allows has a previous policy of another version.
LEMMA ScopeRead ==
  ASSUME NEW r, PolicyRefusal(policies, r) = "none"
  PROVE  PreviousRead(r)
BY DEF PolicyRefusal, PreviousRead

LEMMA PolicyScopeStep ==
  ASSUME StoreInv, NEW c \in Client, PolicyScope(c)
  PROVE  StoreInv'
<1>1. PICK refusal : refusal = PolicyRefusal(policies, Req(c))
  OBVIOUS
<1>2. /\ step[c] = "policy_scope" /\ now' = now /\ told' = told /\ UNCHANGED tables
      /\ \/ refusal = "not_found" /\ Answer(c, Refused("not_found"))
         \/ refusal = "invalid" /\ Go(c, "policy_replay")
         \/ refusal = "none" /\ Go(c, "policy_insert")
         \/ refusal = "none" /\ Go(c, "policy_update")
  BY <1>1 DEF PolicyScope
<1>3. Req(c) \in Request /\ Req(c).op = "policy"
  BY <1>2, AtStep DEF PolicySteps
<1>4. \A s \in {"policy_replay", "policy_insert", "policy_update"} :
        s \in StepOf(Req(c).op) /\ s \in Step /\ MayHold(c, Req(c), s)
  BY <1>3 DEF StepOf, PolicySteps, Step, MayHold
<1>5. CASE refusal = "invalid" /\ Go(c, "policy_replay")
  BY <1>1, <1>2, <1>4, <1>5, GoKeeps
<1>6. CASE refusal = "none" /\ Go(c, "policy_insert")
  BY <1>1, <1>2, <1>4, <1>6, ScopeRead, GoKeeps
<1>7. CASE refusal = "none" /\ Go(c, "policy_update")
  BY <1>1, <1>2, <1>4, <1>7, ScopeRead, GoKeeps
<1> QED BY <1>2, <1>5, <1>6, <1>7, RefusalKeeps

LEMMA PolicyUpdateStep ==
  ASSUME StoreInv, NEW c \in Client, PolicyUpdate(c)
  PROVE  StoreInv'
<1>1. /\ step[c] = "policy_update" /\ now' = now /\ told' = told /\ UNCHANGED tables
      /\ Go(c, "policy_insert")
  BY DEF PolicyUpdate
<1>2. /\ Req(c) \in Request /\ Req(c).op = "policy" /\ PreviousRead(Req(c))
  BY <1>1, AtStep DEF PolicySteps, CallerOK
<1>3. "policy_insert" \in StepOf(Req(c).op) /\ "policy_insert" \in Step
      /\ MayHold(c, Req(c), "policy_insert")
  BY <1>2 DEF StepOf, PolicySteps, Step, MayHold
<1> QED BY <1>1, <1>2, <1>3, GoKeeps

\* An insert the unique index refuses has been overtaken: by then the request
\* itself is invalid.
LEMMA Overtaken ==
  ASSUME PoliciesOK, NEW r, PreviousRead(r), r.key \notin DOMAIN policies, ~PolicyAccepted(r)
  PROVE  PolicyRefusal(policies, r) = "invalid"
<1>1. PICK k \in Active : k # r.supersedes
  BY DEF PolicyAccepted
<1>2. k \in DOMAIN policies /\ policies[k].status = "active"
  BY <1>1 DEF Active
<1>3. CASE r.supersedes = NoPolicy
  BY <1>2, <1>3 DEF PolicyRefusal
<1>4. CASE r.supersedes # NoPolicy
  <2>1. r.supersedes \in DOMAIN policies /\ r.supersedes \notin Active
    BY <1>1, <1>4 DEF PoliciesOK, PreviousRead
  <2>2. policies[r.supersedes].status # "active"
    BY <2>1 DEF Active
  <2> QED BY <1>4, <2>1, <2>2 DEF PolicyRefusal
<1> QED BY <1>3, <1>4

LEMMA PolicyInsertStep ==
  ASSUME StoreInv, NEW c \in Client, PolicyInsert(c)
  PROVE  StoreInv'
<1>1. /\ step[c] = "policy_insert" /\ now' = now /\ told' = told /\ UNCHANGED tables
      /\ ~PolicyPending(c)
      /\ Go(c, IF PolicyAccepted(Req(c)) THEN "policy_commit" ELSE "policy_replay")
  BY DEF PolicyInsert
<1>2. /\ Req(c) \in Request /\ Req(c).op = "policy" /\ PreviousRead(Req(c))
  BY <1>1, AtStep DEF PolicySteps, CallerOK
<1>3. \A s \in {"policy_commit", "policy_replay"} : s \in StepOf(Req(c).op) /\ s \in Step
  BY <1>2 DEF StepOf, PolicySteps, Step
<1>4. MayHold(c, Req(c), "policy_commit") /\ MayHold(c, Req(c), "policy_replay")
  BY <1>1 DEF MayHold, PolicyPending
<1>5. CASE PolicyAccepted(Req(c))
  BY <1>1, <1>2, <1>3, <1>4, <1>5, GoKeeps
<1>6. CASE ~PolicyAccepted(Req(c))
  <2>1. Req(c).key \notin DOMAIN policies => PolicyRefusal(policies, Req(c)) = "invalid"
    BY <1>2, <1>6, Overtaken DEF StoreInv
  <2> QED BY <1>1, <1>3, <1>4, <1>6, <2>1, GoKeeps
<1> QED BY <1>5, <1>6

LEMMA PolicyReplayStep ==
  ASSUME StoreInv, NEW c \in Client, PolicyReplay(c)
  PROVE  StoreInv'
<1>1. /\ step[c] = "policy_replay" /\ now' = now /\ told' = told /\ UNCHANGED tables
      /\ Answer(c, IF Req(c).key \in DOMAIN policies THEN PolicyReplayed(Req(c))
                   ELSE Refused("invalid"))
  BY DEF PolicyReplay
<1>2. Req(c) \in Request /\ Req(c).op = "policy"
  BY <1>1, AtStep DEF PolicySteps
<1>3. CASE Req(c).key \in DOMAIN policies
  <2>1. Answer(c, PolicyReplayed(Req(c)))
    BY <1>1, <1>3
  <2> QED BY <1>1, <1>2, <1>3, <2>1, PolicyReplayedKeeps
<1>4. CASE Req(c).key \notin DOMAIN policies
  <2>1. Answer(c, Refused("invalid"))
    BY <1>1, <1>4
  <2> QED BY <1>1, <2>1, RefusalKeeps
<1> QED BY <1>3, <1>4

\* When the transaction commits, the previous policy is still the active one.
LEMMA Appointed ==
  ASSUME PoliciesOK, NEW r \in Request, r.op = "policy", PreviousRead(r), PolicyAccepted(r)
  PROVE  /\ r.key \notin DOMAIN policies /\ r.key # NoPolicy
         /\ r.supersedes # NoPolicy => r.supersedes \in Active
         /\ r.supersedes = NoPolicy => DOMAIN policies = {}
         /\ Active \subseteq {r.supersedes}
         /\ r.supersedes \in DOMAIN policies \cup {NoPolicy}
         /\ \A l \in DOMAIN policies : policies[l].request.supersedes # r.supersedes
<1>1. r.key \notin DOMAIN policies /\ Active \subseteq {r.supersedes} /\ r.key # NoPolicy
  BY RequestAssumption DEF PolicyAccepted
<1>2. \A k \in DOMAIN policies : k # NoPolicy
  BY RequestAssumption DEF PoliciesOK, PolicyRow
<1>3. Active \subseteq DOMAIN policies
  BY DEF Active
<1>4. CASE r.supersedes = NoPolicy
  <2>1. Active = {}
    BY <1>1, <1>2, <1>3, <1>4
  <2>2. DOMAIN policies = {}
    BY <2>1 DEF PoliciesOK
  <2> QED BY <1>1, <1>4, <2>2
<1>5. CASE r.supersedes # NoPolicy
  <2>1. r.supersedes \in DOMAIN policies
    BY <1>5 DEF PreviousRead
  <2>2. Active # {}
    BY <2>1 DEF PoliciesOK
  <2>3. r.supersedes \in Active
    BY <1>1, <2>2
  <2>4. policies[r.supersedes].status # "superseded"
    BY <2>3 DEF Active
  <2>5. \A l \in DOMAIN policies : policies[l].request.supersedes # r.supersedes
    BY <2>1, <2>4 DEF PoliciesOK
  <2> QED BY <1>1, <1>5, <2>1, <2>3, <2>5
<1> QED BY <1>4, <1>5

LEMMA PolicyCommitTable ==
  ASSUME PoliciesOK, NEW r \in Request, r.op = "policy", PreviousRead(r), PolicyAccepted(r),
         policies' = Put(Superseding(r), r.key, NewPolicy(r))
  PROVE  /\ DOMAIN policies' = DOMAIN policies \cup {r.key}
         /\ policies'[r.key] = [version |-> r.version, reviewers |-> r.reviewers,
                                status |-> "active", request |-> r]
         /\ \A k \in DOMAIN policies :
              /\ policies'[k].request = policies[k].request
              /\ policies'[k].version = policies[k].version
              /\ policies'[k].reviewers = policies[k].reviewers
              /\ policies'[k].status = "superseded"
         /\ PoliciesOK'
<1>1. /\ r.key \notin DOMAIN policies /\ r.key # NoPolicy
      /\ r.supersedes # NoPolicy => r.supersedes \in Active
      /\ r.supersedes = NoPolicy => DOMAIN policies = {}
      /\ Active \subseteq {r.supersedes}
      /\ r.supersedes \in DOMAIN policies \cup {NoPolicy}
      /\ \A l \in DOMAIN policies : policies[l].request.supersedes # r.supersedes
  BY Appointed
<1>2. PICK old : old = Superseding(r)
  OBVIOUS
<1>3. /\ DOMAIN old = DOMAIN policies
      /\ \A k \in DOMAIN policies :
           old[k] = IF k = r.supersedes THEN [policies[k] EXCEPT !.status = "superseded"]
                    ELSE policies[k]
  BY <1>2 DEF Superseding
<1>4. PICK new : new = NewPolicy(r)
  OBVIOUS
<1>5. new = [version |-> r.version, reviewers |-> r.reviewers, status |-> "active", request |-> r]
  BY <1>4 DEF NewPolicy
<1>6. PolicyRow(new) /\ new.request = r /\ new.status = "active"
  BY <1>5 DEF PolicyRow
<1>7. /\ DOMAIN policies' = DOMAIN policies \cup {r.key}
      /\ policies'[r.key] = new
      /\ \A k \in DOMAIN policies : policies'[k] = old[k]
  <2>1. PICK key, put : key = r.key /\ put = Put(old, key, new)
    OBVIOUS
  <2>2. policies' = put
    BY <1>2, <1>4, <2>1
  <2>3. /\ DOMAIN put = DOMAIN old \cup {key}
        /\ AFunction(put, DOMAIN old \cup {key})
        /\ put[key] = new
        /\ \A k \in DOMAIN old \ {key} : put[k] = old[k]
    BY <2>1, PutFacts
  <2> QED BY <1>1, <1>3, <2>1, <2>2, <2>3
<1>8. ASSUME NEW k \in DOMAIN policies
      PROVE  /\ PolicyRow(policies'[k])
             /\ policies'[k].request = policies[k].request
             /\ policies'[k].version = policies[k].version
             /\ policies'[k].reviewers = policies[k].reviewers
             /\ policies'[k].status = "superseded"
  <2>1. PICK was : was = policies[k]
    OBVIOUS
  <2>2. /\ was = [version |-> was.request.version, reviewers |-> was.request.reviewers,
                  status |-> was.status, request |-> was.request]
        /\ was.request \in Request /\ was.request.op = "policy"
        /\ was.status \in {"active", "superseded"}
    BY <2>1 DEF PoliciesOK, PolicyRow
  <2>3. CASE k = r.supersedes
    <3>1. policies'[k] = [was EXCEPT !.status = "superseded"]
      BY <1>3, <1>7, <2>1, <2>3
    <3>2. PICK is : is = policies'[k]
      OBVIOUS
    <3>3. is = [version |-> was.request.version, reviewers |-> was.request.reviewers,
                status |-> "superseded", request |-> was.request]
      BY <2>2, <3>1, <3>2
    <3>4. /\ is.version = was.request.version /\ is.reviewers = was.request.reviewers
          /\ is.status = "superseded" /\ is.request = was.request
      BY <3>3
    <3>5. was.version = was.request.version /\ was.reviewers = was.request.reviewers
      BY <2>2
    <3>6. PolicyRow(is)
      BY <2>2, <3>3, <3>4 DEF PolicyRow
    <3> QED BY <2>1, <3>2, <3>4, <3>5, <3>6
  <2>4. CASE k # r.supersedes
    <3>1. policies'[k] = was
      BY <1>3, <1>7, <2>1, <2>4
    <3>2. was.status = "superseded"
      BY <1>1, <2>1, <2>2, <2>4 DEF Active
    <3>3. PolicyRow(was)
      BY <2>1 DEF PoliciesOK
    <3> QED BY <2>1, <3>1, <3>2, <3>3
  <2> QED BY <2>3, <2>4
<1>9. \A k \in DOMAIN policies' :
        /\ PolicyRow(policies'[k]) /\ policies'[k].request.key = k
        /\ policies'[k].request.supersedes \in DOMAIN policies' \cup {NoPolicy}
  BY <1>1, <1>6, <1>7, <1>8 DEF PoliciesOK
<1>10. Active' = {r.key}
  BY <1>6, <1>7, <1>8 DEF Active
<1>11. \A k, l \in DOMAIN policies' :
         policies'[k].request.supersedes = policies'[l].request.supersedes => k = l
  BY <1>1, <1>6, <1>7, <1>8 DEF PoliciesOK
<1>12. ASSUME NEW k \in DOMAIN policies'
       PROVE  policies'[k].status = "superseded" <=>
                \E l \in DOMAIN policies' : policies'[l].request.supersedes = k
  <2>1. CASE k = r.key
    <3>1. \A l \in DOMAIN policies' : policies'[l].request.supersedes # k
      BY <1>1, <1>6, <1>7, <1>8, <2>1 DEF PoliciesOK
    <3> QED BY <1>6, <1>7, <2>1, <3>1
  <2>2. CASE k # r.key
    <3>1. k \in DOMAIN policies /\ policies'[k].status = "superseded"
      BY <1>7, <1>8, <2>2
    <3>2. CASE k = r.supersedes
      BY <1>6, <1>7, <3>1, <3>2
    <3>3. CASE k # r.supersedes
      <4>1. policies[k].status = "superseded"
        BY <1>1, <3>1, <3>3 DEF PoliciesOK, PolicyRow, Active
      <4>2. PICK l \in DOMAIN policies : policies[l].request.supersedes = k
        BY <3>1, <4>1 DEF PoliciesOK
      <4> QED BY <1>7, <1>8, <3>1, <4>2
    <3> QED BY <3>2, <3>3
  <2> QED BY <2>1, <2>2
<1>13. PoliciesOK'
  <2>1. \A k \in DOMAIN policies' : PolicyRow(policies[k])'
    BY <1>9 DEF PolicyRow
  <2>2. (DOMAIN policies # {} => Active # {})' /\ (\A k, l \in Active : k = l)'
    BY <1>10
  <2> QED BY <1>9, <1>11, <1>12, <2>1, <2>2 DEF PoliciesOK
<1> QED BY <1>5, <1>7, <1>8, <1>13

\* A request that was invalid stays so when another policy takes the scope.
LEMMA InvalidKept ==
  ASSUME NEW q, PolicyRefusal(policies, q) = "invalid",
         DOMAIN policies \subseteq DOMAIN policies', Active' # {}, NoPolicy \notin DOMAIN policies',
         \A k \in DOMAIN policies :
           policies'[k].version = policies[k].version /\ policies'[k].status # "active"
  PROVE  PolicyRefusal(policies', q) = "invalid"
<1>1. CASE q.supersedes = NoPolicy
  <2>1. \E k \in DOMAIN policies' : policies'[k].status = "active"
    BY DEF Active
  <2> QED BY <1>1, <2>1 DEF PolicyRefusal
<1>2. CASE q.supersedes # NoPolicy
  <2>1. q.supersedes \in DOMAIN policies
    BY <1>2 DEF PolicyRefusal
  <2>2. q.supersedes \in DOMAIN policies' /\ policies'[q.supersedes].status # "active"
    BY <2>1
  <2> QED BY <1>2, <2>2 DEF PolicyRefusal
<1> QED BY <1>1, <1>2

LEMMA PolicyCommitStep ==
  ASSUME StoreInv, NEW c \in Client, PolicyCommit(c)
  PROVE  StoreInv'
<1>1. PICK r : r = Req(c)
  OBVIOUS
<1>2. /\ step[c] = "policy_commit" /\ now' = now /\ told' = told
      /\ UNCHANGED <<receipts, answers, reports>>
      /\ policies' = Put(Superseding(r), r.key, NewPolicy(r))
      /\ Answer(c, Done(r.key))
  BY <1>1 DEF PolicyCommit
<1>3. /\ r \in Request /\ r.op = "policy"
      /\ CallerOK(r, call[c].reply, "policy_commit", copy[c])
  BY <1>1, <1>2, AtStep DEF PolicySteps
<1>4. PreviousRead(r) /\ PolicyAccepted(r) /\ PoliciesOK
  BY <1>3 DEF CallerOK, StoreInv
<1>5. PICK key : key = r.key
  OBVIOUS
<1>6. /\ DOMAIN policies' = DOMAIN policies \cup {key}
      /\ policies'[key] = [version |-> r.version, reviewers |-> r.reviewers,
                           status |-> "active", request |-> r]
      /\ \A k \in DOMAIN policies :
           /\ policies'[k].request = policies[k].request
           /\ policies'[k].version = policies[k].version
           /\ policies'[k].status = "superseded"
      /\ PoliciesOK'
  BY <1>2, <1>3, <1>4, <1>5, PolicyCommitTable
<1>7. Grow
  BY <1>2, <1>6 DEF Grow
<1>8. ReceiptsOK' /\ ReportsOK'
  BY <1>2, ReceiptsKept, ReportsKept DEF StoreInv
<1>9. AnswersOK'
  BY <1>2 DEF StoreInv, AnswersOK, MutationKey, Covers
<1>10. Moves(c, r, Done(key), "answered", NoCopy)
  BY <1>1, <1>2, <1>5, AnswerMoves DEF StoreInv
<1>11. policies'[key].request = r /\ policies'[key].status = "active"
  BY <1>6
<1>12. Settled(r, key)'
  BY <1>3, <1>5, <1>6, <1>11 DEF Settled
<1>13. CallerOK(r, Done(key), "answered", NoCopy)'
  BY <1>3, <1>12, DoneFields DEF CallerOK
<1>14. MayHold(c, r, "answered") /\ "answered" \in Step
  BY DEF MayHold, Step
<1>15. Active' # {} /\ NoPolicy \notin DOMAIN policies'
  <2>1. key \in Active'
    BY <1>6, <1>11 DEF Active
  <2>2. NoPolicy \notin DOMAIN policies /\ key # NoPolicy
    BY <1>3, <1>4, <1>5, RequestAssumption DEF PoliciesOK, PolicyRow
  <2> QED BY <1>6, <2>1, <2>2
<1>16. ASSUME NEW d \in Client \ {c}
       PROVE  Spares(d)
  <2>1. CallerOK(Req(d), call[d].reply, step[d], copy[d])
    BY AtStep
  <2>2. step[d] # "policy_commit"
    BY <1>2 DEF StoreInv, Locks
  <2>3. ASSUME step[d] = "policy_replay", Req(d).key \notin DOMAIN policies'
        PROVE  PolicyRefusal(policies', Req(d)) = "invalid"
    <3>1. PICK q : q = Req(d)
      OBVIOUS
    <3>2. PolicyRefusal(policies, q) = "invalid"
      BY <1>6, <2>1, <2>3, <3>1 DEF CallerOK
    <3>3. \A k \in DOMAIN policies :
            policies'[k].version = policies[k].version /\ policies'[k].status # "active"
      BY <1>6
    <3>4. PolicyRefusal(policies', q) = "invalid"
      BY <1>6, <1>15, <3>2, <3>3, InvalidKept
    <3> QED BY <3>1, <3>4
  <2> QED BY <1>2, <2>1, <2>2, <2>3 DEF Spares, CallerOK
<1> QED BY <1>2, <1>6, <1>7, <1>8, <1>9, <1>10, <1>13, <1>14, <1>16, StepKeeps

----------------------------------------------------------------------------
(* The gate, failures, the caller, the clock.                              *)

LEMMA GatePolicyStep ==
  ASSUME StoreInv, NEW c \in Client, GatePolicy(c)
  PROVE  StoreInv'
<1>1. PICK r : r = Req(c)
  OBVIOUS
<1>2. /\ step[c] = "gate_policy" /\ now' = now /\ told' = told /\ UNCHANGED tables
      /\ \/ Answer(c, Refused("not_found"))
         \/ \E k \in Active :
              /\ copy' = [copy EXCEPT ![c] = <<k>>]
              /\ step' = [step EXCEPT ![c] = "gate_reviews"]
              /\ UNCHANGED call
  BY DEF GatePolicy
<1>3. /\ r \in Request /\ r.op = "gate" /\ call[c].reply = NoReply
      /\ CallerOK(r, NoReply, "gate_policy", copy[c])
  BY <1>1, <1>2, AtStep DEF GateSteps
<1>4. ASSUME NEW k \in Active, copy' = [copy EXCEPT ![c] = <<k>>],
             step' = [step EXCEPT ![c] = "gate_reviews"], UNCHANGED call
      PROVE  StoreInv'
  <2>1. PICK row : row = <<k>>
    OBVIOUS
  <2>2. call' = [call EXCEPT ![c] = [request |-> r, reply |-> NoReply]]
    BY <1>1, <1>3, <1>4 DEF StoreInv, CallsOK, Req
  <2>3. Moves(c, r, NoReply, "gate_reviews", row)
    BY <1>4, <2>1, <2>2 DEF Moves
  <2>4. "gate_reviews" \in Step /\ MayHold(c, r, "gate_reviews") /\ "gate_reviews" \in StepOf(r.op)
    BY <1>3 DEF Step, GateSteps, MayHold, StepOf
  <2>5. CallerOK(r, NoReply, "gate_reviews", row)
    BY <1>3, <2>1, <2>4 DEF CallerOK, Active
  <2> QED BY <1>2, <2>3, <2>4, <2>5, QuietKeeps
<1> QED BY <1>2, <1>4, RefusalKeeps

LEMMA GateReviewsStep ==
  ASSUME StoreInv, NEW c \in Client, GateReviews(c)
  PROVE  StoreInv'
<1>1. /\ step[c] = "gate_reviews" /\ now' = now /\ told' = told /\ UNCHANGED tables
      /\ Answer(c, Gate(c))
  BY DEF GateReviews
<1>2. Req(c).op = "gate"
  BY <1>1, AtStep DEF GateSteps
<1>3. PICK reply : reply = Gate(c)
  OBVIOUS
<1>4. reply.status = "ok"
  BY <1>3, DoneFields DEF Gate
<1> QED BY <1>1, <1>2, <1>3, <1>4, AnswerKeeps

LEMMA FailStep ==
  ASSUME StoreInv, NEW c \in Client, Fail(c)
  PROVE  StoreInv'
BY RefusalKeeps DEF Fail, Failed

LEMMA AskStep ==
  ASSUME StoreInv, NEW c \in Client, NEW r \in Request, Ask(c, r)
  PROVE  StoreInv'
<1>1. PICK s : s = FirstStep[r.op]
  OBVIOUS
<1>2. /\ step[c] = "idle" /\ now' = now /\ told' = told /\ UNCHANGED tables
      /\ call' = [call EXCEPT ![c].request = r]
      /\ step' = [step EXCEPT ![c] = s]
      /\ copy' = copy
  BY <1>1 DEF Ask
<1>3. CallerOK(Req(c), call[c].reply, "idle", copy[c])
  BY <1>2, AtStep
<1>4. call[c].reply = NoReply /\ copy[c] = NoCopy
  BY <1>3 DEF CallerOK
<1>5. call[c] = [request |-> call[c].request, reply |-> call[c].reply]
  BY DEF StoreInv, CallsOK
<1>6. [call[c] EXCEPT !.request = r] = [request |-> r, reply |-> NoReply]
  BY <1>4, <1>5
<1>7. copy' = [copy EXCEPT ![c] = NoCopy]
  BY <1>2, <1>4 DEF StoreInv, CallsOK, AFunction
<1>8. Moves(c, r, NoReply, s, NoCopy)
  BY <1>2, <1>6, <1>7 DEF Moves
<1>9. r.op \in {"record", "reconcile", "retain", "erase", "policy", "gate"}
  BY RequestAssumption
<1>10. s \in StepOf(r.op) /\ s \in Step
       /\ s \notin {"idle", "answered", "row", "row_commit", "policy_update", "policy_insert",
                    "policy_commit", "policy_replay", "gate_reviews"}
  BY <1>1, <1>9 DEF FirstStep, StepOf, Step, ReceiptSteps, ReportSteps, MutationSteps,
                   PolicySteps, GateSteps
<1>11. CallerOK(r, NoReply, s, NoCopy)
  BY <1>2, <1>10 DEF CallerOK
<1>12. MayHold(c, r, s)
  BY <1>10 DEF MayHold
<1> QED BY <1>2, <1>8, <1>10, <1>11, <1>12, QuietKeeps

LEMMA ReturnStep ==
  ASSUME StoreInv, NEW c \in Client, Return(c)
  PROVE  StoreInv'
<1>1. PICK r, reply : r = Req(c) /\ reply = call[c].reply
  OBVIOUS
<1>2. /\ step[c] = "answered" /\ now' = now /\ UNCHANGED tables
      /\ told' = IF reply.status = "ok" /\ r.op # "gate"
                 THEN told \cup {<<r, reply.value[1]>>} ELSE told
      /\ call' = [call EXCEPT ![c] = Idle]
      /\ step' = [step EXCEPT ![c] = "idle"]
      /\ copy' = copy
  BY <1>1 DEF Return
<1>3. CallerOK(r, reply, "answered", copy[c])
  BY <1>1, <1>2, AtStep
<1>4. reply.status = "ok" /\ r.op # "gate" => Settled(r, reply.value[1])
  BY <1>3 DEF CallerOK
<1>5. copy[c] = NoCopy
  BY <1>3 DEF CallerOK
<1>6. \A t \in told \cup told' : t \in told' \ told => t = <<r, reply.value[1]>> /\ Settled(r, reply.value[1])
  BY <1>2, <1>4
<1>7. ToldOK'
  <2>1. ASSUME NEW r1, NEW value, Settled(r1, value)
        PROVE  Settled(r1, value)'
    BY <1>2, <2>1, StillGrow, SettledKept
  <2>2. ASSUME NEW t \in told'
        PROVE  t = <<t[1], t[2]>> /\ Settled(t[1], t[2])'
    <3>1. CASE t \in told
      <4>1. t = <<t[1], t[2]>> /\ Settled(t[1], t[2])
        BY <3>1 DEF StoreInv, ToldOK
      <4> QED BY <2>1, <4>1
    <3>2. CASE t \notin told
      <4>1. t = <<r, reply.value[1]>> /\ Settled(r, reply.value[1])
        BY <1>6, <3>2
      <4>2. t[1] = r /\ t[2] = reply.value[1]
        BY <4>1
      <4> QED BY <2>1, <4>1, <4>2
    <3> QED BY <3>1, <3>2
  <2> QED BY <2>2 DEF ToldOK
<1> DEFINE request == [op |-> "none"]
<1>8. Moves(c, request, NoReply, "idle", NoCopy)
  <2>1. copy' = [copy EXCEPT ![c] = NoCopy]
    BY <1>2, <1>5 DEF StoreInv, CallsOK, AFunction
  <2> QED BY <1>2, <2>1 DEF Moves, Idle
<1>9. /\ request.op = "none" /\ "idle" \in Step
  BY DEF Step
<1>10. CallerOK(request, NoReply, "idle", NoCopy)
  BY <1>9 DEF CallerOK
<1>11. MayHold(c, request, "idle")
  BY DEF MayHold
<1> HIDE DEF request
<1> QED BY <1>2, <1>7, <1>8, <1>9, <1>10, <1>11, QuietKeeps

\* Nothing moves but the clock.
LEMMA RestKeeps ==
  ASSUME StoreInv, now' \in 0..MaxTime, now' >= now, UNCHANGED <<tables, call, step, copy, told>>
  PROVE  StoreInv'
<1>1. /\ now \in Nat /\ now' \in Nat /\ now' >= now /\ now' \in 0..MaxTime
      /\ UNCHANGED tables /\ call' = call /\ step' = step /\ copy' = copy /\ told' = told
  BY MaxTimeAssumption DEF StoreInv
<1>2. /\ receipts' = receipts /\ answers' = answers /\ policies' = policies
      /\ reports' = reports /\ Grow
  BY <1>1, StillGrow DEF tables
<1>3. ReceiptsOK' /\ ReportsOK' /\ AnswersOK'
  BY <1>2 DEF StoreInv, ReceiptsOK, ReportsOK, AnswersOK, MutationKey, Covers
<1>4. PoliciesOK'
  BY <1>2, PoliciesKept DEF StoreInv
<1>5. ASSUME NEW d \in Client
      PROVE  CallerOK(call[d].request, call[d].reply, step[d], copy[d])'
  <2>1. PICK q, p, s, w : q = call[d].request /\ p = call[d].reply /\ s = step[d] /\ w = copy[d]
    OBVIOUS
  <2>2. CallerOK(q, p, s, w)
    BY <2>1 DEF StoreInv, CallsOK
  <2>3. /\ s \in {"row", "row_commit"} => MutationKey(q) \notin DOMAIN answers'
        /\ s = "policy_replay" /\ q.key \notin DOMAIN policies' =>
             PolicyRefusal(policies', q) = "invalid"
    BY <1>2, <2>2 DEF CallerOK
  <2>4. s = "row_commit" => receipts'[q.receipt] = receipts[q.receipt]
    BY <1>2
  <2>5. CallerOK(q, p, s, w)'
    BY <1>1, <1>2, <2>2, <2>3, <2>4, CallerKept DEF StoreInv
  <2> QED BY <1>1, <2>1, <2>5
<1>6. CallsOK'
  BY <1>1, <1>5 DEF StoreInv, CallsOK, AFunction
<1>7. Locks'
  BY <1>1 DEF StoreInv, Locks, HoldsKey, HoldsRow, MutationKey, Req
<1>8. ToldOK'
  BY <1>1, <1>2, ToldKept DEF StoreInv
<1> QED BY <1>1, <1>3, <1>4, <1>6, <1>7, <1>8 DEF StoreInv

LEMMA TickStep ==
  ASSUME StoreInv, Tick
  PROVE  StoreInv'
<1>1. now' \in 0..MaxTime /\ now' >= now /\ UNCHANGED <<tables, call, step, copy, told>>
  BY MaxTimeAssumption DEF StoreInv, Tick
<1> QED BY <1>1, RestKeeps

LEMMA StoreInvInit == Init => StoreInv
<1> SUFFICES ASSUME Init
             PROVE  StoreInv
  OBVIOUS
<1>1. DOMAIN receipts = {} /\ DOMAIN answers = {} /\ DOMAIN policies = {} /\ DOMAIN reports = {}
  BY DEF Init
<1>2. ReceiptsOK
  BY <1>1 DEF ReceiptsOK, AFunction, Init
<1>3. ReportsOK /\ AnswersOK /\ PoliciesOK
  BY <1>1 DEF ReportsOK, AnswersOK, PoliciesOK, Active
<1>4. Idle = [request |-> [op |-> "none"], reply |-> NoReply]
  BY DEF Idle
<1>5. \A c \in Client : /\ call[c].request = [op |-> "none"] /\ call[c].reply = NoReply
                        /\ step[c] = "idle" /\ copy[c] = NoCopy
  BY <1>4 DEF Init
<1>6. CallerOK([op |-> "none"], NoReply, "idle", NoCopy)
  BY DEF CallerOK
<1>7. CallsOK
  <2>1. call = [c \in Client |-> [request |-> call[c].request, reply |-> call[c].reply]]
    BY <1>4 DEF Init
  <2>2. step \in [Client -> Step] /\ AFunction(copy, Client)
    BY DEF Init, Step, AFunction
  <2>3. \A c \in Client : CallerOK(call[c].request, call[c].reply, step[c], copy[c])
    BY <1>5, <1>6
  <2> QED BY <2>1, <2>2, <2>3 DEF CallsOK
<1>8. Locks /\ ToldOK
  BY <1>5 DEF Locks, ToldOK, HoldsKey, HoldsRow, Init
<1> QED BY <1>2, <1>3, <1>7, <1>8, MaxTimeAssumption DEF StoreInv, Init

LEMMA StoreInvNext ==
  ASSUME StoreInv, Next
  PROVE  StoreInv'
<1>1. ASSUME NEW c \in Client, Waiting(c)
      PROVE  StoreInv'
  BY <1>1, KeyLockStep, RowForUpdateStep, PolicyUpdateStep, PolicyInsertStep DEF Waiting
<1>2. ASSUME NEW c \in Client, Running(c)
      PROVE  StoreInv'
  BY <1>2, ReceiptLookupStep, ReceiptInsertStep, ReceiptReplayStep, ReportLookupStep,
     ReportInsertStep, ReportReplayStep, RowCommitStep, PolicyLookupStep, PolicyScopeStep,
     PolicyCommitStep, PolicyReplayStep, GatePolicyStep, GateReviewsStep DEF Running
<1> QED BY <1>1, <1>2, AskStep, FailStep, ReturnStep, TickStep DEF Next

LEMMA StoreInvStep ==
  ASSUME StoreInv, [Next]_vars
  PROVE  StoreInv'
<1>1. CASE UNCHANGED vars
  <2>1. now' \in 0..MaxTime /\ now' >= now /\ UNCHANGED <<tables, call, step, copy, told>>
    BY <1>1, MaxTimeAssumption DEF vars, StoreInv
  <2> QED BY <2>1, RestKeeps
<1> QED BY <1>1, StoreInvNext

LEMMA StoreInvAlways == Spec => []StoreInv
BY StoreInvInit, StoreInvStep, PTL DEF Spec

----------------------------------------------------------------------------
(* What follows.                                                           *)

\* Tables, calls and copies hold values of their types.
THEOREM StoreTypeOK == Spec => []TypeOK
<1>1. StoreInv => TypeOK
  <2> SUFFICES ASSUME StoreInv
               PROVE  TypeOK
    OBVIOUS
  <2>1. now \in 0..MaxTime /\ DOMAIN receipts \subseteq Id
    BY DEF StoreInv, ReceiptsOK
  <2>2. \A k \in DOMAIN answers : MutationKey(answers[k].request) = k
    BY DEF StoreInv, AnswersOK
  <2>3. \A k \in DOMAIN policies :
          policies[k].request.key = k /\ policies[k].status \in {"active", "superseded"}
    BY DEF StoreInv, PoliciesOK, PolicyRow
  <2>4. ASSUME NEW c \in Client
        PROVE  /\ step[c] = "idle" <=> Req(c).op = "none"
               /\ step[c] = "answered" => call[c].reply.status # "none"
               /\ copy[c] # NoCopy <=> step[c] \in {"row_commit", "gate_reviews"}
    <3>1. CallerOK(Req(c), call[c].reply, step[c], copy[c])
      BY AtStep
    <3>2. step[c] = "idle" => Req(c).op = "none"
      BY <3>1 DEF CallerOK
    <3>3. step[c] # "idle" => Req(c).op # "none"
      BY <3>1, RequestAssumption DEF CallerOK
    <3>4. PICK row : row = copy[c]
      OBVIOUS
    <3>5. step[c] \in {"row_commit", "gate_reviews"} => \E x : row = <<x>>
      BY <3>1, <3>4 DEF CallerOK
    <3>6. copy[c] # NoCopy <=> step[c] \in {"row_commit", "gate_reviews"}
      BY <3>1, <3>4, <3>5 DEF CallerOK, NoCopy
    <3> QED BY <3>1, <3>2, <3>3, <3>6 DEF CallerOK
  <2> QED BY <2>1, <2>2, <2>3, <2>4 DEF TypeOK
<1> QED BY <1>1, StoreInvAlways, PTL

\* A caller who was told its receipt, report, retention, erasure or policy is
\* stored finds it so ever after, whatever runs between its statements.
THEOREM ToldIsKeptAlways == Spec => []ToldIsKept
<1>1. StoreInv => ToldIsKept
  <2> SUFFICES ASSUME StoreInv, NEW t \in told, NEW r, NEW value, r = t[1], value = t[2]
               PROVE  CASE r.op = "record" ->
                             value \in DOMAIN receipts /\ receipts[value].key = r.key
                               /\ receipts[value].payload = r.payload
                        [] r.op = "reconcile" ->
                             value \in DOMAIN reports /\ reports[value].payload = r.payload
                        [] r.op \in {"retain", "erase"} ->
                             LET row == receipts[r.receipt] IN
                             /\ row.until >= value.until
                             /\ value.hold => row.hold
                             /\ value.erased => row.erased
                        [] r.op = "policy" ->
                             value \in DOMAIN policies /\ policies[value].request = r
    BY DEF ToldIsKept
  <2>1. Settled(r, value)
    BY DEF StoreInv, ToldOK
  <2>2. r.op \in {"record", "reconcile", "retain", "erase", "policy"}
    BY <2>1, RequestAssumption DEF Settled
  <2>3. CASE r.op = "record"
    BY <2>1, <2>3 DEF Settled
  <2>4. CASE r.op = "reconcile"
    BY <2>1, <2>4 DEF Settled
  <2>5. CASE r.op \in {"retain", "erase"}
    <3>1. PICK k : k = MutationKey(r)
      OBVIOUS
    <3>2. k \in DOMAIN answers /\ answers[k].request = r /\ answers[k].result = value
      BY <2>1, <2>5, <3>1 DEF Settled
    <3>3. Covers(receipts[r.receipt], value)
      BY <3>2 DEF StoreInv, AnswersOK
    <3> QED BY <2>5, <3>3 DEF Covers
  <2>6. CASE r.op = "policy"
    BY <2>1, <2>6 DEF Settled
  <2> QED BY <2>2, <2>3, <2>4, <2>5, <2>6
<1> QED BY <1>1, StoreInvAlways, PTL

\* A key is answered for one payload only, and always with the same answer.
THEOREM OneAnswerPerKeyAlways == Spec => []OneAnswerPerKey
<1>1. StoreInv => OneAnswerPerKey
  <2> SUFFICES ASSUME StoreInv, NEW t \in told, NEW u \in told,
                      t[1].op = u[1].op, t[1].key = u[1].key
               PROVE  t = u
    BY DEF OneAnswerPerKey
  <2>1. PICK r, q, v, w : r = t[1] /\ v = t[2] /\ q = u[1] /\ w = u[2]
    OBVIOUS
  <2>2. Settled(r, v) /\ Settled(q, w) /\ t = <<r, v>> /\ u = <<q, w>>
    BY <2>1 DEF StoreInv, ToldOK
  <2>3. r \in Request /\ q \in Request /\ r.op = q.op /\ r.key = q.key
        /\ r.op \in {"record", "reconcile", "retain", "erase", "policy"}
    BY <2>1, <2>2, RequestAssumption DEF Settled
  <2>4. CASE r.op = "record"
    <3>1. v = w /\ r.payload = q.payload
      BY <2>2, <2>3, <2>4 DEF Settled, StoreInv, ReceiptsOK
    <3>2. /\ r = [op |-> "record", key |-> r.key, payload |-> r.payload]
          /\ q = [op |-> "record", key |-> q.key, payload |-> q.payload]
      BY <2>3, <2>4, RequestAssumption
    <3> QED BY <2>2, <2>3, <3>1, <3>2
  <2>5. CASE r.op = "reconcile"
    <3>1. v = w /\ r.payload = q.payload /\ r.id = q.id
      BY <2>2, <2>3, <2>5 DEF Settled, StoreInv, ReportsOK
    <3>2. /\ r = [op |-> "reconcile", key |-> r.key, id |-> r.id, payload |-> r.payload]
          /\ q = [op |-> "reconcile", key |-> q.key, id |-> q.id, payload |-> q.payload]
      BY <2>3, <2>5, RequestAssumption
    <3> QED BY <2>2, <2>3, <3>1, <3>2
  <2>6. CASE r.op \in {"retain", "erase"}
    <3>1. MutationKey(r) = MutationKey(q)
      BY <2>3 DEF MutationKey
    <3>2. r = q /\ v = w
      BY <2>2, <2>3, <2>6, <3>1 DEF Settled
    <3> QED BY <2>2, <3>2
  <2>7. CASE r.op = "policy"
    <3>1. r = q /\ v = w
      BY <2>2, <2>3, <2>7 DEF Settled
    <3> QED BY <2>2, <3>1
  <2> QED BY <2>3, <2>4, <2>5, <2>6, <2>7
<1> QED BY <1>1, StoreInvAlways, PTL

\* Of the policies of one scope at most one is active, and one is superseded
\* at most once, however creations interleave.
THEOREM OneActivePolicyAlways == Spec => []OneActivePolicy
<1>1. StoreInv => OneActivePolicy
  <2> SUFFICES ASSUME StoreInv
               PROVE  Cardinality(Active) <= 1
    BY DEF StoreInv, PoliciesOK, OneActivePolicy
  <2>1. CASE Active = {}
    BY <2>1, FS_EmptySet
  <2>2. ASSUME NEW k \in Active
        PROVE  Cardinality(Active) <= 1
    <3>1. Active = {k}
      BY DEF StoreInv, PoliciesOK
    <3> QED BY <3>1, FS_Singleton
  <2> QED BY <2>1, <2>2
<1> QED BY <1>1, StoreInvAlways, PTL

RetentionStep ==
  \A i \in DOMAIN receipts :
    LET row == receipts[i]
        next == receipts'[i]
    IN /\ i \in DOMAIN receipts'
       /\ next.until >= row.until
       /\ row.hold => next.hold
       /\ row.erased => next.erased
       /\ next.erased /\ ~row.erased => ~row.hold /\ row.until <= now

LEMMA RetentionKept ==
  ASSUME StoreInv, [Next]_vars
  PROVE  RetentionStep
<1>1. ASSUME UNCHANGED receipts
      PROVE  RetentionStep
  BY <1>1 DEF RetentionStep, StoreInv, ReceiptsOK, Row
<1>2. ASSUME NEW c \in Client, ReceiptInsert(c)
      PROVE  RetentionStep
  <2>1. ASSUME NEW i \in Id, ReceiptAccepted(i, Req(c)),
               receipts' = Put(receipts, i, NewReceipt(Req(c)))
        PROVE  RetentionStep
    <3>1. PICK put, row : row = NewReceipt(Req(c)) /\ put = Put(receipts, i, row)
      OBVIOUS
    <3>2. /\ AFunction(put, DOMAIN receipts \cup {i})
          /\ DOMAIN put = DOMAIN receipts \cup {i}
          /\ \A j \in DOMAIN receipts \ {i} : put[j] = receipts[j]
      BY <3>1, PutFacts
    <3>3. i \notin DOMAIN receipts
      BY <2>1 DEF ReceiptAccepted
    <3>4. \A j \in DOMAIN receipts : j \in DOMAIN receipts' /\ receipts'[j] = receipts[j]
      BY <2>1, <3>1, <3>2, <3>3
    <3> QED BY <3>4 DEF RetentionStep, StoreInv, ReceiptsOK, Row
  <2> QED BY <1>1, <1>2, <2>1 DEF ReceiptInsert
<1>3. ASSUME NEW c \in Client, RowCommit(c)
      PROVE  RetentionStep
  <2>1. PICK r, i, old, row :
          r = Req(c) /\ i = r.receipt /\ old = receipts[i] /\ row = copy[c][1]
    OBVIOUS
  <2>2. step[c] = "row_commit" /\ receipts' = [receipts EXCEPT ![i] = row]
    BY <1>3, <2>1 DEF RowCommit
  <2>3. r \in Request /\ r.op \in {"retain", "erase"} /\ CallerOK(r, call[c].reply, step[c], copy[c])
    BY <2>1, <2>2, AtStep DEF MutationSteps
  <2>4. /\ i \in DOMAIN receipts /\ old \in Row
        /\ MutationRefusal(old, r, now) = "none"
        /\ row = Mutated(old, r)
    BY <2>1, <2>2, <2>3 DEF CallerOK, StoreInv, ReceiptsOK
  <2>5. /\ Covers(row, RetentionOf(old))
        /\ row.erased /\ ~old.erased => r.op = "erase"
    BY <2>3, <2>4, MutatedRow
  <2>6. r.op = "erase" => ~old.hold /\ old.until <= now
    <3>1. old.until \in Nat /\ now \in Nat
      BY <2>4, MaxTimeAssumption DEF Row, StoreInv
    <3> QED BY <2>4, <3>1 DEF MutationRefusal, EraseRefusal
  <2>7. /\ DOMAIN receipts' = DOMAIN receipts
        /\ receipts'[i] = row
        /\ \A j \in DOMAIN receipts \ {i} : receipts'[j] = receipts[j]
    BY <2>2, <2>4 DEF StoreInv, ReceiptsOK, AFunction
  <2>8. row.until >= old.until /\ (old.hold => row.hold) /\ (old.erased => row.erased)
    BY <2>5 DEF Covers, RetentionOf
  <2>9. \A j \in DOMAIN receipts : receipts[j].until >= receipts[j].until
    BY DEF StoreInv, ReceiptsOK, Row
  <2> QED BY <2>1, <2>5, <2>6, <2>7, <2>8, <2>9 DEF RetentionStep
<1>4. CASE UNCHANGED vars
  BY <1>1, <1>4 DEF vars, tables
<1>5. ASSUME NEW c \in Client, Waiting(c)
      PROVE  RetentionStep
  BY <1>1, <1>5 DEF Waiting, KeyLock, RowForUpdate, PolicyUpdate, PolicyInsert, tables
<1>6. ASSUME NEW c \in Client, Running(c)
      PROVE  RetentionStep
  BY <1>1, <1>2, <1>3, <1>6 DEF Running, ReceiptLookup, ReceiptReplay, ReportLookup, ReportInsert,
     ReportReplay, PolicyLookup, PolicyScope, PolicyCommit, PolicyReplay, GatePolicy, GateReviews,
     tables
<1>7. ASSUME NEW c \in Client, Fail(c) \/ Return(c) \/ \E r \in Request : Ask(c, r)
      PROVE  RetentionStep
  BY <1>1, <1>7 DEF Fail, Return, Ask, tables
<1>8. CASE Tick
  BY <1>1, <1>8 DEF Tick, tables
<1> QED BY <1>4, <1>5, <1>6, <1>7, <1>8 DEF Next

\* Of concurrent retention updates and erasures none undoes another, and a
\* receipt is erased only while nothing in the table protects it.
THEOREM RetentionHoldsAlways == Spec => RetentionHolds
<1>1. StoreInv /\ [Next]_vars => [RetentionStep]_vars
  BY RetentionKept
<1>2. Spec => [][RetentionStep]_vars
  BY <1>1, StoreInvAlways, PTL DEF Spec
<1> QED BY <1>2 DEF RetentionHolds, RetentionStep
----------------------------------------------------------------------------
(* The store looks to its clients as the in-memory one: the step at which  *)
(* a call is answered is the one step the in-memory store takes for it.    *)

MemoryStep ==
  Memory!Next \/ (\E c \in Client : GateBySuperseded(c)) \/ UNCHANGED Memory!vars

\* What a step does to a call that it answers.
Replies(c, reply) == call' = [call EXCEPT ![c].reply = reply]

LEMMA UnansweredCall ==
  ASSUME StoreInv, NEW c \in Client, step[c] \notin {"idle", "answered"}
  PROVE  call[c].reply.status = "none"
<1>1. call[c].reply = NoReply
  BY AtStep DEF CallerOK
<1> QED BY <1>1 DEF NoReply, Refused

\* The tables only grow.
LEMMA NextGrows ==
  ASSUME StoreInv, [Next]_vars
  PROVE  Grow
<1>1. ASSUME UNCHANGED tables
      PROVE  Grow
  BY <1>1, StillGrow
<1>2. ASSUME NEW c \in Client, ReceiptInsert(c)
      PROVE  Grow
  <2>1. ASSUME NEW i \in Id, ReceiptAccepted(i, Req(c)),
               receipts' = Put(receipts, i, NewReceipt(Req(c))),
               UNCHANGED <<answers, policies, reports>>
        PROVE  Grow
    <3>1. PICK put, row : row = NewReceipt(Req(c)) /\ put = Put(receipts, i, row)
      OBVIOUS
    <3>2. /\ DOMAIN put = DOMAIN receipts \cup {i}
          /\ AFunction(put, DOMAIN receipts \cup {i})
          /\ \A j \in DOMAIN receipts \ {i} : put[j] = receipts[j]
      BY <3>1, PutFacts
    <3> QED BY <2>1, <3>1, <3>2 DEF Grow, ReceiptAccepted
  <2> QED BY <1>1, <1>2, <2>1 DEF ReceiptInsert, tables
<1>3. ASSUME NEW c \in Client, ReportInsert(c)
      PROVE  Grow
  <2>1. PICK r, i, row : r = Req(c) /\ i = r.id /\ row = [key |-> r.key, payload |-> r.payload]
    OBVIOUS
  <2>2. ASSUME ReportAccepted(r), reports' = Put(reports, i, row),
               UNCHANGED <<receipts, answers, policies>>
        PROVE  Grow
    <3>1. PICK put : put = Put(reports, i, row)
      OBVIOUS
    <3>2. /\ DOMAIN put = DOMAIN reports \cup {i}
          /\ AFunction(put, DOMAIN reports \cup {i})
          /\ put[i] = row
          /\ \A j \in DOMAIN reports \ {i} : put[j] = reports[j]
      BY <3>1, PutFacts
    <3> QED BY <2>1, <2>2, <3>1, <3>2 DEF Grow, ReportAccepted
  <2> QED BY <1>1, <1>3, <2>1, <2>2 DEF ReportInsert, tables
<1>4. ASSUME NEW c \in Client, RowCommit(c)
      PROVE  Grow
  <2>1. PICK r, i, k, row, answer :
          /\ r = Req(c) /\ i = r.receipt /\ k = MutationKey(r) /\ row = copy[c][1]
          /\ answer = [request |-> r, result |-> RetentionOf(row)]
    OBVIOUS
  <2>2. /\ step[c] = "row_commit" /\ receipts' = [receipts EXCEPT ![i] = row]
        /\ answers' = Put(answers, k, answer) /\ UNCHANGED <<policies, reports>>
    BY <1>4, <2>1 DEF RowCommit
  <2>3. /\ r \in Request /\ r.op \in {"retain", "erase"}
        /\ CallerOK(r, call[c].reply, step[c], copy[c])
    BY <2>1, <2>2, AtStep DEF MutationSteps
  <2>4. /\ i \in DOMAIN receipts /\ receipts[i] \in Row /\ k \notin DOMAIN answers
        /\ row = Mutated(receipts[i], r)
    BY <2>1, <2>2, <2>3 DEF CallerOK, StoreInv, ReceiptsOK
  <2>5. row.key = receipts[i].key /\ row.payload = receipts[i].payload
    BY <2>3, <2>4, MutatedRow
  <2>6. /\ DOMAIN receipts' = DOMAIN receipts
        /\ receipts'[i] = row
        /\ \A j \in DOMAIN receipts \ {i} : receipts'[j] = receipts[j]
    BY <2>2, <2>4 DEF StoreInv, ReceiptsOK, AFunction
  <2>7. PICK put : put = Put(answers, k, answer)
    OBVIOUS
  <2>8. /\ DOMAIN put = DOMAIN answers \cup {k}
        /\ AFunction(put, DOMAIN answers \cup {k})
        /\ put[k] = answer
        /\ \A x \in DOMAIN answers \ {k} : put[x] = answers[x]
    BY <2>7, PutFacts
  <2> QED BY <2>2, <2>4, <2>5, <2>6, <2>7, <2>8 DEF Grow
<1>5. ASSUME NEW c \in Client, PolicyCommit(c)
      PROVE  Grow
  <2>1. PICK r : r = Req(c)
    OBVIOUS
  <2>2. /\ step[c] = "policy_commit" /\ UNCHANGED <<receipts, answers, reports>>
        /\ policies' = Put(Superseding(r), r.key, NewPolicy(r))
    BY <1>5, <2>1 DEF PolicyCommit
  <2>3. r \in Request /\ r.op = "policy" /\ PreviousRead(r) /\ PolicyAccepted(r) /\ PoliciesOK
    BY <2>1, <2>2, AtStep DEF PolicySteps, CallerOK, StoreInv
  <2>4. /\ DOMAIN policies' = DOMAIN policies \cup {r.key}
        /\ \A k \in DOMAIN policies :
             /\ policies'[k].request = policies[k].request
             /\ policies'[k].version = policies[k].version
    BY <2>2, <2>3, PolicyCommitTable
  <2> QED BY <2>2, <2>4 DEF Grow
<1>6. CASE UNCHANGED vars
  BY <1>1, <1>6 DEF vars, tables
<1>7. ASSUME NEW c \in Client, Waiting(c)
      PROVE  Grow
  BY <1>1, <1>7 DEF Waiting, KeyLock, RowForUpdate, PolicyUpdate, PolicyInsert
<1>8. ASSUME NEW c \in Client, Running(c)
      PROVE  Grow
  BY <1>1, <1>2, <1>3, <1>4, <1>5, <1>8 DEF Running, ReceiptLookup, ReceiptReplay, ReportLookup,
     ReportReplay, PolicyLookup, PolicyScope, PolicyReplay, GatePolicy, GateReviews
<1>9. ASSUME NEW c \in Client, Fail(c) \/ Return(c) \/ \E r \in Request : Ask(c, r)
      PROVE  Grow
  BY <1>1, <1>9 DEF Fail, Return, Ask
<1>10. CASE Tick
  BY <1>1, <1>10 DEF Tick
<1> QED BY <1>6, <1>7, <1>8, <1>9, <1>10 DEF Next

----------------------------------------------------------------------------
(* The steps of the in-memory store, in terms of the tables.               *)

LEMMA MemoryStutters ==
  ASSUME UNCHANGED <<now, tables>>, UNCHANGED call
  PROVE  MemoryStep
<1>1. UNCHANGED ReportRows
  BY DEF tables, ReportRows, ReportsBy
<1> QED BY <1>1 DEF MemoryStep, Memory!vars, tables

LEMMA MemoryRecords ==
  ASSUME NEW c \in Client, NEW r, r = call[c].request, r.op = "record",
         call[c].reply.status = "none", UNCHANGED <<now, answers, policies, reports>>,
         \/ \E i \in ByKey(r.key) :
              Replies(c, Replayed(receipts[i], r.payload, i)) /\ UNCHANGED receipts
         \/ /\ ByKey(r.key) = {}
            /\ \E i \in Id \ DOMAIN receipts :
                 receipts' = Put(receipts, i, NewReceipt(r)) /\ Replies(c, Done(i))
  PROVE  MemoryStep
<1>1. UNCHANGED ReportRows
  BY DEF ReportRows, ReportsBy
<1>2. Memory!Asked(c, "record")
  BY DEF Memory!Asked
<1>3. ASSUME NEW reply, Replies(c, reply)
      PROVE  Memory!Answer(c, reply)
  BY <1>3 DEF Memory!Answer, Replies
<1>4. ASSUME NEW i \in ByKey(r.key), Replies(c, Replayed(receipts[i], r.payload, i)),
             UNCHANGED receipts
      PROVE  Memory!RecordReceipt(c)
  <2>1. i \in Memory!ByKey(r.key)
    BY DEF ByKey, Memory!ByKey
  <2>2. PICK reply : reply = Replayed(receipts[i], r.payload, i)
    OBVIOUS
  <2>3. reply = IF receipts[i].payload = r.payload THEN Memory!Done(i)
                ELSE Memory!Refused("conflict")
    BY <2>2 DEF Replayed, Done, Refused, Memory!Done, Memory!Refused
  <2>4. call' = [call EXCEPT ![c].reply = reply]
    BY <1>4, <2>2 DEF Replies
  <2>5. \E j \in Memory!ByKey(call[c].request.key) :
          /\ call' = [call EXCEPT ![c].reply =
                            IF receipts[j].payload = call[c].request.payload
                            THEN Memory!Done(j) ELSE Memory!Refused("conflict")]
          /\ UNCHANGED receipts
    BY <1>4, <2>1, <2>3, <2>4
  <2> QED BY <1>1, <1>2, <2>5 DEF Memory!RecordReceipt, Memory!Answer
<1>5. ASSUME ByKey(r.key) = {}, NEW i \in Id \ DOMAIN receipts,
             receipts' = Put(receipts, i, NewReceipt(r)), Replies(c, Done(i))
      PROVE  Memory!RecordReceipt(c)
  <2>1. Memory!Answer(c, Memory!Done(i))
    BY <1>3, <1>5 DEF Done, Memory!Done
  <2>2. receipts' = Memory!Put(receipts, i, Memory!NewReceipt(r))
    BY <1>5 DEF Put, Memory!Put, NewReceipt, Memory!NewReceipt, Unset, Memory!Unset
  <2>3. Memory!ByKey(r.key) = {}
    BY <1>5 DEF ByKey, Memory!ByKey
  <2> QED BY <1>1, <1>2, <2>1, <2>2, <2>3 DEF Memory!RecordReceipt
<1>6. Memory!RecordReceipt(c)
  BY <1>4, <1>5
<1> QED BY <1>6 DEF MemoryStep, Memory!Next

LEMMA MemoryFails ==
  ASSUME StoreInv, NEW c \in Client, step[c] # "idle",
         call[c].reply.status # "failed", UNCHANGED <<now, tables>>, Answer(c, Failed)
  PROVE  MemoryStep
<1>1. UNCHANGED ReportRows
  BY DEF tables, ReportRows, ReportsBy
<1>2. Memory!Answer(c, Memory!Failed)
  BY DEF Answer, Failed, Refused, Memory!Answer, Memory!Failed, Memory!Refused
<1>3. call[c].request.op # "none"
  BY AtStep, RequestAssumption DEF Req
<1>4. Memory!Fail(c)
  BY <1>1, <1>2, <1>3 DEF Memory!Fail, tables
<1> QED BY <1>4 DEF MemoryStep, Memory!Next

\* The reports by their key: no two of them share one.
LEMMA ReportRowsOf ==
  ASSUME ReportsOK
  PROVE  /\ DOMAIN ReportRows = {reports[i].key : i \in DOMAIN reports}
         /\ \A i \in DOMAIN reports :
              ReportRows[reports[i].key] = [id |-> i, payload |-> reports[i].payload]
<1>1. ASSUME NEW i \in DOMAIN reports
      PROVE  ReportRows[reports[i].key] = [id |-> i, payload |-> reports[i].payload]
  <2>1. PICK key, j : key = reports[i].key /\ j = CHOOSE l \in ReportsBy(key) : TRUE
    OBVIOUS
  <2>2. ReportsBy(key) = {i}
    BY <2>1 DEF ReportsOK, ReportsBy
  <2>3. j = i
    BY <2>1, <2>2
  <2>4. key \in {reports[l].key : l \in DOMAIN reports}
    BY <2>1
  <2>5. ReportRows[key] = [id |-> j, payload |-> reports[j].payload]
    BY <2>1, <2>4 DEF ReportRows
  <2> QED BY <2>1, <2>3, <2>5
<1> QED BY <1>1 DEF ReportRows

LEMMA ReportRowsNext ==
  (ReportsOK =>
     /\ DOMAIN ReportRows = {reports[i].key : i \in DOMAIN reports}
     /\ \A i \in DOMAIN reports :
          ReportRows[reports[i].key] = [id |-> i, payload |-> reports[i].payload])'
<1>1. ReportsOK =>
        /\ DOMAIN ReportRows = {reports[i].key : i \in DOMAIN reports}
        /\ \A i \in DOMAIN reports :
             ReportRows[reports[i].key] = [id |-> i, payload |-> reports[i].payload]
  BY ReportRowsOf
<1> QED BY <1>1, PTL

LEMMA ReportAdded ==
  ASSUME ReportsOK, ReportsOK', NEW i, NEW row, i \notin DOMAIN reports,
         reports' = Put(reports, i, row)
  PROVE  ReportRows' = Put(ReportRows, row.key, [id |-> i, payload |-> row.payload])
<1>1. PICK key, rows, new, answer :
        /\ key = row.key /\ rows = ReportRows /\ new = ReportRows'
        /\ answer = [id |-> i, payload |-> row.payload]
  OBVIOUS
<1>2. PICK put : put = Put(reports, i, row)
  OBVIOUS
<1>3. reports' = put
  BY <1>2
<1>4. /\ DOMAIN put = DOMAIN reports \cup {i}
      /\ AFunction(put, DOMAIN reports \cup {i})
      /\ put[i] = row
      /\ \A j \in DOMAIN reports \ {i} : put[j] = reports[j]
  BY <1>2, PutFacts
<1>5. /\ DOMAIN rows = {reports[j].key : j \in DOMAIN reports}
      /\ \A j \in DOMAIN reports : rows[reports[j].key] = [id |-> j, payload |-> reports[j].payload]
  BY <1>1, ReportRowsOf
<1>6. /\ DOMAIN new = {put[j].key : j \in DOMAIN put}
      /\ \A j \in DOMAIN put : new[put[j].key] = [id |-> j, payload |-> put[j].payload]
  BY <1>1, <1>3, ReportRowsNext
<1>7. DOMAIN new = DOMAIN rows \cup {key}
  BY <1>1, <1>4, <1>5, <1>6
<1>8. new[key] = answer
  BY <1>1, <1>4, <1>6
<1>9. ASSUME NEW x \in DOMAIN rows, x # key
      PROVE  new[x] = rows[x]
  <2>1. PICK j \in DOMAIN reports : x = reports[j].key
    BY <1>5
  <2>2. j \in DOMAIN put /\ put[j] = reports[j]
    BY <1>4
  <2>3. rows[x] = [id |-> j, payload |-> reports[j].payload]
    BY <1>5, <2>1
  <2>4. new[put[j].key] = [id |-> j, payload |-> put[j].payload]
    BY <1>6, <2>2
  <2> QED BY <2>1, <2>2, <2>3, <2>4
<1>10. new = [x \in DOMAIN new |-> new[x]]
  BY <1>1 DEF ReportRows
<1>11. new = Put(rows, key, answer)
  BY <1>7, <1>8, <1>9, <1>10 DEF Put
<1> QED BY <1>1, <1>11

LEMMA MemoryReconciles ==
  ASSUME NEW c \in Client, NEW r, r = call[c].request, r.op = "reconcile",
         call[c].reply.status = "none", UNCHANGED <<now, receipts, answers, policies>>,
         ReportsOK, ReportsOK',
         \/ \E i \in ReportsBy(r.key) :
              Replies(c, Replayed(reports[i], r.payload, i)) /\ UNCHANGED reports
         \/ /\ ReportAccepted(r)
            /\ reports' = Put(reports, r.id, [key |-> r.key, payload |-> r.payload])
            /\ Replies(c, Done(r.id))
  PROVE  MemoryStep
<1>1. Memory!Asked(c, "reconcile")
  BY DEF Memory!Asked
<1>2. /\ DOMAIN ReportRows = {reports[i].key : i \in DOMAIN reports}
      /\ \A i \in DOMAIN reports :
           ReportRows[reports[i].key] = [id |-> i, payload |-> reports[i].payload]
  BY ReportRowsOf
<1>3. ASSUME NEW i \in ReportsBy(r.key), Replies(c, Replayed(reports[i], r.payload, i)),
             UNCHANGED reports
      PROVE  Memory!RecordReconciliation(c)
  <2>1. PICK row : row = ReportRows[r.key]
    OBVIOUS
  <2>2. r.key \in DOMAIN ReportRows /\ row = [id |-> i, payload |-> reports[i].payload]
    BY <1>2, <2>1 DEF ReportsBy
  <2>3. row.id = i /\ row.payload = reports[i].payload
    BY <2>2
  <2>4. PICK reply : reply = Replayed(reports[i], r.payload, i)
    OBVIOUS
  <2>5. reply = IF row.payload = r.payload THEN Memory!Done(row.id)
                ELSE Memory!Refused("conflict")
    BY <2>3, <2>4 DEF Replayed, Done, Refused, Memory!Done, Memory!Refused
  <2>6. call' = [call EXCEPT ![c].reply = reply]
    BY <1>3, <2>4 DEF Replies
  <2>7. call[c].request.key \in DOMAIN ReportRows /\ UNCHANGED ReportRows
        /\ call' = [call EXCEPT ![c].reply =
                          IF ReportRows[call[c].request.key].payload
                             = call[c].request.payload
                          THEN Memory!Done(ReportRows[call[c].request.key].id)
                          ELSE Memory!Refused("conflict")]
    <3>1. UNCHANGED ReportRows
      BY <1>3 DEF ReportRows, ReportsBy
    <3> QED BY <2>1, <2>2, <2>5, <2>6, <3>1
  <2> QED BY <1>1, <2>7 DEF Memory!RecordReconciliation, Memory!Answer
<1>4. ASSUME ReportAccepted(r),
             reports' = Put(reports, r.id, [key |-> r.key, payload |-> r.payload]),
             Replies(c, Done(r.id))
      PROVE  Memory!RecordReconciliation(c)
  <2>1. PICK i, key, row, answer :
          /\ i = r.id /\ key = r.key /\ row = [key |-> key, payload |-> r.payload]
          /\ answer = [id |-> i, payload |-> r.payload]
    OBVIOUS
  <2>2. i \notin DOMAIN reports /\ key \notin DOMAIN ReportRows
    BY <1>2, <1>4, <2>1 DEF ReportAccepted, ReportsBy
  <2>3. ReportRows' = Put(ReportRows, key, answer)
    <3>1. row.key = key /\ row.payload = r.payload
      BY <2>1
    <3>2. ReportRows' = Put(ReportRows, row.key, [id |-> i, payload |-> row.payload])
      BY <1>4, <2>1, <2>2, ReportAdded
    <3> QED BY <2>1, <3>1, <3>2
  <2>4. call' = [call EXCEPT ![c].reply = Memory!Done(i)]
    BY <1>4, <2>1 DEF Replies, Done, Memory!Done
  <2>5. /\ call[c].request.key \notin DOMAIN ReportRows
        /\ ReportRows' = Memory!Put(ReportRows, call[c].request.key,
                           [id |-> call[c].request.id,
                            payload |-> call[c].request.payload])
        /\ call' = [call EXCEPT ![c].reply = Memory!Done(call[c].request.id)]
    BY <2>1, <2>2, <2>3, <2>4 DEF Put, Memory!Put
  <2> QED BY <1>1, <2>5 DEF Memory!RecordReconciliation, Memory!Answer
<1>5. Memory!RecordReconciliation(c)
  BY <1>3, <1>4
<1> QED BY <1>5 DEF MemoryStep, Memory!Next

\* Both stores go by the same rules.
LEMMA SameRules ==
  ASSUME NEW row, NEW r, NEW t
  PROVE  /\ Memory!MutationRefusal(row, r, t) = MutationRefusal(row, r, t)
         /\ Memory!Mutated(row, r) = Mutated(row, r)
         /\ Memory!RetentionOf(row) = RetentionOf(row)
<1>1. Memory!MutationRefusal(row, r, t) = MutationRefusal(row, r, t)
  BY DEF Memory!MutationRefusal, Memory!EraseRefusal, Memory!Shortens, Memory!Unset,
         MutationRefusal, EraseRefusal, Shortens, Unset
<1>2. Memory!Mutated(row, r) = Mutated(row, r)
  BY DEF Memory!Mutated, Memory!Retained, Memory!Larger, Mutated, Retained, Larger
<1>3. Memory!RetentionOf(row) = RetentionOf(row)
  BY DEF Memory!RetentionOf, RetentionOf
<1> QED BY <1>1, <1>2, <1>3

LEMMA SamePolicyRules ==
  ASSUME NEW table, NEW r
  PROVE  /\ Memory!PolicyRefusal(table, r) = PolicyRefusal(table, r)
         /\ Memory!NewPolicy(r) = NewPolicy(r)
BY DEF Memory!PolicyRefusal, Memory!NewPolicy, Memory!NoPolicy, PolicyRefusal, NewPolicy, NoPolicy

LEMMA SameGate ==
  ASSUME NEW policy, NEW reviews
  PROVE  Memory!GateStatus(policy, reviews) = GateStatus(policy, reviews)
<1>1. \A required : Memory!Standing(required, reviews) = Standing(required, reviews)
  BY DEF Memory!Standing, Standing
<1> QED BY <1>1 DEF Memory!GateStatus, GateStatus

LEMMA MemoryMutates ==
  ASSUME NEW c \in Client, NEW r, r = call[c].request, r.op \in {"retain", "erase"},
         call[c].reply.status = "none", UNCHANGED <<now, policies, reports>>,
         NEW k, k = <<r.op, r.key>>, NEW i, i = r.receipt, NEW reply, Replies(c, reply),
         \/ /\ k \in DOMAIN answers /\ UNCHANGED <<receipts, answers>>
            /\ reply = IF answers[k].request = r THEN Done(answers[k].result)
                       ELSE Refused("conflict")
         \/ /\ k \notin DOMAIN answers /\ i \notin DOMAIN receipts
            /\ reply = Refused("not_found") /\ UNCHANGED <<receipts, answers>>
         \/ /\ k \notin DOMAIN answers /\ i \in DOMAIN receipts
            /\ MutationRefusal(receipts[i], r, now) # "none"
            /\ reply = Refused(MutationRefusal(receipts[i], r, now))
            /\ UNCHANGED <<receipts, answers>>
         \/ /\ k \notin DOMAIN answers /\ i \in DOMAIN receipts
            /\ MutationRefusal(receipts[i], r, now) = "none"
            /\ \E row : /\ row = Mutated(receipts[i], r)
                        /\ receipts' = [receipts EXCEPT ![i] = row]
                        /\ answers' = Put(answers, k, [request |-> r, result |-> RetentionOf(row)])
                        /\ reply = Done(RetentionOf(row))
  PROVE  MemoryStep
<1> SUFFICES Memory!Mutate(c)
  BY DEF MemoryStep, Memory!Next
<1>1. UNCHANGED ReportRows
  BY DEF ReportRows, ReportsBy
<1>2. Memory!Asked(c, "retain") \/ Memory!Asked(c, "erase")
  BY DEF Memory!Asked
<1>3. call' = [call EXCEPT ![c].reply = reply]
  BY DEF Replies
<1>4. call[c].request = r /\ <<call[c].request.op, call[c].request.key>> = k
  OBVIOUS
<1>5. CASE /\ k \in DOMAIN answers /\ UNCHANGED <<receipts, answers>>
           /\ reply = IF answers[k].request = r THEN Done(answers[k].result)
                      ELSE Refused("conflict")
  <2>1. reply = IF answers[k].request = r THEN Memory!Done(answers[k].result)
                ELSE Memory!Refused("conflict")
    BY <1>5 DEF Done, Refused, Memory!Done, Memory!Refused
  <2>2. /\ <<call[c].request.op, call[c].request.key>> \in DOMAIN answers
        /\ call' = [call EXCEPT ![c].reply =
                          IF answers[<<call[c].request.op, call[c].request.key>>].request
                             = call[c].request
                          THEN Memory!Done(
                            answers[<<call[c].request.op, call[c].request.key>>].result)
                          ELSE Memory!Refused("conflict")]
    BY <1>3, <1>4, <1>5, <2>1
  <2> QED BY <1>1, <1>2, <1>5, <2>2 DEF Memory!Mutate, Memory!Answer
<1>6. CASE /\ k \notin DOMAIN answers /\ i \notin DOMAIN receipts
           /\ reply = Refused("not_found") /\ UNCHANGED <<receipts, answers>>
  <2>1. /\ <<call[c].request.op, call[c].request.key>> \notin DOMAIN answers
        /\ call[c].request.receipt \notin DOMAIN receipts
        /\ call' = [call EXCEPT ![c].reply = Memory!Refused("not_found")]
    BY <1>3, <1>4, <1>6 DEF Refused, Memory!Refused
  <2> QED BY <1>1, <1>2, <1>6, <2>1 DEF Memory!Mutate, Memory!Answer
<1>7. CASE /\ k \notin DOMAIN answers /\ i \in DOMAIN receipts
           /\ MutationRefusal(receipts[i], r, now) # "none"
           /\ reply = Refused(MutationRefusal(receipts[i], r, now))
           /\ UNCHANGED <<receipts, answers>>
  <2>1. PICK why : why = MutationRefusal(receipts[i], r, now)
    OBVIOUS
  <2>2. why = Memory!MutationRefusal(receipts[i], r, now)
    BY <2>1, SameRules
  <2>3. reply = Memory!Refused(why)
    BY <1>7, <2>1 DEF Refused, Memory!Refused
  <2>4. /\ <<call[c].request.op, call[c].request.key>> \notin DOMAIN answers
        /\ call[c].request.receipt \in DOMAIN receipts
        /\ Memory!MutationRefusal(receipts[call[c].request.receipt], call[c].request, now)
             # "none"
        /\ call' = [call EXCEPT ![c].reply = Memory!Refused(
             Memory!MutationRefusal(receipts[call[c].request.receipt],
                                    call[c].request, now))]
    BY <1>3, <1>4, <1>7, <2>1, <2>2, <2>3
  <2> QED BY <1>1, <1>2, <1>7, <2>4 DEF Memory!Mutate, Memory!Answer
<1>8. ASSUME k \notin DOMAIN answers, i \in DOMAIN receipts,
             MutationRefusal(receipts[i], r, now) = "none",
             NEW row, row = Mutated(receipts[i], r),
             receipts' = [receipts EXCEPT ![i] = row],
             answers' = Put(answers, k, [request |-> r, result |-> RetentionOf(row)]),
             reply = Done(RetentionOf(row))
      PROVE  Memory!Mutate(c)
  <2>1. /\ Memory!MutationRefusal(receipts[i], r, now) = "none"
        /\ row = Memory!Mutated(receipts[i], r)
        /\ RetentionOf(row) = Memory!RetentionOf(row)
    <3>1. PICK old, t : old = receipts[i] /\ t = now
      OBVIOUS
    <3>2. Memory!MutationRefusal(old, r, t) = MutationRefusal(old, r, t)
      BY SameRules
    <3>3. Memory!Mutated(old, r) = Mutated(old, r)
      BY SameRules
    <3>4. Memory!RetentionOf(row) = RetentionOf(row)
      BY SameRules
    <3> QED BY <1>8, <3>1, <3>2, <3>3, <3>4
  <2>2. reply = Memory!Done(Memory!RetentionOf(row))
    BY <1>8, <2>1 DEF Done, Memory!Done
  <2>3. answers' = Memory!Put(answers, k, [request |-> r, result |-> Memory!RetentionOf(row)])
    BY <1>8, <2>1 DEF Put, Memory!Put
  <2>4. /\ <<call[c].request.op, call[c].request.key>> \notin DOMAIN answers
        /\ call[c].request.receipt \in DOMAIN receipts
        /\ Memory!MutationRefusal(receipts[call[c].request.receipt], call[c].request, now)
             = "none"
    BY <1>4, <1>8, <2>1
  <2>5. row = Memory!Mutated(receipts[call[c].request.receipt], call[c].request)
        /\ receipts' = [receipts EXCEPT ![call[c].request.receipt] = row]
    BY <1>4, <1>8, <2>1
  <2>6. answers' = Memory!Put(answers, <<call[c].request.op, call[c].request.key>>,
                     [request |-> call[c].request, result |-> Memory!RetentionOf(row)])
        /\ call' = [call EXCEPT ![c].reply = Memory!Done(Memory!RetentionOf(row))]
    BY <1>3, <1>4, <2>2, <2>3
  <2> QED BY <1>1, <1>2, <2>4, <2>5, <2>6 DEF Memory!Mutate, Memory!Answer
<1> QED BY <1>5, <1>6, <1>7, <1>8

LEMMA MemoryCreates ==
  ASSUME NEW c \in Client, NEW r, r = call[c].request, r.op = "policy",
         call[c].reply.status = "none", UNCHANGED <<now, receipts, answers, reports>>,
         NEW key, key = r.key, NEW reply, Replies(c, reply),
         \/ /\ key \in DOMAIN policies /\ UNCHANGED policies
            /\ reply = PolicyReplayed(r)
         \/ /\ PolicyRefusal(policies, r) # "none"
            /\ key \in DOMAIN policies => policies[key].request # r
            /\ reply = Refused(PolicyRefusal(policies, r))
            /\ UNCHANGED policies
         \/ /\ key \notin DOMAIN policies /\ PolicyRefusal(policies, r) = "none"
            /\ policies' = Put(Superseding(r), key, NewPolicy(r))
            /\ reply = Done(key)
  PROVE  MemoryStep
<1> SUFFICES Memory!CreateReviewPolicy(c)
  BY DEF MemoryStep, Memory!Next
<1>1. UNCHANGED ReportRows
  BY DEF ReportRows, ReportsBy
<1>2. Memory!Asked(c, "policy")
  BY DEF Memory!Asked
<1>3. call' = [call EXCEPT ![c].reply = reply]
  BY DEF Replies
<1>4. call[c].request = r /\ call[c].request.key = key
  OBVIOUS
<1>5. Memory!PolicyRefusal(policies, r) = PolicyRefusal(policies, r)
      /\ Memory!NewPolicy(r) = NewPolicy(r)
  BY SamePolicyRules
<1>6. CASE key \in DOMAIN policies /\ UNCHANGED policies /\ reply = PolicyReplayed(r)
  <2>1. reply = IF policies[key].request = r THEN Memory!Done(key)
                ELSE Memory!Refused("conflict")
    BY <1>6 DEF PolicyReplayed, Done, Refused, Memory!Done, Memory!Refused
  <2>2. /\ call[c].request.key \in DOMAIN policies
        /\ call' = [call EXCEPT ![c].reply =
                          IF policies[call[c].request.key].request = call[c].request
                          THEN Memory!Done(call[c].request.key)
                          ELSE Memory!Refused("conflict")]
    BY <1>3, <1>4, <1>6, <2>1
  <2> QED BY <1>1, <1>2, <1>6, <2>2 DEF Memory!CreateReviewPolicy, Memory!Answer
<1>7. CASE /\ PolicyRefusal(policies, r) # "none"
           /\ key \in DOMAIN policies => policies[key].request # r
           /\ reply = Refused(PolicyRefusal(policies, r))
           /\ UNCHANGED policies
  <2>1. PICK why : why = PolicyRefusal(policies, r)
    OBVIOUS
  <2>2. reply = Memory!Refused(why) /\ why = Memory!PolicyRefusal(policies, r)
    BY <1>5, <1>7, <2>1 DEF Refused, Memory!Refused
  <2>3. /\ Memory!PolicyRefusal(policies, call[c].request) # "none"
        /\ call[c].request.key \in DOMAIN policies =>
             policies[call[c].request.key].request # call[c].request
        /\ call' = [call EXCEPT ![c].reply =
                          Memory!Refused(Memory!PolicyRefusal(policies, call[c].request))]
    BY <1>3, <1>4, <1>7, <2>1, <2>2
  <2> QED BY <1>1, <1>2, <1>7, <2>3 DEF Memory!CreateReviewPolicy, Memory!Answer
<1>8. CASE /\ key \notin DOMAIN policies /\ PolicyRefusal(policies, r) = "none"
           /\ policies' = Put(Superseding(r), key, NewPolicy(r))
           /\ reply = Done(key)
  <2>1. PICK old : old = Superseding(r)
    OBVIOUS
  <2>2. old = [k \in DOMAIN policies |->
                 IF k = call[c].request.supersedes
                 THEN [policies[k] EXCEPT !.status = "superseded"] ELSE policies[k]]
    BY <1>4, <2>1 DEF Superseding
  <2>3. policies' = Memory!Put(old, call[c].request.key,
                               Memory!NewPolicy(call[c].request))
    BY <1>4, <1>5, <1>8, <2>1 DEF Put, Memory!Put
  <2>4. /\ call[c].request.key \notin DOMAIN policies
        /\ Memory!PolicyRefusal(policies, call[c].request) = "none"
        /\ call' = [call EXCEPT ![c].reply = Memory!Done(call[c].request.key)]
    BY <1>3, <1>4, <1>5, <1>8 DEF Done, Memory!Done
  <2> QED BY <1>1, <1>2, <2>2, <2>3, <2>4 DEF Memory!CreateReviewPolicy, Memory!Answer
<1> QED BY <1>6, <1>7, <1>8

LEMMA MemoryGates ==
  ASSUME NEW c \in Client, NEW r, r = call[c].request, r.op = "gate",
         call[c].reply.status = "none", UNCHANGED <<now, tables>>,
         NEW reply, Replies(c, reply),
         \/ Active = {} /\ reply = Refused("not_found")
         \/ \E k \in Active :
              reply = Done([policy |-> k, gate |-> GateStatus(policies[k], Reviews(r.reviews))])
  PROVE  MemoryStep
<1> SUFFICES Memory!EvaluateReviewGate(c)
  BY DEF MemoryStep, Memory!Next
<1>1. UNCHANGED ReportRows
  BY DEF ReportRows, ReportsBy, tables
<1>2. Memory!Asked(c, "gate")
  BY DEF Memory!Asked
<1>3. call' = [call EXCEPT ![c].reply = reply]
  BY DEF Replies
<1>4. Memory!Active = Active
  BY DEF Memory!Active, Active
<1>5. CASE Active = {} /\ reply = Refused("not_found")
  <2>1. call' = [call EXCEPT ![c].reply = Memory!Refused("not_found")]
    BY <1>3, <1>5 DEF Refused, Memory!Refused
  <2> QED BY <1>1, <1>2, <1>4, <1>5, <2>1
        DEF Memory!EvaluateReviewGate, Memory!Answer, tables
<1>6. ASSUME NEW k \in Active,
             reply = Done([policy |-> k, gate |-> GateStatus(policies[k], Reviews(r.reviews))])
      PROVE  Memory!EvaluateReviewGate(c)
  <2>1. PICK policy, reviews : policy = policies[k] /\ reviews = Reviews(r.reviews)
    OBVIOUS
  <2>2. Memory!GateStatus(policy, reviews) = GateStatus(policy, reviews)
    BY SameGate
  <2>3. reviews = Memory!Reviews(call[c].request.reviews)
    BY <2>1 DEF Reviews, Memory!Reviews
  <2>4. reply = Memory!Done([policy |-> k, gate |-> Memory!GateStatus(policy, reviews)])
    BY <1>6, <2>1, <2>2 DEF Done, Memory!Done
  <2>5. call' = [call EXCEPT ![c].reply =
                       Memory!Done([policy |-> k, gate |-> Memory!GateStatus(policies[k],
                                      Memory!Reviews(call[c].request.reviews))])]
    BY <1>3, <2>1, <2>3, <2>4
  <2>6. k \in Memory!Active
    BY <1>4
  <2> QED BY <1>1, <1>2, <2>5, <2>6
        DEF Memory!EvaluateReviewGate, Memory!Answer, tables
<1> QED BY <1>5, <1>6

LEMMA MemoryReturns ==
  ASSUME NEW c \in Client, call[c].reply.status # "none", UNCHANGED <<now, tables>>,
         call' = [call EXCEPT ![c] = Idle]
  PROVE  MemoryStep
<1>1. UNCHANGED ReportRows
  BY DEF ReportRows, ReportsBy, tables
<1>2. Idle = Memory!Idle
  BY DEF Idle, NoReply, Refused, Memory!Idle, Memory!NoReply, Memory!Refused
<1>3. call' = [call EXCEPT ![c] = Memory!Idle]
  BY <1>2
<1>4. Memory!Return(c)
  BY <1>1, <1>3 DEF Memory!Return, tables
<1> QED BY <1>4 DEF MemoryStep, Memory!Next

LEMMA MemoryAsks ==
  ASSUME NEW c \in Client, NEW r \in Request, call[c].request.op = "none",
         UNCHANGED <<now, tables>>, call' = [call EXCEPT ![c].request = r]
  PROVE  MemoryStep
<1>1. UNCHANGED ReportRows
  BY DEF ReportRows, ReportsBy, tables
<1>2. Memory!Ask(c, r)
  BY <1>1 DEF Memory!Ask, tables
<1> QED BY <1>2 DEF MemoryStep, Memory!Next

----------------------------------------------------------------------------
(* Every step is one of the in-memory store, or hides from its clients.    *)

\* A call that goes to its next statement, or waits, is not seen to move.
LEMMA GoStutters ==
  ASSUME NEW c \in Client, NEW s, UNCHANGED <<now, tables>>, Go(c, s)
  PROVE  MemoryStep
BY MemoryStutters DEF Go

\* What the in-memory store finds of a call that is answered.
LEMMA Answering ==
  ASSUME StoreInv, NEW c \in Client, NEW reply, Answer(c, reply),
         step[c] \notin {"idle", "answered"}
  PROVE  /\ Req(c) = call[c].request /\ call[c].reply.status = "none"
         /\ Replies(c, reply)
BY UnansweredCall DEF Answer, Replies, Req

LEMMA ReceiptReplays ==
  ASSUME StoreInv, StoreInv', NEW c \in Client, step[c] \in ReceiptSteps,
         UNCHANGED <<now, tables>>,
         NEW i \in ByKey(Req(c).key), Answer(c, Replayed(receipts[i], Req(c).payload, i))
  PROVE  MemoryStep
<1>1. PICK r, reply : r = Req(c) /\ reply = Replayed(receipts[i], r.payload, i)
  OBVIOUS
<1>2. r.op = "record" /\ step[c] \notin {"idle", "answered"}
  BY <1>1, AtStep DEF ReceiptSteps
<1>3. Answer(c, reply)
  BY <1>1 DEF Answer
<1>4. r = call[c].request /\ call[c].reply.status = "none" /\ Replies(c, reply)
  BY <1>1, <1>2, <1>3, Answering, StillGrow
<1>5. Replies(c, Replayed(receipts[i], r.payload, i))
  BY <1>1, <1>4 DEF Replies
<1>6. UNCHANGED <<now, receipts, answers, policies, reports>>
  BY DEF tables
<1> QED BY <1>1, <1>2, <1>4, <1>5, <1>6, MemoryRecords

LEMMA ReceiptInsertActs ==
  ASSUME StoreInv, StoreInv', Grow, NEW c \in Client, step[c] = "receipt_insert",
         UNCHANGED <<now, answers, policies, reports>>,
         NEW i \in Id, ReceiptAccepted(i, Req(c)),
         receipts' = Put(receipts, i, NewReceipt(Req(c))), Answer(c, Done(i))
  PROVE  MemoryStep
<1>1. PICK r : r = Req(c)
  OBVIOUS
<1>2. r.op = "record"
  BY <1>1, AtStep DEF ReceiptSteps
<1>3. r = call[c].request /\ call[c].reply.status = "none" /\ Replies(c, Done(i))
  BY <1>1, Answering
<1>4. ByKey(r.key) = {} /\ i \in Id \ DOMAIN receipts
  BY <1>1 DEF ReceiptAccepted
<1>5. receipts' = Put(receipts, i, NewReceipt(r))
  BY <1>1
<1> QED BY <1>2, <1>3, <1>4, <1>5, MemoryRecords

LEMMA ReceiptActs ==
  ASSUME StoreInv, StoreInv', Grow, NEW c \in Client,
         ReceiptLookup(c) \/ ReceiptInsert(c) \/ ReceiptReplay(c)
  PROVE  MemoryStep
<1>1. {"receipt_insert", "receipt_replay"} \subseteq Step \ {"gate_reviews"}
  BY DEF Step, ReceiptSteps
<1>2. CASE ReceiptLookup(c)
  <2>1. step[c] \in ReceiptSteps /\ step[c] = "receipt_lookup" /\ UNCHANGED <<now, tables>>
    BY <1>2 DEF ReceiptLookup, ReceiptSteps
  <2> QED BY <1>1, <1>2, <2>1, ReceiptReplays, GoStutters DEF ReceiptLookup
<1>3. CASE ReceiptInsert(c)
  <2>1. step[c] = "receipt_insert" /\ UNCHANGED <<now, answers, policies, reports>>
    BY <1>3 DEF ReceiptInsert
  <2>2. CASE Go(c, "receipt_replay") /\ UNCHANGED receipts
    <3>1. UNCHANGED <<now, tables>>
      BY <2>1, <2>2 DEF tables
    <3> QED BY <1>1, <2>1, <2>2, <3>1, GoStutters
  <2> QED BY <1>3, <2>1, <2>2, ReceiptInsertActs DEF ReceiptInsert
<1>4. CASE ReceiptReplay(c)
  <2>1. step[c] \in ReceiptSteps /\ step[c] = "receipt_replay" /\ UNCHANGED <<now, tables>>
    BY <1>4 DEF ReceiptReplay, ReceiptSteps
  <2>2. call[c].reply.status # "failed"
    BY <2>1, AtStep DEF NoReply, Refused
  <2> QED BY <1>4, <2>1, <2>2, ReceiptReplays, MemoryFails DEF ReceiptReplay
<1> QED BY <1>2, <1>3, <1>4

LEMMA ReportReplays ==
  ASSUME StoreInv, StoreInv', NEW c \in Client, step[c] \in ReportSteps,
         UNCHANGED <<now, tables>>,
         NEW i \in ReportsBy(Req(c).key), Answer(c, Replayed(reports[i], Req(c).payload, i))
  PROVE  MemoryStep
<1>1. PICK r, reply : r = Req(c) /\ reply = Replayed(reports[i], r.payload, i)
  OBVIOUS
<1>2. r.op = "reconcile" /\ step[c] \notin {"idle", "answered"}
  BY <1>1, AtStep DEF ReportSteps
<1>3. Answer(c, reply)
  BY <1>1 DEF Answer
<1>4. r = call[c].request /\ call[c].reply.status = "none" /\ Replies(c, reply)
  BY <1>1, <1>2, <1>3, Answering, StillGrow
<1>5. Replies(c, Replayed(reports[i], r.payload, i))
  BY <1>1, <1>4 DEF Replies
<1>6. UNCHANGED <<now, receipts, answers, policies, reports>> /\ ReportsOK /\ ReportsOK'
  BY DEF tables, StoreInv
<1> QED BY <1>1, <1>2, <1>4, <1>5, <1>6, MemoryReconciles

LEMMA ReportActs ==
  ASSUME StoreInv, StoreInv', Grow, NEW c \in Client,
         ReportLookup(c) \/ ReportInsert(c) \/ ReportReplay(c)
  PROVE  MemoryStep
<1>1. {"report_insert", "report_replay"} \subseteq Step \ {"gate_reviews"}
  BY DEF Step, ReportSteps
<1>2. CASE ReportLookup(c)
  <2>1. step[c] \in ReportSteps /\ step[c] = "report_lookup" /\ UNCHANGED <<now, tables>>
    BY <1>2 DEF ReportLookup, ReportSteps
  <2> QED BY <1>1, <1>2, <2>1, ReportReplays, GoStutters DEF ReportLookup
<1>3. CASE ReportInsert(c)
  <2>1. step[c] = "report_insert" /\ UNCHANGED <<now, receipts, answers, policies>>
    BY <1>3 DEF ReportInsert
  <2>2. CASE Go(c, "report_replay") /\ UNCHANGED reports
    <3>1. UNCHANGED <<now, tables>>
      BY <2>1, <2>2 DEF tables
    <3> QED BY <1>1, <2>1, <2>2, <3>1, GoStutters
  <2>3. ASSUME ReportAccepted(Req(c)), Answer(c, Done(Req(c).id)),
               reports' = Put(reports, Req(c).id, [key |-> Req(c).key, payload |-> Req(c).payload])
        PROVE  MemoryStep
    <3>1. PICK r, reply : r = Req(c) /\ reply = Done(r.id)
      OBVIOUS
    <3>2. r.op = "reconcile"
      BY <2>1, <3>1, AtStep DEF ReportSteps
    <3>3. Answer(c, reply)
      BY <2>3, <3>1 DEF Answer
    <3>4. r = call[c].request /\ call[c].reply.status = "none" /\ Replies(c, Done(r.id))
      BY <2>1, <3>1, <3>3, Answering
    <3>5. ReportAccepted(r) /\ ReportsOK /\ ReportsOK'
      BY <2>3, <3>1 DEF ReportAccepted, StoreInv
    <3>6. reports' = Put(reports, r.id, [key |-> r.key, payload |-> r.payload])
      BY <2>3, <3>1
    <3> QED BY <2>1, <3>2, <3>4, <3>5, <3>6, MemoryReconciles
  <2> QED BY <1>3, <2>2, <2>3 DEF ReportInsert
<1>4. CASE ReportReplay(c)
  <2>1. step[c] \in ReportSteps /\ step[c] = "report_replay" /\ UNCHANGED <<now, tables>>
    BY <1>4 DEF ReportReplay, ReportSteps
  <2>2. call[c].reply.status # "failed"
    BY <2>1, AtStep DEF NoReply, Refused
  <2> QED BY <1>4, <2>1, <2>2, ReportReplays, MemoryFails DEF ReportReplay
<1> QED BY <1>2, <1>3, <1>4

LEMMA KeyLockActs ==
  ASSUME StoreInv, StoreInv', NEW c \in Client, KeyLock(c)
  PROVE  MemoryStep
<1>1. PICK r, k : r = Req(c) /\ k = MutationKey(r)
  OBVIOUS
<1>2. /\ step[c] = "key_lock" /\ UNCHANGED <<now, tables>>
      /\ \/ k \in DOMAIN answers
            /\ Answer(c, IF answers[k].request = r THEN Done(answers[k].result)
                         ELSE Refused("conflict"))
         \/ Go(c, "row")
  BY <1>1 DEF KeyLock
<1>3. r.op \in {"retain", "erase"}
  BY <1>1, <1>2, AtStep DEF MutationSteps
<1>4. CASE Go(c, "row")
  <2>1. "row" \in Step \ {"gate_reviews"}
    BY DEF Step, MutationSteps
  <2> QED BY <1>2, <1>4, <2>1, GoStutters
<1>5. ASSUME k \in DOMAIN answers,
             Answer(c, IF answers[k].request = r THEN Done(answers[k].result)
                       ELSE Refused("conflict"))
      PROVE  MemoryStep
  <2>1. PICK reply : reply = IF answers[k].request = r THEN Done(answers[k].result)
                             ELSE Refused("conflict")
    OBVIOUS
  <2>2. Answer(c, reply)
    BY <1>5, <2>1 DEF Answer
  <2>3. r = call[c].request /\ call[c].reply.status = "none" /\ Replies(c, reply)
    BY <1>1, <1>2, <2>2, Answering, StillGrow
  <2>4. UNCHANGED <<now, policies, reports>> /\ UNCHANGED <<receipts, answers>>
    BY <1>2 DEF tables
  <2>5. PICK i : i = r.receipt
    OBVIOUS
  <2>6. k = <<r.op, r.key>>
    BY <1>1 DEF MutationKey
  <2> QED BY <1>3, <1>5, <2>1, <2>3, <2>4, <2>5, <2>6, MemoryMutates
<1> QED BY <1>2, <1>4, <1>5

LEMMA RowForUpdateActs ==
  ASSUME StoreInv, StoreInv', NEW c \in Client, RowForUpdate(c)
  PROVE  MemoryStep
<1>1. PICK r, k, i, refusal :
        /\ r = Req(c) /\ k = MutationKey(r) /\ i = r.receipt
        /\ refusal = MutationRefusal(receipts[i], r, now)
  OBVIOUS
<1>2. /\ step[c] = "row" /\ UNCHANGED <<now, tables>>
      /\ \/ i \notin DOMAIN receipts /\ Answer(c, Refused("not_found"))
         \/ i \in DOMAIN receipts /\ refusal # "none" /\ Answer(c, Refused(refusal))
         \/ /\ copy' = [copy EXCEPT ![c] = <<Mutated(receipts[i], r)>>]
            /\ step' = [step EXCEPT ![c] = "row_commit"]
            /\ UNCHANGED call
  BY <1>1 DEF RowForUpdate
<1>3. r.op \in {"retain", "erase"} /\ k \notin DOMAIN answers
  BY <1>1, <1>2, AtStep DEF MutationSteps, CallerOK
<1>4. ASSUME NEW reply, Answer(c, reply)
      PROVE  r = call[c].request /\ call[c].reply.status = "none" /\ Replies(c, reply)
  BY <1>1, <1>2, <1>4, Answering, StillGrow
<1>5. UNCHANGED <<now, policies, reports>> /\ UNCHANGED <<receipts, answers>> /\ k = <<r.op, r.key>>
  BY <1>1, <1>2 DEF tables, MutationKey
<1>6. CASE i \notin DOMAIN receipts /\ Answer(c, Refused("not_found"))
  <2>1. PICK reply : reply = Refused("not_found")
    OBVIOUS
  <2>2. r = call[c].request /\ call[c].reply.status = "none" /\ Replies(c, reply)
    BY <1>4, <1>6, <2>1
  <2> QED BY <1>1, <1>3, <1>5, <1>6, <2>1, <2>2, MemoryMutates
<1>7. CASE i \in DOMAIN receipts /\ refusal # "none" /\ Answer(c, Refused(refusal))
  <2>1. PICK reply : reply = Refused(refusal)
    OBVIOUS
  <2>2. r = call[c].request /\ call[c].reply.status = "none" /\ Replies(c, reply)
    BY <1>4, <1>7, <2>1
  <2> QED BY <1>1, <1>3, <1>5, <1>7, <2>1, <2>2, MemoryMutates
<1>8. ASSUME copy' = [copy EXCEPT ![c] = <<Mutated(receipts[i], r)>>],
             step' = [step EXCEPT ![c] = "row_commit"], UNCHANGED call
      PROVE  MemoryStep
  BY <1>2, <1>8, MemoryStutters
<1> QED BY <1>2, <1>6, <1>7, <1>8

LEMMA RowCommitActs ==
  ASSUME StoreInv, StoreInv', Grow, NEW c \in Client, RowCommit(c)
  PROVE  MemoryStep
<1>1. PICK r, k, i, row :
        r = Req(c) /\ k = MutationKey(r) /\ i = r.receipt /\ row = copy[c][1]
  OBVIOUS
<1>2. PICK reply : reply = Done(RetentionOf(row))
  OBVIOUS
<1>3. /\ step[c] = "row_commit" /\ UNCHANGED <<now, policies, reports>>
      /\ receipts' = [receipts EXCEPT ![i] = row]
      /\ answers' = Put(answers, k, [request |-> r, result |-> RetentionOf(row)])
  BY <1>1 DEF RowCommit
<1>4. Answer(c, reply)
  BY <1>1, <1>2 DEF RowCommit, Answer
<1>5. /\ r.op \in {"retain", "erase"} /\ k \notin DOMAIN answers /\ i \in DOMAIN receipts
      /\ MutationRefusal(receipts[i], r, now) = "none" /\ copy[c] = <<Mutated(receipts[i], r)>>
  BY <1>1, <1>3, AtStep DEF MutationSteps, CallerOK
<1>6. row = Mutated(receipts[i], r)
  BY <1>1, <1>5
<1>7. r = call[c].request /\ call[c].reply.status = "none" /\ Replies(c, reply)
  BY <1>1, <1>3, <1>4, Answering
<1>8. k = <<r.op, r.key>>
  BY <1>1 DEF MutationKey
<1> QED BY <1>1, <1>2, <1>3, <1>5, <1>6, <1>7, <1>8, MemoryMutates

----------------------------------------------------------------------------
LEMMA PolicyAnswers ==
  ASSUME StoreInv, StoreInv', Grow, NEW c \in Client, step[c] \in PolicySteps,
         NEW reply, Answer(c, reply)
  PROVE  /\ Req(c) = call[c].request /\ call[c].reply.status = "none"
         /\ Replies(c, reply) /\ Req(c).op = "policy" /\ Req(c) \in Request
<1>1. step[c] \notin {"idle", "answered"}
  BY DEF PolicySteps
<1> QED BY <1>1, Answering, AtStep

LEMMA PolicyReplays ==
  ASSUME StoreInv, StoreInv', NEW c \in Client, step[c] \in PolicySteps,
         UNCHANGED <<now, tables>>,
         Req(c).key \in DOMAIN policies, Answer(c, PolicyReplayed(Req(c)))
  PROVE  MemoryStep
<1>1. PICK r, key, reply : r = Req(c) /\ key = r.key /\ reply = PolicyReplayed(r)
  OBVIOUS
<1>2. Answer(c, reply)
  BY <1>1 DEF Answer
<1>3. /\ r = call[c].request /\ call[c].reply.status = "none" /\ Replies(c, reply)
      /\ r.op = "policy"
  BY <1>1, <1>2, PolicyAnswers, StillGrow
<1>4. UNCHANGED <<now, receipts, answers, reports>> /\ UNCHANGED policies
  BY DEF tables
<1> QED BY <1>1, <1>3, <1>4, MemoryCreates

LEMMA PolicyRefuses ==
  ASSUME StoreInv, StoreInv', NEW c \in Client, step[c] \in PolicySteps,
         UNCHANGED <<now, tables>>, NEW why, why # "none", why = PolicyRefusal(policies, Req(c)),
         Req(c).key \in DOMAIN policies => policies[Req(c).key].request # Req(c),
         Answer(c, Refused(why))
  PROVE  MemoryStep
<1>1. PICK r, key, reply : r = Req(c) /\ key = r.key /\ reply = Refused(why)
  OBVIOUS
<1>2. Answer(c, reply)
  BY <1>1 DEF Answer
<1>3. /\ r = call[c].request /\ call[c].reply.status = "none" /\ Replies(c, reply)
      /\ r.op = "policy"
  BY <1>1, <1>2, PolicyAnswers, StillGrow
<1>4. UNCHANGED <<now, receipts, answers, reports>> /\ UNCHANGED policies
  BY DEF tables
<1> QED BY <1>1, <1>3, <1>4, MemoryCreates

LEMMA PolicyCommitActs ==
  ASSUME StoreInv, StoreInv', Grow, NEW c \in Client, PolicyCommit(c)
  PROVE  MemoryStep
<1>1. PICK r, key, reply : r = Req(c) /\ key = r.key /\ reply = Done(key)
  OBVIOUS
<1>2. /\ step[c] = "policy_commit" /\ UNCHANGED <<now, receipts, answers, reports>>
      /\ policies' = Put(Superseding(r), key, NewPolicy(r))
      /\ Answer(c, reply)
  BY <1>1 DEF PolicyCommit, Answer
<1>3. step[c] \in PolicySteps
  BY <1>2 DEF PolicySteps
<1>4. /\ r = call[c].request /\ call[c].reply.status = "none" /\ Replies(c, reply)
      /\ r.op = "policy" /\ r \in Request
  BY <1>1, <1>2, <1>3, PolicyAnswers
<1>5. PreviousRead(r) /\ PolicyAccepted(r)
  BY <1>1, <1>2, AtStep DEF CallerOK
<1>6. /\ key \notin DOMAIN policies
      /\ r.supersedes # NoPolicy => r.supersedes \in Active
      /\ r.supersedes = NoPolicy => DOMAIN policies = {}
  BY <1>1, <1>4, <1>5, Appointed DEF StoreInv
<1>7. PolicyRefusal(policies, r) = "none"
  BY <1>5, <1>6 DEF PolicyRefusal, PreviousRead, Active
<1> QED BY <1>1, <1>2, <1>4, <1>6, <1>7, MemoryCreates

LEMMA PolicyActs ==
  ASSUME StoreInv, StoreInv', Grow, NEW c \in Client,
         \/ PolicyLookup(c) \/ PolicyScope(c) \/ PolicyUpdate(c) \/ PolicyInsert(c)
         \/ PolicyCommit(c) \/ PolicyReplay(c)
  PROVE  MemoryStep
<1>1. /\ PolicySteps \subseteq Step \ {"gate_reviews"}
      /\ {"policy_lookup", "policy_scope", "policy_update", "policy_insert", "policy_commit",
          "policy_replay"} \subseteq PolicySteps
  BY DEF Step, PolicySteps
<1>2. CASE PolicyLookup(c)
  <2>1. step[c] = "policy_lookup" /\ UNCHANGED <<now, tables>>
    BY <1>2 DEF PolicyLookup
  <2> QED BY <1>1, <1>2, <2>1, PolicyReplays, GoStutters DEF PolicyLookup
<1>3. CASE PolicyScope(c)
  <2>1. PICK refusal : refusal = PolicyRefusal(policies, Req(c))
    OBVIOUS
  <2>2. /\ step[c] = "policy_scope" /\ UNCHANGED <<now, tables>>
        /\ \/ refusal = "not_found" /\ Answer(c, Refused(refusal))
           \/ Go(c, "policy_replay") \/ Go(c, "policy_insert") \/ Go(c, "policy_update")
    BY <1>3, <2>1 DEF PolicyScope
  <2>3. ASSUME refusal = "not_found", Answer(c, Refused(refusal))
        PROVE  MemoryStep
    <3>1. Req(c).supersedes # NoPolicy /\ Req(c).supersedes \notin DOMAIN policies
      BY <2>1, <2>3 DEF PolicyRefusal
    <3>2. Req(c).key \in DOMAIN policies => policies[Req(c).key].request # Req(c)
      BY <3>1 DEF StoreInv, PoliciesOK
    <3> QED BY <1>1, <2>1, <2>2, <2>3, <3>2, PolicyRefuses
  <2> QED BY <1>1, <2>2, <2>3, GoStutters
<1>4. CASE PolicyUpdate(c)
  <2>1. step[c] = "policy_update" /\ UNCHANGED <<now, tables>>
    BY <1>4 DEF PolicyUpdate
  <2> QED BY <1>1, <1>4, <2>1, GoStutters DEF PolicyUpdate
<1>5. CASE PolicyInsert(c)
  <2>1. step[c] = "policy_insert" /\ UNCHANGED <<now, tables>>
        /\ (Go(c, "policy_commit") \/ Go(c, "policy_replay"))
    BY <1>5 DEF PolicyInsert
  <2> QED BY <1>1, <2>1, GoStutters
<1>6. CASE PolicyReplay(c)
  <2>1. step[c] = "policy_replay" /\ UNCHANGED <<now, tables>>
    BY <1>6 DEF PolicyReplay
  <2>2. CASE Req(c).key \in DOMAIN policies
    BY <1>1, <1>6, <2>1, <2>2, PolicyReplays DEF PolicyReplay
  <2>3. CASE Req(c).key \notin DOMAIN policies
    <3>1. "invalid" = PolicyRefusal(policies, Req(c))
      BY <2>1, <2>3, AtStep DEF CallerOK
    <3>2. Answer(c, Refused("invalid"))
      BY <1>6, <2>3 DEF PolicyReplay
    <3> QED BY <1>1, <2>1, <2>3, <3>1, <3>2, PolicyRefuses
  <2> QED BY <2>2, <2>3
<1> QED BY <1>2, <1>3, <1>4, <1>5, <1>6, PolicyCommitActs

----------------------------------------------------------------------------
LEMMA GatePolicyActs ==
  ASSUME StoreInv, StoreInv', NEW c \in Client, GatePolicy(c)
  PROVE  MemoryStep
<1>1. PICK r : r = Req(c)
  OBVIOUS
<1>2. /\ step[c] = "gate_policy" /\ UNCHANGED <<now, tables>>
      /\ \/ Active = {} /\ Answer(c, Refused("not_found"))
         \/ \E k \in Active :
              /\ copy' = [copy EXCEPT ![c] = <<k>>]
              /\ step' = [step EXCEPT ![c] = "gate_reviews"]
              /\ UNCHANGED call
  BY DEF GatePolicy
<1>3. r.op = "gate" /\ call[c].reply = NoReply /\ Grow
  BY <1>1, <1>2, AtStep, StillGrow DEF GateSteps
<1>4. CASE Active = {} /\ Answer(c, Refused("not_found"))
  <2>1. PICK reply : reply = Refused("not_found")
    OBVIOUS
  <2>2. r = call[c].request /\ call[c].reply.status = "none" /\ Replies(c, reply)
    BY <1>1, <1>2, <1>3, <1>4, <2>1, Answering
  <2> QED BY <1>2, <1>3, <1>4, <2>1, <2>2, MemoryGates
<1> QED BY <1>2, <1>4, MemoryStutters

\* With its policy still in force the gate decides as the in-memory store does.
LEMMA GateReviewsActs ==
  ASSUME StoreInv, NEW c \in Client, GateReviews(c)
  PROVE  MemoryStep
<1>1. PICK r, k : r = Req(c) /\ k = copy[c][1]
  OBVIOUS
<1>2. PICK reply :
        reply = Done([policy |-> k, gate |-> GateStatus(policies[k], Reviews(r.reviews))])
  OBVIOUS
<1>3. reply = Gate(c)
  BY <1>1, <1>2 DEF Gate
<1>4. step[c] = "gate_reviews" /\ UNCHANGED <<now, tables>> /\ Answer(c, reply)
  BY <1>3 DEF GateReviews, Answer
<1>5. r = call[c].request /\ call[c].reply.status = "none" /\ Replies(c, reply)
  BY <1>1, <1>4, Answering
<1>6. CASE k \in Active
  <2>1. r.op = "gate"
    BY <1>1, <1>4, AtStep DEF GateSteps
  <2> QED BY <1>2, <1>4, <1>5, <1>6, <2>1, MemoryGates
<1>7. CASE k \notin Active
  <2>1. Memory!Answer(c, Gate(c))
    BY <1>3, <1>5 DEF Replies, Memory!Answer
  <2>2. GateBySuperseded(c)
    BY <1>1, <1>4, <1>7, <2>1 DEF GateBySuperseded
  <2> QED BY <2>2 DEF MemoryStep
<1> QED BY <1>6, <1>7

LEMMA AskActs ==
  ASSUME StoreInv, NEW c \in Client, NEW r \in Request, Ask(c, r)
  PROVE  MemoryStep
<1>1. step[c] = "idle" /\ UNCHANGED <<now, tables>> /\ call' = [call EXCEPT ![c].request = r]
  BY DEF Ask
<1>2. call[c].request.op = "none"
  BY <1>1, AtStep DEF CallerOK, Req
<1> QED BY <1>1, <1>2, MemoryAsks

LEMMA ReturnActs ==
  ASSUME StoreInv, NEW c \in Client, Return(c)
  PROVE  MemoryStep
<1>1. step[c] = "answered" /\ UNCHANGED <<now, tables>> /\ call' = [call EXCEPT ![c] = Idle]
  BY DEF Return
<1>2. call[c].reply.status # "none"
  BY <1>1, AtStep DEF CallerOK
<1> QED BY <1>1, <1>2, MemoryReturns

\* Time passes, or nothing happens.
LEMMA RestActs ==
  ASSUME StoreInv, Tick \/ UNCHANGED vars
  PROVE  MemoryStep
<1>1. /\ UNCHANGED <<tables, call, step, copy>> /\ (now' = now + 1 \/ now' = now)
  BY DEF Tick, vars
<1>2. call' = call
  BY <1>1
<1>3. UNCHANGED ReportRows
  BY <1>1 DEF ReportRows, ReportsBy, tables
<1>4. CASE now' = now
  BY <1>1, <1>2, <1>4, MemoryStutters
<1>5. CASE now' = now + 1
  <2>1. Memory!Tick
    BY <1>1, <1>2, <1>3, <1>5 DEF Memory!Tick, tables
  <2> QED BY <2>1 DEF MemoryStep, Memory!Next
<1> QED BY <1>1, <1>4, <1>5

LEMMA NextActs ==
  ASSUME StoreInv, [Next]_vars
  PROVE  MemoryStep
<1>1. StoreInv' /\ Grow
  BY StoreInvStep, NextGrows
<1>2. ASSUME NEW c \in Client, Waiting(c)
      PROVE  MemoryStep
  BY <1>1, <1>2, KeyLockActs, RowForUpdateActs, PolicyActs DEF Waiting
<1>3. ASSUME NEW c \in Client, Running(c)
      PROVE  MemoryStep
  BY <1>1, <1>3, ReceiptActs, ReportActs, RowCommitActs, PolicyActs, GatePolicyActs,
     GateReviewsActs DEF Running
<1>4. ASSUME NEW c \in Client, Fail(c)
      PROVE  MemoryStep
  BY <1>1, <1>4, MemoryFails DEF Fail
<1>5. ASSUME NEW c \in Client, Return(c) \/ \E r \in Request : Ask(c, r)
      PROVE  MemoryStep
  BY <1>1, <1>5, ReturnActs, AskActs
<1> QED BY <1>2, <1>3, <1>4, <1>5, RestActs DEF Next

\* A client cannot tell PostgresStore, whose calls interleave statement by
\* statement, from the in-memory store, where each call is one step, but by a gate
\* whose policy was superseded while it ran.
THEOREM StoreActsAsMemory == Spec => ActsAsMemory
<1>1. Init => Memory!Init
  <2> SUFFICES ASSUME Init
               PROVE  Memory!Init
    OBVIOUS
  <2>1. Idle = Memory!Idle
    BY DEF Idle, NoReply, Refused, Memory!Idle, Memory!NoReply, Memory!Refused
  <2>2. ReportRows = [k \in {} |-> 0]
    BY DEF Init, ReportRows
  <2> QED BY <2>1, <2>2 DEF Init, Memory!Init
<1>2. StoreInv /\ [Next]_vars =>
        [Memory!Next \/ \E c \in Client : GateBySuperseded(c)]_(Memory!vars)
  BY NextActs DEF MemoryStep
<1> QED BY <1>1, <1>2, StoreInvAlways, PTL DEF Spec, ActsAsMemory
=============================================================================
