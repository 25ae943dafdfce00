-------------------------- MODULE WorkspaceRenewal --------------------------
(***************************************************************************)
(* The monthly renewal of ONE Workspace: a combined debit of the Sub2API   *)
(* wallet, the renewal of the same CVM and CBS by Fabric, their readback,  *)
(* the extension of the entitlement and one receipt, or a refund; and the  *)
(* other half of the same operation, the suspension of a Workspace that    *)
(* nobody paid for.                                                        *)
(*                                                                         *)
(* The two halves share one operation row but progress separately: a       *)
(* worker pass first pushes the expiry, then the renewal, then the expiry  *)
(* again, then the expiry receipt, and a failure of one does not stop the  *)
(* next.  The customer's cancellation and Fabric's reconciliation run      *)
(* beside it without its lock, and an operator resolves what is in review. *)
(*                                                                         *)
(* Time is counted in half months: a Workspace paid through period k is    *)
(* due for renewal at 2k - 1 (monthlyRenewalLead) and expires at 2k.       *)
(* Provider deadlines are counted in periods.                              *)
(*                                                                         *)
(* Left out because no state reaches them: the status "cancelled" and the  *)
(* expiry phase "compute" (nothing writes them any more), a claimed        *)
(* operation with a charge, and the limit of sixteen iterations.           *)
(***************************************************************************)
EXTENDS Integers, FiniteSets

CONSTANTS
  LastPeriod,      \* bound: periods 1..LastPeriod can be renewed
  Process,         \* control-plane processes
  NoProcess,       \* the lease of an operation nobody has claimed
  Price,           \* totalUsdMicros of the Workspace
  InitialBalance,  \* Sub2API balance at the start
  MaxBalance,      \* bound on the balance (the wallet's own changes stop there)
  MaxRequests,     \* bound on the customer's cancellations
  MaxFaults,       \* bound on failed or lost answers, failed writes and crashes
  MaxExternal,     \* bound on top-ups, model usage and provider deletions
  MaxTrouble       \* bound on cancellations, failures and outside changes together

ASSUME PeriodAssumption == LastPeriod \in Nat \ {0}
ASSUME PriceAssumption == Price \in Nat \ {0}
ASSUME BalanceAssumption == InitialBalance \in Nat /\ MaxBalance \in Nat
ASSUME BoundAssumption ==
  MaxRequests \in Nat /\ MaxFaults \in Nat /\ MaxExternal \in Nat /\ MaxTrouble \in Nat
ASSUME NameAssumption == NoProcess \notin Process

VARIABLES
  now,        \* half months since the start
  workspace,  \* the Workspace row: period paid through, renewal intent, status
  operation,  \* the workspace.renewal row of each period, keyed by paidThrough
  expired,    \* periods whose lease deadline has passed
  handler,    \* what each process is doing under the lock "workspace-renewal"
  request,    \* the customer's cancellation between its reads and its write
  requests,   \* cancellations so far
  promised,   \* periods the customer was told would not be charged any more
  balance,    \* Sub2API: the account's balance
  charged,    \* Sub2API: periods whose redeem code was used
  refunded,   \* Sub2API: periods whose refund code was used
  provider,   \* CVM and CBS: what the provider and Fabric know of each
  rowGone,    \* resources whose control-plane row says external_deleted
  receipts,   \* Ledger: <<operation, type, period paid through>>
  inFlight,   \* requests that may still take effect after their caller left
  faults,     \* failures so far
  external    \* changes so far that neither Workspace nor operator made

walletVars == <<balance, charged, refunded>>
requestVars == <<request, requests, promised>>
outsideVars == <<provider, rowGone, receipts, inFlight>>
vars == <<now, workspace, operation, expired, handler, requestVars, walletVars,
          outsideVars, faults, external>>
-----------------------------------------------------------------------------
(* The state.                                                              *)

Period == 1..LastPeriod
Resource == {"compute", "storage"}

Status ==
  {"none", "claimed", "insufficient", "debit_pending", "debited",
   "provider_renewing", "verifying", "refund_pending", "refunded", "active",
   "manual_review", "expired_unpaid"}

Phase ==
  {"none", "preflight_compute", "preflight_storage", "debit", "provider_compute",
   "verify_compute", "provider_storage", "verify_storage", "entitlement",
   "receipt", "refund", "refund_receipt", "complete"}

ExpiryStatus == {"none", "past_due", "expired_unpaid"}
ExpiryPhase == {"none", "suspend", "financial", "receipt", "complete"}
Resolution ==
  {"none", "verify_compute", "verify_storage", "entitlement", "receipt", "completed"}

Unread == -1   \* PostChargeBalanceKnown is false

OperationType ==
  [status : Status, phase : Phase, lease : Process \cup {NoProcess},
   attempted : BOOLEAN, pre : Nat, confirmed : BOOLEAN, post : Nat \cup {Unread},
   refundAttempted : BOOLEAN, refundConfirmed : BOOLEAN, committed : BOOLEAN,
   expiry : ExpiryStatus, expiryPhase : ExpiryPhase, expiryPaid : Nat,
   resolution : Resolution]

Blank ==
  [status |-> "none", phase |-> "none", lease |-> NoProcess,
   attempted |-> FALSE, pre |-> 0, confirmed |-> FALSE, post |-> Unread,
   refundAttempted |-> FALSE, refundConfirmed |-> FALSE, committed |-> FALSE,
   expiry |-> "none", expiryPhase |-> "none", expiryPaid |-> 0,
   resolution |-> "none"]

WorkspaceType ==
  [paid : Nat, autoRenew : BOOLEAN, status : {"active", "expired_unpaid"},
   state : {"running", "suspended"}]

\* What a write of the operation does to the Workspace row in the same transaction.
Patch == {"none", "extend", "extend_running", "suspend", "suspend_cancel", "cancel"}

Stage == {"expire", "run", "expire_again", "receipt", "resolve"}

Step ==
  {"idle", "persist", "reload", "run", "history", "charge", "read_post",
   "verify_storage", "commit", "refund_history", "refund_call", "expiry",
   "expiry_receipt", "resolve"}

\* op is the local copy and base the version its next write compares with; kept and
\* keptBase are the pass's own two while runWorkspaceRenewal works on copies of them.
HandlerType ==
  [pc : Step, then : Step, stage : Stage, period : Period, op : OperationType,
   base : OperationType, patch : Patch, expired : BOOLEAN, pastDue : BOOLEAN,
   kept : OperationType, keptBase : OperationType]

Idle ==
  [pc |-> "idle", then |-> "idle", stage |-> "run", period |-> 1, op |-> Blank,
   base |-> Blank, patch |-> "none", expired |-> FALSE, pastDue |-> FALSE,
   kept |-> Blank, keptBase |-> Blank]

NoRequest == [paid |-> 0, autoRenew |-> FALSE, seen |-> <<>>, told |-> 0]

Init ==
  /\ now = 0
  /\ \E auto \in BOOLEAN :
       workspace = [paid |-> 1, autoRenew |-> auto, status |-> "active",
                    state |-> "running"]
  /\ operation = [k \in Period |-> Blank]
  /\ expired = {}
  /\ handler = [p \in Process |-> Idle]
  /\ request = NoRequest
  /\ requests = 0
  /\ promised = {}
  /\ balance = InitialBalance
  /\ charged = {}
  /\ refunded = {}
  \* deadline: the provider's; known: the one Fabric recorded; marked: Fabric's
  \* record carries a renewalResult; done: renewals Fabric recorded as succeeded.
  /\ provider = [r \in Resource |->
       [alive |-> TRUE, deadline |-> 1, known |-> 1, marked |-> FALSE, done |-> {}]]
  /\ rowGone = {}
  /\ receipts = {}
  /\ inFlight = {}
  /\ faults = 0
  /\ external = 0
-----------------------------------------------------------------------------
(* How a handler moves.                                                    *)

Sound == UNCHANGED faults
\* Bounds only: nothing of the code waits for Calm.
Calm == requests + faults + external < MaxTrouble
Fault == Calm /\ faults < MaxFaults /\ faults' = faults + 1

Goto(p, step) == handler' = [handler EXCEPT ![p].pc = step]
Return(p) == handler' = [handler EXCEPT ![p] = Idle]

\* Write the local copy, and the Workspace row with it, then go on.
SaveBoth(p, op, patch, next) ==
  handler' = [handler EXCEPT ![p].op = op, ![p].patch = patch,
                             ![p].pc = "persist", ![p].then = next]
Save(p, op, next) == SaveBoth(p, op, "none", next)

\* Write the local copy and end this stage of the pass.
Leave(p, op) == Save(p, op, "reload")

Retry(op) == [op EXCEPT !.lease = NoProcess]
Review(op) == [op EXCEPT !.status = "manual_review", !.lease = NoProcess]

Expired == now >= 2 * workspace.paid
RenewalDue == now >= 2 * workspace.paid - 1

Patched(patch) ==
  CASE patch = "extend" -> [workspace EXCEPT !.paid = @ + 1, !.status = "active"]
    [] patch = "extend_running" ->
         [workspace EXCEPT !.paid = @ + 1, !.status = "active", !.state = "running"]
    [] patch = "suspend" -> [workspace EXCEPT !.state = "suspended"]
    [] patch = "suspend_cancel" ->
         [workspace EXCEPT !.autoRenew = FALSE, !.status = "expired_unpaid",
                           !.state = "suspended"]
    [] patch = "cancel" ->
         [workspace EXCEPT !.autoRenew = FALSE, !.status = "expired_unpaid"]

\* The Workspace row is still the one the write is for.
ExpectedWorkspace(h) ==
  CASE h.patch = "none" -> TRUE
    [] h.patch = "extend" -> workspace.paid = h.period
    [] h.patch = "extend_running" ->
         workspace.paid = h.period /\ workspace.state = "suspended"
    [] OTHER -> workspace.paid = h.op.expiryPaid

AlwaysCurrent(h) == TRUE                         \* mutant: a write without the compare
Current(h) == operation[h.period] = h.base /\ ExpectedWorkspace(h)

\* PersistWorkspaceRenewal: operation and Workspace in one compare-and-swap; the
\* handler that loses it, or whose write fails, ends this stage of its pass; a
\* resolution ends altogether, unless only the receipt is missing.
Persist(p) ==
  LET h == handler[p] IN
  /\ h.pc = "persist"
  /\ \/ /\ Sound /\ Current(h)
        /\ operation' = [operation EXCEPT ![h.period] = h.op]
        /\ workspace' = IF h.patch = "none" THEN workspace ELSE Patched(h.patch)
        /\ IF h.then = "idle"
           THEN Return(p)
           ELSE handler' = [handler EXCEPT ![p].pc = h.then, ![p].then = "idle",
                                           ![p].base = h.op, ![p].patch = "none"]
     \/ /\ (Sound /\ ~Current(h)) \/ Fault
        /\ IF \/ h.then \in {"idle", "resolve"}
              \/ h.stage = "resolve" /\ operation[h.period].phase # "receipt"
           THEN Return(p) ELSE Goto(p, "reload")
        /\ UNCHANGED <<operation, workspace>>
  /\ UNCHANGED <<now, expired, requestVars, walletVars, outsideVars, external>>

\* The process crashes and restarts: the handler and its local copy are gone,
\* and its lease stays until the deadline.
Abort(p) ==
  /\ handler[p].pc # "idle"
  /\ Fault
  /\ Return(p)
  /\ UNCHANGED <<now, workspace, operation, expired, requestVars, walletVars,
                 outsideVars, external>>
-----------------------------------------------------------------------------
(* The worker's pass: processWorkspaceRenewal.                             *)

FinanciallyDone(op) ==
  \/ op.status \in {"active", "manual_review"}
  \/ op.status = "refunded" /\ op.phase = "complete"
  \/ op.status = "expired_unpaid" /\ (op.expiry = "expired_unpaid" \/ op.phase = "complete")

Terminal(op) ==
  FinanciallyDone(op) /\ (op.expiry = "none" \/ op.expiryPhase = "complete")

NeverCharged(op) == op.confirmed \/ op.committed   \* mutant: a sent charge is no obstacle
FinancialRecoveryRequired(op) ==
  op.status = "manual_review" \/ op.attempted \/ op.confirmed
    \/ op.refundAttempted \/ op.refundConfirmed \/ op.committed

\* The operation carries the expiry of the period the Workspace is in.
CoversExpiry(op) == op.expiry # "none" /\ op.expiryPaid = workspace.paid

\* The operations a pass works on: what is unfinished, or covers the expiry, and
\* otherwise the operation of the period the Workspace is paid through.
OnlyCurrent == {workspace.paid} \cap Period      \* mutant: unfinished work is not looked for
Selected ==
  LET open == {k \in Period : /\ operation[k] # Blank
                              /\ (~Terminal(operation[k]) \/ CoversExpiry(operation[k]))}
  IN IF open # {} THEN open ELSE {workspace.paid} \cap Period

\* A new operation, or the one found.
Found(k) ==
  IF operation[k] = Blank
  THEN [Blank EXCEPT !.status = "claimed", !.phase = "preflight_compute"]
  ELSE operation[k]

\* The first pass after the deadline opens the expiry half: what may have cost
\* the customer money is past due, anything else ends unpaid.
OpenExpiry(k, op) ==
  IF ~Expired \/ op.expiry # "none" THEN op
  ELSE IF FinancialRecoveryRequired(op)
       THEN [op EXCEPT !.expiry = IF k = workspace.paid THEN "past_due" ELSE "expired_unpaid",
                       !.expiryPhase = "suspend", !.expiryPaid = workspace.paid]
       ELSE [op EXCEPT !.status = "expired_unpaid", !.expiry = "expired_unpaid",
                       !.expiryPhase = "suspend", !.expiryPaid = workspace.paid]

Unfinished(k) ==                                 \* mutant: what is settled is left alone
  IF operation[k] = Blank
  THEN Expired \/ (workspace.autoRenew /\ RenewalDue)
  ELSE ~Terminal(operation[k])
ToDo(k) ==
  IF operation[k] = Blank
  THEN Expired \/ (workspace.autoRenew /\ RenewalDue)
  ELSE /\ Terminal(operation[k]) =>
            /\ Expired
            /\ ~(operation[k].expiry = "expired_unpaid" /\ operation[k].expiryPhase = "complete")
       /\ k = workspace.paid \/ operation[k].committed

LeaseReleased(k) == operation[k].lease = NoProcess   \* mutant: no deadline
LeaseFree(k) == operation[k].lease = NoProcess \/ k \in expired

\* ClaimWorkspaceRenewal compares the Workspace row, its intent and every
\* operation it read, so the pass starts from one state.
Claim(p, k) ==
  LET op == [OpenExpiry(k, Found(k)) EXCEPT !.lease = p] IN
  /\ handler[p].pc = "idle"
  /\ k \in Selected
  /\ ToDo(k)
  /\ LeaseFree(k)
  /\ operation' = [operation EXCEPT ![k] = op]
  /\ expired' = expired \ {k}
  /\ handler' = [handler EXCEPT ![p] =
       [Idle EXCEPT !.pc = IF Expired THEN "expiry" ELSE "run",
                    !.stage = IF Expired THEN "expire" ELSE "run",
                    !.period = k, !.op = op, !.base = op, !.expired = Expired,
                    !.pastDue = Expired /\ op.expiry = "past_due"]]
  /\ UNCHANGED <<now, workspace, requestVars, walletVars, outsideVars, faults, external>>

LeaseExpires(k) ==
  /\ operation[k].lease # NoProcess
  /\ k \notin expired
  /\ expired' = expired \cup {k}
  /\ UNCHANGED <<now, workspace, operation, handler, requestVars, walletVars,
                 outsideVars, faults, external>>

\* Begin a stage of an expired pass with this copy of the operation; the renewal
\* gets copies of its own.
Enter(p, stage, step, op, base) ==
  handler' = [handler EXCEPT ![p] =
    [Idle EXCEPT !.pc = step, !.stage = stage, !.period = handler[p].period,
                 !.op = op, !.base = base, !.expired = TRUE,
                 !.pastDue = handler[p].pastDue,
                 !.kept = IF stage = "run" THEN op ELSE Blank,
                 !.keptBase = IF stage = "run" THEN base ELSE Blank]]

\* The renewal unless the operation ended unpaid, the expiry once more if it was
\* past due, and the expiry receipt.
NextStage(p, op, base) ==
  LET renew == handler[p].stage = "expire" /\ op.status # "expired_unpaid"
      again == /\ ~renew /\ handler[p].stage # "expire_again"
               /\ handler[p].pastDue /\ op.expiry # "none"
  IN
  \/ renew /\ Enter(p, "run", "run", op, base)
  \/ again /\ Enter(p, "expire_again", "expiry", op, base)
  \/ ~renew /\ ~again /\ Enter(p, "receipt", "expiry_receipt", op, base)

\* Between two stages of an expired pass the row is read again.  A read that fails is
\* passed over: the pass goes on with the copy it has, unwritten changes and all.
\* A resolution whose read fails returns, which is Abort.
Reload(p) ==
  LET h == handler[p]
      row == operation[h.period]
      Finish(op) ==
        handler' = [handler EXCEPT ![p].op = op, ![p].base = row, ![p].patch = "none",
                                   ![p].pc = "persist", ![p].then = "idle"]
  IN
  /\ h.pc = "reload"
  /\ \/ /\ Sound /\ h.expired /\ h.stage \in {"expire", "run", "expire_again"}
        /\ NextStage(p, row, row)
     \/ /\ Fault /\ h.expired /\ h.stage = "run"
        /\ NextStage(p, h.kept, h.keptBase)
     \/ /\ Fault /\ h.expired /\ h.stage \in {"expire", "expire_again"}
        /\ NextStage(p, h.op, h.base)
     \/ /\ Sound
        /\ h.stage = "receipt" \/ (h.stage = "run" /\ ~h.expired)
        /\ Return(p)
     \/ /\ Sound /\ h.stage = "resolve"
        /\ \/ row.status = "active" /\ Finish([row EXCEPT !.resolution = "completed"])
           \/ /\ row.status # "active" /\ row.phase = "receipt"
              /\ Finish([row EXCEPT !.resolution = "receipt"])
           \/ row.status # "active" /\ row.phase # "receipt" /\ Return(p)
  /\ UNCHANGED <<now, workspace, operation, expired, requestVars, walletVars,
                 outsideVars, external>>
-----------------------------------------------------------------------------
(* Expiry: progressWorkspaceRenewalExpiry and the expiry receipt.          *)

\* A period that may have cost money is suspended without ending the
\* subscription; the rest ends it: the intent is disabled too.
Suspension(op) == IF op.expiry = "past_due" THEN "suspend" ELSE "suspend_cancel"

\* The copy says that the Workspace is suspended, or the subscription ended, before
\* the write that makes it so.  The Workspace row must be found first.
Expiry(p) ==
  LET op == handler[p].op IN
  /\ handler[p].pc = "expiry"
  /\ \/ /\ Sound /\ op.expiryPhase = "suspend"
        /\ SaveBoth(p, [op EXCEPT !.expiryPhase =
                          IF op.expiry = "past_due" THEN "financial" ELSE "receipt"],
                    Suspension(op), "expiry")
     \/ Fault /\ op.expiryPhase = "suspend" /\ Goto(p, "reload")
     \/ /\ Sound /\ op.expiryPhase = "financial"
        /\ op.status \in {"refunded", "expired_unpaid"}
        /\ SaveBoth(p, [op EXCEPT !.expiry = "expired_unpaid", !.expiryPhase = "receipt"],
                    "cancel", "reload")
     \/ /\ Sound /\ op.expiryPhase = "financial"
        /\ op.status \notin {"refunded", "expired_unpaid"}
        /\ Goto(p, "reload")
     \/ /\ Sound /\ op.expiryPhase \in {"none", "receipt", "complete"}
        /\ Goto(p, "reload")
  /\ UNCHANGED <<now, workspace, operation, expired, requestVars, walletVars,
                 outsideVars, external>>

\* Ledger keeps the first receipt of an idempotency key.
Recorded(k, type, paid) ==
  IF \E q \in 0..(LastPeriod + 1) : <<k, type, q>> \in receipts
  THEN receipts ELSE receipts \cup {<<k, type, paid>>}

\* Sent to Ledger: recorded and answered, or the answer or the request is lost.
Receipt(p, type, paid, recorded, failed) ==
  LET k == handler[p].period IN
  \/ Sound /\ receipts' = Recorded(k, type, paid) /\ Save(p, recorded, "reload")
  \/ Fault /\ receipts' \in {receipts, Recorded(k, type, paid)} /\ Save(p, failed, "reload")

ExpiryReceipt(p) ==
  LET op == handler[p].op IN
  /\ handler[p].pc = "expiry_receipt"
  /\ IF op.expiry = "expired_unpaid" /\ op.expiryPhase = "receipt"
     THEN Receipt(p, "expired", op.expiryPaid,
                  [op EXCEPT !.expiryPhase = "complete", !.lease = NoProcess], Retry(op))
     ELSE Sound /\ Return(p) /\ UNCHANGED receipts
  /\ UNCHANGED <<now, workspace, operation, expired, requestVars, walletVars,
                 provider, rowGone, inFlight, external>>
-----------------------------------------------------------------------------
(* Preflight and debit: runWorkspaceRenewal, debitWorkspaceRenewal.        *)

Running(p, status, phases) ==
  handler[p].pc = "run" /\ handler[p].op.status = status /\ handler[p].op.phase \in phases

\* Both control-plane rows must still describe the rented machine and disk; the
\* provider's capacity is then asked for one after the other.
Preflight(p) ==
  LET op == handler[p].op IN
  /\ Running(p, "claimed", {"preflight_compute", "preflight_storage"})
  /\ \/ Sound /\ rowGone # {} /\ Leave(p, Review(op))
     \/ Fault /\ rowGone = {} /\ Leave(p, Retry(op))
     \/ /\ Sound /\ rowGone = {}
        /\ Save(p, IF op.phase = "preflight_compute"
                   THEN [op EXCEPT !.phase = "preflight_storage"]
                   ELSE [op EXCEPT !.status = "debit_pending", !.phase = "debit"], "run")
  /\ UNCHANGED <<now, workspace, operation, expired, requestVars, walletVars,
                 outsideVars, external>>

\* The transitions of the loop that call nobody, and its ends.
Advance(p) ==
  LET op == handler[p].op IN
  /\ handler[p].pc = "run"
  /\ \/ /\ op.status = "insufficient"
        /\ Save(p, [op EXCEPT !.status = "debit_pending", !.phase = "debit"], "run")
     \/ /\ op.status = "debited"
        /\ Save(p, [op EXCEPT !.status = "provider_renewing",
                              !.phase = "provider_compute"], "run")
     \/ /\ \/ op.status \in {"active", "manual_review", "expired_unpaid"}
           \/ op.status = "refunded" /\ op.phase # "refund_receipt"
        /\ Goto(p, "reload")
  /\ UNCHANGED <<now, workspace, operation, expired, requestVars, walletVars,
                 outsideVars, faults, external>>

\* An attempted charge is looked up first; only a first one reads the balance.
Debit(p) ==
  LET op == handler[p].op IN
  /\ Running(p, "debit_pending", Phase)
  /\ \/ Sound /\ op.confirmed /\ Goto(p, "read_post")
     \/ Sound /\ ~op.confirmed /\ op.attempted /\ Goto(p, "history")
     \/ /\ Sound /\ ~op.confirmed /\ ~op.attempted /\ balance > Price
        /\ Save(p, [op EXCEPT !.pre = balance, !.attempted = TRUE], "charge")
     \/ /\ Sound /\ ~op.confirmed /\ ~op.attempted /\ balance <= Price
        /\ Leave(p, [op EXCEPT !.status = "insufficient", !.lease = NoProcess])
     \/ Fault /\ Leave(p, Retry(op))
  /\ UNCHANGED <<now, workspace, operation, expired, requestVars, walletVars,
                 outsideVars, external>>

\* The history shows the code, or the charge is sent again with the same one.
History(p) ==
  LET op == handler[p].op IN
  /\ handler[p].pc = "history"
  /\ \/ Sound /\ handler[p].period \in charged
              /\ Save(p, [op EXCEPT !.confirmed = TRUE], "read_post")
     \/ Sound /\ handler[p].period \notin charged /\ Goto(p, "charge")
     \/ Fault /\ Goto(p, "charge")
     \/ Fault /\ Leave(p, Review(op))
  /\ UNCHANGED <<now, workspace, operation, expired, requestVars, walletVars,
                 outsideVars, external>>

\* Sub2API uses a code once; a charge sent again is confirmed by the first use.
UseChargeCode(k) ==
  \/ k \in charged /\ UNCHANGED walletVars
  \/ /\ k \notin charged /\ balance >= Price
     /\ charged' = charged \cup {k}
     /\ balance' = balance - Price
     /\ UNCHANGED refunded

\* Sent, unanswered: it took effect, it never will, or it still may.
LostRequest(k, kind, effect, state) ==
  \/ effect /\ UNCHANGED inFlight
  \/ UNCHANGED <<state, inFlight>>
  \/ UNCHANGED state /\ inFlight' = inFlight \cup {<<k, kind>>}

Charge(p) ==
  LET op == handler[p].op
      k == handler[p].period
  IN
  /\ handler[p].pc = "charge"
  /\ \/ /\ Sound /\ UseChargeCode(k) /\ UNCHANGED inFlight
        /\ Save(p, [op EXCEPT !.confirmed = TRUE], "read_post")
     \/ /\ Sound /\ k \notin charged /\ balance < Price
        /\ UNCHANGED <<walletVars, inFlight>>
        /\ Leave(p, Review(op))
     \/ /\ Fault /\ LostRequest(k, "charge", UseChargeCode(k), walletVars)
        /\ Leave(p, Retry(op))
     \/ /\ Fault /\ UNCHANGED <<walletVars, inFlight>>
        /\ Leave(p, Review(op))
  /\ UNCHANGED <<now, workspace, operation, expired, requestVars, provider, rowGone,
                 receipts, external>>

ExactDelta(pre, post) == pre > Price /\ post = pre - Price

\* The balance after the charge must show exactly it before anything is renewed.
ReadPost(p) ==
  LET op == [handler[p].op EXCEPT !.post = balance] IN
  /\ handler[p].pc = "read_post"
  /\ \/ /\ Sound /\ ExactDelta(op.pre, balance)
        /\ Save(p, [op EXCEPT !.status = "debited", !.phase = "provider_compute"], "run")
     \/ Sound /\ ~ExactDelta(op.pre, balance) /\ Leave(p, Review(op))
     \/ Fault /\ Leave(p, Retry(handler[p].op))
  /\ UNCHANGED <<now, workspace, operation, expired, requestVars, walletVars,
                 outsideVars, external>>
-----------------------------------------------------------------------------
(* The provider: renewWorkspaceProvider and Fabric behind it.              *)

\* The provider renews when its deadline is the one Fabric recorded and otherwise
\* reports the later one it already has.
ProviderRenew(at) == IF at.deadline = at.known THEN at.deadline + 1 ELSE at.deadline

\* RenewComputeAllocation, RenewStorageVolume: a renewal recorded as succeeded is
\* replayed, and a deleted resource fails.
FabricRenew(r, k) ==
  LET at == provider[r] IN
  provider' =
    IF k \in at.done \/ ~at.alive THEN provider
    ELSE [provider EXCEPT ![r].deadline = ProviderRenew(at), ![r].known = ProviderRenew(at),
                          ![r].marked = TRUE, ![r].done = @ \cup {k}]

\* The provider renewed, and Fabric failed to read that back or to record it.
UnrecordedRenew(r, k) ==
  LET at == provider[r] IN
  /\ at.alive /\ k \notin at.done /\ at.deadline = at.known
  /\ provider' = [provider EXCEPT ![r].deadline = @ + 1]

RenewPhase(r) == IF r = "compute" THEN "provider_compute" ELSE "provider_storage"
VerifyPhase(r) == IF r = "compute" THEN "verify_compute" ELSE "verify_storage"

\* Whatever Fabric answers, the readback decides.
Renew(p, r) ==
  LET k == handler[p].period IN
  /\ Running(p, "provider_renewing", {RenewPhase(r)})
  /\ \/ Sound /\ FabricRenew(r, k) /\ UNCHANGED inFlight
     \/ Fault /\ LostRequest(k, r, UnrecordedRenew(r, k), provider)
  /\ Save(p, [handler[p].op EXCEPT !.phase = VerifyPhase(r)], "run")
  /\ UNCHANGED <<now, workspace, operation, expired, requestVars, walletVars,
                 rowGone, receipts, external>>

\* A Sync copies the provider's deadline into Fabric's record; a deleted resource
\* keeps its last one.
FabricSync(r) ==
  IF provider[r].alive
  THEN provider' = [provider EXCEPT ![r].known = provider[r].deadline]
  ELSE UNCHANGED provider

DeadlineUnread(r, k) == provider[r].alive        \* mutant: alive is enough
RenewalConfirmed(r, k) == provider[r].deadline > k /\ provider[r].marked

\* Sync, and what its answer says: the resource is gone, was renewed for the
\* period, or neither.  A failed Sync leaves what the control-plane row says.
Absent(r) ==
  \/ Sound /\ ~provider[r].alive /\ UNCHANGED provider
  \/ Fault /\ r \in rowGone /\ UNCHANGED provider
Confirmed(r, k) ==
  Sound /\ provider[r].alive /\ RenewalConfirmed(r, k) /\ FabricSync(r)
Unconfirmed(r, k) ==
  \/ Sound /\ provider[r].alive /\ ~RenewalConfirmed(r, k) /\ FabricSync(r)
  \/ Fault /\ r \notin rowGone /\ UNCHANGED provider

RefundFrom(op) ==
  [op EXCEPT !.status = "refund_pending", !.phase = "refund", !.refundAttempted = TRUE]

\* An absent machine is refunded; an absent disk behind a renewed machine, or
\* anything unconfirmed, is reviewed.
Verify(p, r) ==
  LET op == handler[p].op
      k == handler[p].period
  IN
  /\ Running(p, "provider_renewing", {VerifyPhase(r)})
  /\ \/ Absent(r) /\ r = "compute" /\ Save(p, RefundFrom(op), "refund_call")
     \/ /\ r = "compute" /\ Fault /\ ~provider[r].alive /\ UNCHANGED provider
        /\ Leave(p, Review(op))        \* there is no account to refund
     \/ Absent(r) /\ r = "storage" /\ Leave(p, Review(op))
     \/ Unconfirmed(r, k) /\ Leave(p, Review(op))
     \/ /\ Confirmed(r, k)
        /\ Save(p, IF r = "compute" THEN [op EXCEPT !.phase = "provider_storage"]
                   ELSE [op EXCEPT !.status = "verifying", !.phase = "entitlement"], "run")
  /\ UNCHANGED <<now, workspace, operation, expired, requestVars, walletVars,
                 rowGone, receipts, inFlight, external>>

\* Both are read back once more right before the entitlement is extended.
VerifyAgain(p, r) ==
  /\ \/ r = "compute" /\ Running(p, "verifying", Phase \ {"receipt"})
     \/ r = "storage" /\ handler[p].pc = "verify_storage"
  /\ \/ /\ Absent(r) \/ Unconfirmed(r, handler[p].period)
        /\ Leave(p, Review(handler[p].op))
     \/ /\ Confirmed(r, handler[p].period)
        /\ Goto(p, IF r = "compute" THEN "verify_storage" ELSE "commit")
  /\ UNCHANGED <<now, workspace, operation, expired, requestVars, walletVars,
                 rowGone, receipts, inFlight, external>>

\* commitWorkspaceRenewalEntitlement: a Workspace suspended while its renewal was
\* past due is started again and its expiry half closed.
Commit(p) ==
  LET op == handler[p].op
      k == handler[p].period
      pastDue == op.expiry = "past_due" /\ op.expiryPaid = k
      done == [op EXCEPT !.status = "verifying", !.phase = "receipt", !.committed = TRUE]
  IN
  /\ handler[p].pc = "commit"
  /\ \/ /\ \/ workspace.paid \notin {k, k + 1}
           \/ pastDue /\ workspace.state # "suspended"
        /\ Leave(p, Review(op))
     \/ /\ workspace.paid \in {k, k + 1} /\ ~pastDue
        /\ SaveBoth(p, done, "extend", "run")
     \/ /\ workspace.paid \in {k, k + 1} /\ pastDue /\ workspace.state = "suspended"
        /\ SaveBoth(p, [done EXCEPT !.expiry = "none", !.expiryPhase = "none",
                                    !.expiryPaid = 0], "extend_running", "run")
  /\ UNCHANGED <<now, workspace, operation, expired, requestVars, walletVars,
                 outsideVars, faults, external>>

RenewalReceipt(p) ==
  LET op == handler[p].op IN
  /\ Running(p, "verifying", {"receipt"})
  /\ Receipt(p, "renewed", handler[p].period + 1,
             [op EXCEPT !.status = "active", !.phase = "complete", !.lease = NoProcess],
             Retry(op))
  /\ UNCHANGED <<now, workspace, operation, expired, requestVars, walletVars,
                 provider, rowGone, inFlight, external>>
-----------------------------------------------------------------------------
(* Refund: refundWorkspaceRenewal and its receipt.                         *)

UseRefundCode(k) ==
  \/ k \in refunded /\ UNCHANGED walletVars
  \/ /\ k \notin refunded
     /\ refunded' = refunded \cup {k}
     /\ balance' = balance + Price
     /\ UNCHANGED charged

Refunded(op) ==
  [op EXCEPT !.status = "refunded", !.phase = "refund_receipt", !.refundConfirmed = TRUE]

\* A pass that finds a refund under way looks for it before it is sent again.
ResumeRefund(p) ==
  /\ Running(p, "refund_pending", Phase)
  /\ \/ Sound /\ Goto(p, "refund_history")
     \/ Fault /\ Leave(p, Review(handler[p].op))
  /\ UNCHANGED <<now, workspace, operation, expired, requestVars, walletVars,
                 outsideVars, external>>

RefundHistory(p) ==
  LET op == handler[p].op IN
  /\ handler[p].pc = "refund_history"
  /\ \/ Sound /\ handler[p].period \in refunded /\ Save(p, Refunded(op), "run")
     \/ Sound /\ handler[p].period \notin refunded /\ Goto(p, "refund_call")
     \/ Fault /\ Goto(p, "refund_call")
     \/ Fault /\ Leave(p, Review(op))
  /\ UNCHANGED <<now, workspace, operation, expired, requestVars, walletVars,
                 outsideVars, external>>

RefundCall(p) ==
  LET op == handler[p].op
      k == handler[p].period
  IN
  /\ handler[p].pc = "refund_call"
  /\ \/ /\ Sound /\ UseRefundCode(k) /\ UNCHANGED inFlight
        /\ Save(p, Refunded(op), "run")
     \/ /\ Fault /\ LostRequest(k, "refund", UseRefundCode(k), walletVars)
        /\ Leave(p, Retry(op))
  /\ UNCHANGED <<now, workspace, operation, expired, requestVars, provider, rowGone,
                 receipts, external>>

RefundReceipt(p) ==
  LET op == handler[p].op IN
  /\ Running(p, "refunded", {"refund_receipt"})
  /\ Receipt(p, "refunded", handler[p].period + 1,
             [op EXCEPT !.phase = "complete", !.lease = NoProcess], Retry(op))
  /\ UNCHANGED <<now, workspace, operation, expired, requestVars, walletVars,
                 provider, rowGone, inFlight, external>>
-----------------------------------------------------------------------------
(* The operator: resolveWorkspaceRenewalReview, "activate_charged".        *)

\* A review, or a resolution begun with the same key, whose charge is known.
Resolvable(op) ==
  /\ op.status = "manual_review" \/ (op.resolution # "none" /\ op.status \in {"verifying", "active"})
  /\ op.post # Unread /\ op.confirmed
  /\ op.resolution # "completed"
  /\ op.status = "manual_review" => op.resolution \in {"none", "verify_compute", "verify_storage"}

Resolve(p, k) ==
  LET row == operation[k]
      start == [Idle EXCEPT !.stage = "resolve", !.period = k, !.op = row, !.base = row]
  IN
  /\ handler[p].pc = "idle"
  /\ Resolvable(row)
  /\ handler' = [handler EXCEPT ![p] =
       IF row.resolution = "none"
       THEN [start EXCEPT !.op = [row EXCEPT !.resolution = "verify_compute"],
                          !.pc = "persist", !.then = "resolve"]
       ELSE IF row.status = "verifying" THEN [start EXCEPT !.pc = "run"]
       ELSE IF row.status = "active" THEN [start EXCEPT !.pc = "reload"]
       ELSE [start EXCEPT !.pc = "resolve"]]
  /\ UNCHANGED <<now, workspace, operation, expired, requestVars, walletVars,
                 outsideVars, faults, external>>

\* Both resources must be read back as renewed, the machine first; what was
\* verified stays so over repeated requests.
ResolveVerify(p, r) ==
  LET op == handler[p].op
      k == handler[p].period
  IN
  /\ handler[p].pc = "resolve"
  /\ op.resolution = VerifyPhase(r)
  /\ \/ (Absent(r) \/ Unconfirmed(r, k)) /\ Return(p)
     \/ /\ Confirmed(r, k)
        /\ IF r = "compute"
           THEN Save(p, [op EXCEPT !.resolution = "verify_storage"], "resolve")
           ELSE Save(p, [op EXCEPT !.status = "verifying", !.phase = "entitlement",
                                   !.resolution = "entitlement"], "run")
  /\ UNCHANGED <<now, workspace, operation, expired, requestVars, walletVars,
                 rowGone, receipts, inFlight, external>>
-----------------------------------------------------------------------------
(* The customer: POST /api/workspaces/{workspaceId}/auto-renew, which only *)
(* accepts the cancellation.                                               *)

\* currentWorkspaceRenewalOperation: this period's renewal is already under way.
ChargeUnderWay ==                                \* mutant: a claimed renewal is none
  /\ workspace.paid \in Period
  /\ operation[workspace.paid].status
       \notin {"none", "claimed", "active", "cancelled", "expired_unpaid", "refunded"}
RenewalUnderWay ==
  /\ workspace.paid \in Period
  /\ operation[workspace.paid].status
       \notin {"none", "active", "cancelled", "expired_unpaid", "refunded"}

\* Reads the Workspace and the operations, and works out from when on nothing
\* more is charged.
RequestCancel ==
  /\ request = NoRequest
  /\ Calm /\ requests < MaxRequests
  /\ ~Expired /\ workspace.status # "expired_unpaid"
  /\ requests' = requests + 1
  /\ request' = [paid |-> workspace.paid, autoRenew |-> workspace.autoRenew,
                 seen |-> operation,
                 told |-> IF RenewalUnderWay THEN workspace.paid + 1 ELSE workspace.paid]
  /\ UNCHANGED <<now, workspace, operation, expired, handler, promised, walletVars,
                 outsideVars, faults, external>>

SameWorkspace ==                                 \* mutant: operations are not compared
  request.paid = workspace.paid /\ request.autoRenew = workspace.autoRenew
Unchanged ==
  /\ request.paid = workspace.paid /\ request.autoRenew = workspace.autoRenew
  /\ request.seen = operation

\* ApplyWorkspaceRenewalIntent: a compare-and-swap on what was read; a request
\* that loses it starts over, or is answered with a conflict.
ApplyCancel ==
  /\ request # NoRequest
  /\ request' = NoRequest
  /\ IF Unchanged
     THEN /\ workspace' = [workspace EXCEPT !.autoRenew = FALSE]
          /\ promised' = promised \cup {request.told}
     ELSE UNCHANGED <<workspace, promised>>
  /\ UNCHANGED <<now, operation, expired, handler, requests, walletVars, outsideVars,
                 faults, external>>
-----------------------------------------------------------------------------
(* Everything else that moves.                                             *)

Tick ==
  /\ now < 2 * LastPeriod
  /\ now' = now + 1
  /\ UNCHANGED <<workspace, operation, expired, handler, requestVars, walletVars,
                 outsideVars, faults, external>>

LateRequest(k, kind) ==
  /\ <<k, kind>> \in inFlight
  /\ inFlight' = inFlight \ {<<k, kind>>}
  /\ CASE kind = "charge" -> UseChargeCode(k) /\ UNCHANGED provider
       [] kind = "refund" -> UseRefundCode(k) /\ UNCHANGED provider
       [] OTHER -> FabricRenew(kind, k) /\ UNCHANGED walletVars
  /\ UNCHANGED <<now, workspace, operation, expired, handler, requestVars, rowGone,
                 receipts, faults, external>>

\* The provider reconcile worker syncs a resource and saves what it learns.
Reconcile(r) ==
  /\ FabricSync(r)
  /\ rowGone' = IF provider[r].alive THEN rowGone ELSE rowGone \cup {r}
  /\ UNCHANGED <<now, workspace, operation, expired, handler, requestVars, walletVars,
                 receipts, inFlight, faults, external>>

Outside == Calm /\ external < MaxExternal /\ external' = external + 1

\* The provider reclaims a resource.
ProviderDeletes(r) ==
  /\ Outside
  /\ provider[r].alive
  /\ provider' = [provider EXCEPT ![r].alive = FALSE]
  /\ UNCHANGED <<now, workspace, operation, expired, handler, requestVars, walletVars,
                 rowGone, receipts, inFlight, faults>>

\* A top-up, or the customer's model usage.
BalanceMoves ==
  /\ Outside
  /\ balance' \in (0..MaxBalance) \ {balance}
  /\ UNCHANGED <<now, workspace, operation, expired, handler, requestVars, charged,
                 refunded, outsideVars, faults>>

HandlerStep(p) ==
  \/ Persist(p) \/ Reload(p) \/ Expiry(p) \/ ExpiryReceipt(p) \/ Preflight(p)
  \/ Advance(p) \/ Debit(p) \/ History(p) \/ Charge(p) \/ ReadPost(p)
  \/ \E r \in Resource : Renew(p, r) \/ Verify(p, r) \/ VerifyAgain(p, r) \/ ResolveVerify(p, r)
  \/ Commit(p) \/ RenewalReceipt(p) \/ ResumeRefund(p) \/ RefundHistory(p)
  \/ RefundCall(p) \/ RefundReceipt(p)

Environment ==
  \/ \E k \in Period : LeaseExpires(k)
  \/ \E k \in Period, kind \in {"charge", "refund"} \cup Resource : LateRequest(k, kind)
  \/ \E r \in Resource : Reconcile(r) \/ ProviderDeletes(r)
  \/ BalanceMoves \/ Tick

Next ==
  \/ \E p \in Process : HandlerStep(p) \/ Abort(p)
  \/ \E p \in Process, k \in Period : Claim(p, k) \/ Resolve(p, k)
  \/ RequestCancel \/ ApplyCancel
  \/ Environment

Spec == Init /\ [][Next]_vars

\* The worker passes over every Workspace each interval and its calls end; a
\* lease ends at its deadline.  The operator, the customer, failures, late
\* answers and the passing of a half month are free.
Fairness ==
  /\ \A p \in Process : WF_vars(HandlerStep(p))
  /\ \A p \in Process : SF_vars(\E k \in Period : Claim(p, k))
  /\ \A k \in Period : WF_vars(LeaseExpires(k))

FairSpec == Spec /\ Fairness
-----------------------------------------------------------------------------
(* Properties.                                                             *)

\* Every variable keeps its type: balances and deadlines are whole numbers, a row
\* only holds what the code writes, receipts name an operation and a period.
TypeOK ==
  /\ now \in Nat
  /\ workspace \in WorkspaceType
  /\ operation \in [Period -> OperationType]
  /\ expired \subseteq Period
  /\ handler \in [Process -> HandlerType]
  /\ request.told \in Nat /\ requests \in 0..MaxRequests
  /\ promised \subseteq 1..(LastPeriod + 1)
  /\ balance \in Nat
  /\ charged \subseteq Period /\ refunded \subseteq Period
  /\ provider \in [Resource -> [alive : BOOLEAN, deadline : Nat, known : Nat,
                                marked : BOOLEAN, done : SUBSET Period]]
  /\ rowGone \subseteq Resource
  /\ receipts \subseteq
       Period \X {"renewed", "refunded", "expired"} \X (0..(LastPeriod + 1))
  /\ inFlight \subseteq Period \X ({"charge", "refund"} \cup Resource)
  /\ faults \in 0..MaxFaults /\ external \in 0..MaxExternal

\* Periods the customer has paid for and not got back.
Paid == charged \ refunded

\* What the answer to a cancellation said: from the period it names on nothing is
\* charged, whatever renewal the worker was claiming meanwhile
\* (planWorkspaceRenewalIntent, ApplyWorkspaceRenewalIntent).
PromiseKept == promised \cap Paid = {}

\* A Workspace is ended as unpaid only when its period costs nothing: no charge
\* of it stands and none can still arrive (processWorkspaceRenewal's choice
\* between past_due and expired_unpaid, and the financial phase of the expiry).
EndedOnlyUnpaid ==
  workspace.status = "expired_unpaid" =>
    /\ workspace.paid \notin Paid
    /\ <<workspace.paid, "charge">> \in inFlight => workspace.paid \in charged
    /\ ~workspace.autoRenew

\* The entitlement reaches only as far as the customer has paid for and the
\* provider keeps both resources (commitWorkspaceRenewalEntitlement).
EntitlementBacked ==
  \A k \in Period : k < workspace.paid =>
    /\ k \in Paid /\ operation[k].committed
    /\ \A r \in Resource : provider[r].deadline > k

\* A renewal is refunded only when its machine is gone, its period was not granted
\* and its disk neither was renewed for it nor still can be (verify_compute's
\* absent branch).
RefundOnlyWithoutMachine ==
  \A k \in refunded :
    /\ k \in charged
    /\ ~provider["compute"].alive
    /\ workspace.paid = k
    /\ k \notin provider["storage"].done /\ <<k, "storage">> \notin inFlight

\* A receipt tells what happened: a renewal receipt of a granted period, a refund
\* receipt of a refunded one and never both, an expiry receipt of the period the
\* Workspace stays in, over and with no charge that stands or can still arrive; one
\* receipt of a type for an operation.
ReceiptsTrue ==
  \A e \in receipts :
    /\ e[2] = "renewed" => workspace.paid > e[1] /\ e[1] \notin refunded
    /\ e[2] = "refunded" => e[1] \in refunded
    /\ e[2] = "expired" =>
         /\ workspace.paid = e[3] /\ now >= 2 * e[3] /\ e[3] \notin Paid
         /\ <<e[3], "charge">> \in inFlight => e[3] \in charged
    /\ \A f \in receipts : f[1] = e[1] /\ f[2] = e[2] => f = e

\* Access is denied only after the paid period is over, and a renewal that comes
\* through late gives it back (the fields a past-due commit writes).
SuspendedOnlyExpired ==
  workspace.state = "suspended" => now >= 2 * workspace.paid

\* The worker can always go on: at most one operation is unfinished, and it is of
\* the current period unless its entitlement is granted.  An older one would be
\* refused as an idempotency conflict for ever and block every later renewal.
NoStrandedRenewal ==
  \A k \in Period : operation[k] # Blank /\ ~Terminal(operation[k]) =>
    /\ k = workspace.paid \/ operation[k].committed
    /\ \A j \in Period : operation[j] # Blank /\ ~Terminal(operation[j]) => j = k

\* No write loses what a row says about the wallet: the attempt, the balance
\* before it, the confirmations and the grant (PersistWorkspaceRenewal's compare).
Preserves(old, new) ==
  /\ old.attempted => new.attempted /\ new.pre = old.pre
  /\ old.confirmed => new.confirmed
  /\ old.refundAttempted => new.refundAttempted
  /\ old.refundConfirmed => new.refundConfirmed
  /\ old.committed => new.committed

\* Once renewed, refunded or ended, a period's operation keeps that outcome, and
\* at every time what it says about the wallet: later passes, expiries and
\* resolutions only add to it.
OutcomeIsFinal ==
  [][\A k \in Period :
       /\ Preserves(operation[k], operation'[k])
       /\ operation[k].status \in {"active", "refunded", "expired_unpaid"} =>
            operation'[k].status = operation[k].status]_vars

-----------------------------------------------------------------------------
(* The inductive invariant.                                                *)

\* What a row, or a handler's copy of it, says of the money.
MoneyFits(op) ==
  /\ op.status = "none" => op = Blank
  /\ op.status \in {"none", "claimed", "insufficient", "expired_unpaid"} => ~op.attempted
  /\ op.status \in {"debited", "provider_renewing", "verifying", "refund_pending",
                    "refunded", "active"} => op.confirmed
  /\ op.confirmed => op.attempted
  /\ op.committed \/ op.refundAttempted => op.confirmed
  /\ op.refundConfirmed => op.refundAttempted
  /\ op.status = "refund_pending" => op.refundAttempted
  /\ op.status = "refunded" => op.refundConfirmed

\* What was asked for the disk, or granted, is past any refund.
PastRefund(op) ==
  op.status = "active"
    \/ op.phase \in {"provider_storage", "verify_storage", "entitlement", "receipt"}

PhaseFits(op) ==
  /\ op.committed <=> op.status = "active" \/ op.phase = "receipt"
  /\ op.phase = "receipt" => op.status = "verifying"
  /\ op.phase = "entitlement" => op.status \in {"verifying", "manual_review"}
  /\ op.phase \in {"provider_storage", "verify_storage"} =>
       op.status \in {"provider_renewing", "manual_review"}
  /\ op.resolution # "none" => op.status \in {"manual_review", "verifying", "active"}
  /\ op.refundAttempted =>
       /\ op.status \in {"refund_pending", "refunded", "manual_review"}
       /\ ~PastRefund(op)
       /\ op.resolution \in {"none", "verify_compute"}

ExpiryFits(k, op) ==
  /\ op.expiry = "none" <=> op.expiryPhase = "none"
  /\ op.expiry = "past_due" =>
       /\ op.expiryPhase \in {"suspend", "financial"}
       /\ op.expiryPaid = k /\ ~op.committed
  /\ op.expiry = "expired_unpaid" =>
       /\ op.expiryPhase \in {"suspend", "receipt", "complete"}
       /\ op.status \in {"expired_unpaid", "refunded"} \/ op.committed
  /\ op.status = "expired_unpaid" => op.expiry = "expired_unpaid"
  /\ op.expiry # "none" => now >= 2 * op.expiryPaid /\ op.expiryPaid \in 1..(LastPeriod + 1)

\* What it confirms is so.
IsTrue(k, op) ==
  /\ op.confirmed => k \in charged
  /\ op.refundConfirmed => k \in refunded
  /\ op.refundAttempted => ~provider["compute"].alive

CopyFits(k, op) == MoneyFits(op) /\ PhaseFits(op) /\ ExpiryFits(k, op) /\ IsTrue(k, op)

\* One version of a row and a later one.
Follows(old, new) ==
  /\ new.status # "none"
  /\ Preserves(old, new)
  /\ old.status \in {"active", "refunded", "expired_unpaid"} => new.status = old.status
  /\ PastRefund(old) => PastRefund(new)
  /\ old.committed /\ Terminal(old) => Terminal(new)
  /\ old.expiry = "expired_unpaid" =>
       new.expiry = "expired_unpaid" /\ new.expiryPaid = old.expiryPaid

\* The row as the step before left it.
StepFits(step, op) ==
  /\ step \in {"history", "charge", "read_post"} => op.status = "debit_pending" /\ op.attempted
  /\ step = "read_post" => op.confirmed
  /\ step \in {"verify_storage", "commit"} => op.status = "verifying" /\ op.phase # "receipt"
  /\ step \in {"refund_history", "refund_call"} => op.status = "refund_pending"
  /\ step = "resolve" => op.status = "manual_review" /\ op.confirmed

\* What the expiry half may do to a row, and to a copy before it is written.
ExpiryAdvances(old, new) ==
  /\ new.expiryPaid = old.expiryPaid
  /\ \/ new.expiry = old.expiry
     \/ /\ old.expiry = "past_due" /\ new.expiry = "expired_unpaid"
        /\ new.status = "refunded"
  /\ \/ new.expiryPhase = old.expiryPhase
     \/ /\ old.expiryPhase \notin {"none", "complete"}
        /\ new.expiryPhase \notin {"none", "suspend"}

\* A copy, and the row it was read from: they differ by an expiry never written.
Drifted(base, op) ==
  /\ op = [base EXCEPT !.expiry = op.expiry, !.expiryPhase = op.expiryPhase]
  /\ ExpiryAdvances(base, op)

Granted(k) == \A r \in Resource : provider[r].deadline > k

\* What a write does to the Workspace row fits what it says of the operation.
PatchFits(k, old, new, patch) ==
  /\ patch \in {"extend", "extend_running"} <=> new.committed /\ ~old.committed
  /\ new.committed => Granted(k)
  /\ patch # "extend_running" => ExpiryAdvances(old, new)
  /\ patch \in {"extend", "extend_running"} => old.status = "verifying"
  /\ patch = "extend" => new.expiry # "past_due"
  /\ patch = "extend_running" => old.expiry = "past_due" /\ new.expiry = "none"
  /\ patch = "suspend" => new.expiry = "past_due"
  /\ patch \in {"suspend_cancel", "cancel"} => new.expiry = "expired_unpaid"

CopyOf(k, op, base) ==
  /\ CopyFits(k, op) /\ CopyFits(k, base)
  /\ base.status # "none" /\ Follows(base, operation[k])

HandlerFits(p) ==
  LET h == handler[p] IN
  h.pc # "idle" =>
    /\ CopyOf(h.period, h.op, h.base)
    /\ h.pc \notin {"persist", "reload"} => Drifted(h.base, h.op) /\ StepFits(h.pc, h.op)
    /\ h.pc = "persist" =>
         Follows(h.base, h.op) /\ StepFits(h.then, h.op)
           /\ PatchFits(h.period, h.base, h.op, h.patch)
           /\ h.then \notin {"persist", "verify_storage", "commit"}
    /\ h.stage \in {"expire", "expire_again"} =>
         /\ Drifted(h.base, h.op)
         /\ h.pc \in {"expiry", "persist", "reload"}
         /\ h.pc = "persist" => h.then \in {"expiry", "reload"}
    /\ h.pc = "expiry" \/ (h.pc = "persist" /\ h.then = "expiry") =>
         h.stage \in {"expire", "expire_again"}
    /\ h.stage = "run" /\ h.expired =>
         CopyOf(h.period, h.kept, h.keptBase) /\ Drifted(h.keptBase, h.kept)
    /\ h.pc = "verify_storage" => provider["compute"].deadline > h.period
    /\ h.pc = "commit" => Granted(h.period)

\* What happened, or still may, was written down before.
EffectsFit(k) ==
  /\ k \in charged \/ <<k, "charge">> \in inFlight => operation[k].attempted
  /\ k \in refunded \/ <<k, "refund">> \in inFlight => operation[k].refundAttempted
  /\ k \in provider["storage"].done \/ <<k, "storage">> \in inFlight => PastRefund(operation[k])

\* The row of a period and the Workspace row.
RowFits(k) ==
  LET row == operation[k] IN
  /\ CopyFits(k, row)
  /\ row.status # "none" => k <= workspace.paid
  /\ row.committed <=> k < workspace.paid
  /\ row.committed => Granted(k)
  /\ row.committed /\ (~Terminal(row) \/ row.expiry # "none") =>
       \A j \in Period : j > k => operation[j].status = "none"
  /\ row.expiry # "none" => row.expiryPaid = workspace.paid
  /\ k \in promised =>
       ~workspace.autoRenew /\ row.status \in {"none", "expired_unpaid", "refunded"}

\* The Workspace row against the operation of the period it is in.
WorkspaceFits ==
  LET current == operation[workspace.paid] IN
  /\ workspace.paid \in 1..(LastPeriod + 1)
  /\ workspace.status = "expired_unpaid" =>
       /\ now >= 2 * workspace.paid /\ ~workspace.autoRenew
       /\ workspace.paid \in Period =>
            current.status \in {"none", "expired_unpaid", "refunded"}
  /\ workspace.state = "suspended" =>
       /\ now >= 2 * workspace.paid
       /\ \/ workspace.status = "expired_unpaid"
          \/ workspace.paid \in Period /\ current.expiry # "none"

\* An expiry receipt was sent by a copy that had ended unpaid.
ReceiptFits(e) ==
  e[2] = "expired" =>
    /\ workspace.paid = e[3] /\ now >= 2 * e[3]
    /\ \/ operation[e[1]].expiry = "expired_unpaid"
       \/ operation[e[1]].status = "refunded" /\ e[1] = e[3]

RequestFits ==
  request # NoRequest =>
    /\ request.told # request.paid => request.told = request.paid + 1 /\ request.paid \in Period
    /\ request.told = request.paid /\ request.paid \in Period =>
         request.seen[request.paid].status \in {"none", "active", "expired_unpaid", "refunded"}

\* What holds of every renewal at every step, and what makes it so.
RenewalInv ==
  /\ TypeOK
  /\ \A k \in Period : RowFits(k) /\ EffectsFit(k)
  /\ \A p \in Process : HandlerFits(p)
  /\ WorkspaceFits /\ RequestFits
  /\ \A e \in receipts : ReceiptFits(e)
  /\ \A r \in rowGone : ~provider[r].alive
  /\ ReceiptsTrue /\ SuspendedOnlyExpired /\ RefundOnlyWithoutMachine /\ EndedOnlyUnpaid
-----------------------------------------------------------------------------
Settled(k) ==
  \/ operation[k].status \in {"insufficient", "manual_review", "active", "expired_unpaid"}
  \/ operation[k].status = "refunded" /\ operation[k].phase = "complete"

\* Every renewal begun ends: renewed or refunded with its receipt, ended unpaid,
\* short of balance, or in front of an operator.
RenewalSettles == \A k \in Period : operation[k] # Blank ~> Settled(k)

\* The operation says that access was denied, and it was not: nothing does so later.
PassedOver ==
  /\ workspace.state = "running"
  /\ \E k \in Period : /\ operation[k].expiryPaid = workspace.paid
                       /\ operation[k].expiryPhase \in {"financial", "receipt", "complete"}

\* Access to a Workspace whose period is over is denied, whatever its renewal is
\* doing, unless the renewal still comes through, or both the write that denies it
\* and the read after it failed: no one failure suffices, and nothing but failures
\* (the pass that goes on with an unwritten copy).  One that ended is receipted.
UnpaidIsSuspended ==
  /\ now >= 2 * workspace.paid ~>
       (workspace.state = "suspended" \/ now < 2 * workspace.paid \/ PassedOver)
  /\ [](PassedOver => faults >= 2)
  /\ workspace.status = "expired_unpaid" ~>
       \E k \in Period : <<k, "expired", workspace.paid>> \in receipts

\* Does not hold (README, Known departures).  docs/invariants.md: "At unpaid expiry
\* Workspace access is denied and renewal intent is disabled."
DeniedAtExpiry ==
  now >= 2 * workspace.paid ~> (workspace.state = "suspended" \/ now < 2 * workspace.paid)

\* The subscription as the customer sees it (SubscriptionContract): leases, passes,
\* retries, crashes and late answers are steps that change nothing of it.
Subscription == INSTANCE SubscriptionContract WITH
  paid <- workspace.paid,
  running <- workspace.state = "running",
  money <- [k \in Period |-> IF k \in refunded THEN "returned"
                             ELSE IF k \in charged THEN "taken" ELSE "due"]
KeepsSubscription == Subscription!Spec

\* Does not hold (README, Known departures).  docs/invariants.md: "Replays never create a second debit, refund, purchase,
\* renewal, Secret, or receipt."  A resource is extended once for every charge.
ProviderRenewedOnce ==
  \A r \in Resource : provider[r].deadline <= 1 + Cardinality(charged)
=============================================================================
