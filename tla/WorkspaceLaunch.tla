-------------------------- MODULE WorkspaceLaunch --------------------------
(***************************************************************************)
(* The workspace.launch.v2 saga of the control plane for ONE account:      *)
(* one total debit of the Sub2API wallet, then pure fulfilment by Fabric,  *)
(* activation of the Workspace row and a Ledger receipt, or one refund.    *)
(*                                                                         *)
(* A handler (the launch worker, or the operator's recovery) works on a    *)
(* local copy of the RuntimeOperation row and writes it back by            *)
(* compare-and-swap on the row it last saw.  Each action below is one      *)
(* external call or one write, so a handler can be cut off (Abort) between *)
(* any call and the write that records its answer.  lockResource makes a   *)
(* process run at most one handler for the account; the deployed control   *)
(* plane is a single process, and Process may hold more of them to check   *)
(* what the lease and the compare-and-swap protect by themselves.          *)
(*                                                                         *)
(* Sub2API, Fabric and Ledger are modelled by what the handlers rely on:   *)
(* idempotency by code or key, answers that can be lost, and requests that *)
(* can take effect after the caller gave up on them.                       *)
(*                                                                         *)
(* Left out because no state reaches them: the insufficient-balance answer *)
(* to a charge (the client never returns it) and the limit of ten          *)
(* transitions of one fulfilment pass.                                     *)
(***************************************************************************)
EXTENDS Integers, FiniteSets

CONSTANTS
  Launch,          \* launch operations of the account, one per idempotency key
  Process,         \* control-plane processes
  NoLaunch,        \* the launch of an idle handler
  NoProcess,       \* the lease of an operation nobody has claimed
  Price,           \* totalChargeUsdMicros of a launch
  InitialBalance,  \* Sub2API balance at the start
  MaxBalance,      \* bound on the balance (the wallet's own changes stop there)
  MaxFaults,       \* bound on failed, lost or inconsistent answers and aborts
  MaxExternal      \* bound on top-ups, model usage and provider deletions

ASSUME PriceAssumption == Price \in Nat \ {0}
ASSUME BalanceAssumption == InitialBalance \in Nat /\ MaxBalance \in Nat
ASSUME BoundAssumption == MaxFaults \in Nat /\ MaxExternal \in Nat
ASSUME NameAssumption == NoLaunch \notin Launch /\ NoProcess \notin Process

VARIABLES
  operation,    \* the RuntimeOperation row of each launch
  expired,      \* launches whose lease deadline has passed
  handler,      \* what each process is doing for the account
  resourceRow,  \* the compute, storage and attachment rows of the control plane
  workspace,    \* launches whose Workspace row is active
  balance,      \* Sub2API: the account's balance
  charged,      \* Sub2API: launches whose redeem code was used
  refunded,     \* Sub2API: launches whose refund code was used
  compute,      \* Fabric: the compute allocation of each launch
  storage,      \* Fabric: the storage volume of each launch
  made,         \* Fabric: the claims of the attachment, Secret and Runtime writes
  receipts,     \* Ledger: receipts of each launch
  inFlight,     \* requests that may still take effect after their caller left
  faults,       \* failures so far
  external      \* changes so far that no handler of the account made

walletVars == <<balance, charged, refunded>>
fabricVars == <<compute, storage, made>>
tableVars == <<resourceRow, workspace>>
vars == <<operation, expired, handler, tableVars, walletVars, fabricVars,
          receipts, inFlight, faults, external>>
-----------------------------------------------------------------------------
(* The state of an operation.                                              *)

Terminal == {"succeeded", "refunded"}

Status == Terminal \cup
  {"none", "debit_pending", "unknown", "insufficient", "debited", "preparing",
   "waiting", "retryable", "refund_pending", "manual_review"}

FulfilPhase ==
  {"debited", "compute_fulfilling", "storage_fulfilling", "attaching",
   "secret_writing", "runtime_starting", "activating", "receipt_pending"}

Phase == Terminal \cup FulfilPhase \cup
  {"none", "key_pending", "debit_pending", "refund_pending"}

\* A Fabric resource: never requested; being provisioned; verified ready; held
\* by Fabric without a verified machine or disk; deleted at the provider.
ProviderState == {"none", "pending", "ready", "quarantined", "gone"}

\* Fabric's single-claim writes.  A claim that failed, or was cut off, is answered
\* with an error from then on ("provider attach is not safely repeatable").
Write == {"attachment", "secret", "runtime"}
WriteState == {"none", "failed", "made"}

Unread == -1   \* PostChargeBalanceKnown is false

OperationType ==
  [status : Status, phase : Phase, lease : Process \cup {NoProcess},
   attempted : BOOLEAN, pre : Nat, confirmed : BOOLEAN, post : Nat \cup {Unread},
   refundAttempted : BOOLEAN, refundConfirmed : BOOLEAN]

Blank ==
  [status |-> "none", phase |-> "none", lease |-> NoProcess,
   attempted |-> FALSE, pre |-> 0, confirmed |-> FALSE, post |-> Unread,
   refundAttempted |-> FALSE, refundConfirmed |-> FALSE]

\* The balance before the charge covered it, and the one after shows exactly it.
ExactDelta(pre, post) == pre > Price /\ post = pre - Price

\* The financial proof the recovery asks for before it trusts the debit.
ChargeConfirmed(op) ==
  /\ op.attempted
  /\ op.post # Unread
  /\ op.pre > Price
  /\ op.post = op.pre - Price
  /\ op.confirmed

Step == FulfilPhase \cup
  {"idle", "persist", "debit_guard", "charge_history", "read_balance",
   "charge", "confirm_charge", "compute_readback", "storage_readback",
   "storage_absence", "activate", "refund", "refund_history", "refund_call",
   "refund_receipt", "recover_truth"}

HandlerType ==
  [pc : Step, then : Step, launch : Launch \cup {NoLaunch},
   op : OperationType, base : OperationType, prepareFailed : BOOLEAN]

Idle ==
  [pc |-> "idle", then |-> "idle", launch |-> NoLaunch,
   op |-> Blank, base |-> Blank, prepareFailed |-> FALSE]

Init ==
  /\ operation = [l \in Launch |-> Blank]
  /\ expired = {}
  /\ handler = [p \in Process |-> Idle]
  /\ resourceRow = [l \in Launch |->
                      [compute |-> "none", storage |-> "none", attachment |-> FALSE]]
  /\ workspace = {}
  /\ balance = InitialBalance
  /\ charged = {}
  /\ refunded = {}
  /\ compute = [l \in Launch |-> "none"]
  /\ storage = [l \in Launch |-> "none"]
  /\ made = [l \in Launch |-> [w \in Write |-> "none"]]
  /\ receipts = [l \in Launch |-> {}]
  /\ inFlight = {}
  /\ faults = 0
  /\ external = 0
-----------------------------------------------------------------------------
(* How a handler moves.                                                    *)

Sound == UNCHANGED faults
Fault == faults < MaxFaults /\ faults' = faults + 1

Goto(p, step) == handler' = [handler EXCEPT ![p].pc = step]

\* Write the local copy back, then go on.
Save(p, op, next) ==
  handler' = [handler EXCEPT ![p].op = op, ![p].pc = "persist", ![p].then = next]

\* Write the local copy back and leave the handler.
Finish(p, op) == Save(p, op, "idle")

Return(p) == handler' = [handler EXCEPT ![p] = Idle]

Retry(op) == [op EXCEPT !.status = "retryable", !.lease = NoProcess]
Wait(op) == [op EXCEPT !.status = "waiting", !.lease = NoProcess]
Review(op) == [op EXCEPT !.status = "manual_review", !.lease = NoProcess]
RetryDebit(op) ==
  [op EXCEPT !.status = "unknown", !.phase = "debit_pending", !.lease = NoProcess]
Enter(op, phase) == [op EXCEPT !.status = "preparing", !.phase = phase]

\* The row is still the one the handler last saw.
AlwaysCurrent(h) == TRUE                        \* mutant: a write without the compare
Current(h) == operation[h.launch] = h.base

\* PersistWorkspaceLaunch: a compare-and-swap; the handler that loses it gives up.
Persist(p) ==
  LET h == handler[p] IN
  /\ h.pc = "persist"
  /\ IF Current(h)
     THEN /\ operation' = [operation EXCEPT ![h.launch] = h.op]
          /\ IF h.then = "idle"
             THEN Return(p)
             ELSE handler' = [handler EXCEPT ![p].pc = h.then, ![p].base = h.op]
     ELSE Return(p) /\ UNCHANGED operation
  /\ UNCHANGED <<expired, tableVars, walletVars, fabricVars, receipts, inFlight,
                 faults, external>>

\* The process crashes and restarts, or a write of its store fails: the handler
\* is gone, its local copy is lost and its lease stays until the deadline.
Abort(p) ==
  /\ handler[p].pc # "idle"
  /\ Fault
  /\ Return(p)
  /\ UNCHANGED <<operation, expired, tableVars, walletVars, fabricVars, receipts,
                 inFlight, external>>
-----------------------------------------------------------------------------
(* Submission: POST /api/workspace-launches.                               *)

\* The account has no launch that is not settled, one in review included.
NoneRunning ==                                  \* mutant: a review is no obstacle
  \A l \in Launch : operation[l].status \in Terminal \cup {"none", "manual_review"}
NoneInProgress == \A l \in Launch : operation[l].status \in Terminal \cup {"none"}

Submit(p, l) ==
  /\ handler[p].pc = "idle"
  /\ operation[l] = Blank
  /\ NoneInProgress
  /\ balance > Price
  /\ operation' = [operation EXCEPT ![l].status = "debit_pending",
                                    ![l].phase = "key_pending"]
  /\ UNCHANGED <<expired, handler, tableVars, walletVars, fabricVars, receipts,
                 inFlight, faults, external>>

\* The Workspace key is found or created at Sub2API and recorded; a request
\* that failed before this is resumed by its replay.
ConvergeKey(p, l) ==
  /\ handler[p].pc = "idle"
  /\ operation[l].phase = "key_pending"
  /\ operation' = [operation EXCEPT ![l].status = "debit_pending",
                                    ![l].phase = "debit_pending"]
  /\ UNCHANGED <<expired, handler, tableVars, walletVars, fabricVars, receipts,
                 inFlight, faults, external>>

\* The handler step a claimed operation resumes at.
ResumeAt(op) ==
  IF op.phase = "debit_pending" THEN "debit_guard"
  ELSE IF op.phase = "refund_pending" THEN "refund"
  ELSE op.phase

\* The worker picks up what is neither settled, nor in review, nor without a key.
Runnable(op) ==
  op.status \notin Terminal \cup {"none", "manual_review"} /\ op.phase # "key_pending"

\* Nobody holds the operation, or its holder's deadline has passed.
LeaseReleased(l) == operation[l].lease = NoProcess   \* mutant: no deadline
LeaseFree(l) == operation[l].lease = NoProcess \/ l \in expired

\* runWorkspaceLaunch: take the lease and resume.
Claim(p, l) ==
  LET op == [operation[l] EXCEPT !.lease = p] IN
  /\ handler[p].pc = "idle"
  /\ Runnable(operation[l])
  /\ LeaseFree(l)
  /\ operation' = [operation EXCEPT ![l] = op]
  /\ expired' = expired \ {l}
  /\ handler' = [handler EXCEPT ![p] =
       [Idle EXCEPT !.pc = ResumeAt(op), !.launch = l, !.op = op, !.base = op]]
  /\ UNCHANGED <<tableVars, walletVars, fabricVars, receipts, inFlight, faults,
                 external>>

LeaseExpires(l) ==
  /\ operation[l].lease # NoProcess
  /\ l \notin expired
  /\ expired' = expired \cup {l}
  /\ UNCHANGED <<operation, handler, tableVars, walletVars, fabricVars, receipts,
                 inFlight, faults, external>>
-----------------------------------------------------------------------------
(* Debit: debitWorkspaceLaunch.                                            *)

\* Owner, account mapping and key are checked, and capacity before the first
\* charge; any of them can be unavailable, and an inactive owner is reviewed.
DebitGuard(p) ==
  LET op == handler[p].op IN
  /\ handler[p].pc = "debit_guard"
  /\ \/ Sound /\ Goto(p, IF op.confirmed THEN "confirm_charge"
                         ELSE IF op.attempted \/ op.status = "unknown"
                              THEN "charge_history"
                              ELSE "read_balance")
     \/ Fault /\ Finish(p, RetryDebit(op))
     \/ Fault /\ Finish(p, Review(op))
  /\ UNCHANGED <<operation, expired, tableVars, walletVars, fabricVars, receipts,
                 inFlight, external>>

\* The balance history has the launch's redeem code.
AnyHistoryShows(l) == TRUE                      \* mutant: a missing entry passes
HistoryShows(l) == l \in charged

\* The balance history tells whether an earlier charge took effect; when it is
\* unavailable or has no such entry the charge is sent again with its code.
ChargeHistory(p) ==
  LET op == handler[p].op IN
  /\ handler[p].pc = "charge_history"
  /\ \/ Sound /\ HistoryShows(handler[p].launch)
              /\ Save(p, [op EXCEPT !.confirmed = TRUE], "confirm_charge")
     \/ Sound /\ ~HistoryShows(handler[p].launch) /\ Goto(p, "charge")
     \/ Fault /\ Goto(p, "charge")
     \/ Fault /\ Finish(p, Review(op))
  /\ UNCHANGED <<operation, expired, tableVars, walletVars, fabricVars, receipts,
                 inFlight, external>>

ReadBalance(p) ==
  LET op == handler[p].op IN
  /\ handler[p].pc = "read_balance"
  /\ \/ Sound /\ balance > Price
              /\ Save(p, [op EXCEPT !.pre = balance, !.attempted = TRUE], "charge")
     \/ Sound /\ balance <= Price
              /\ Finish(p, [op EXCEPT !.status = "insufficient",
                                      !.phase = "debit_pending",
                                      !.lease = NoProcess])
     \/ Fault /\ Finish(p, RetryDebit(op))
  /\ UNCHANGED <<operation, expired, tableVars, walletVars, fabricVars, receipts,
                 inFlight, external>>

\* Sub2API uses a code once; a charge sent again is confirmed by the first use.
UseChargeCode(l) ==
  \/ l \in charged /\ UNCHANGED walletVars
  \/ /\ l \notin charged /\ balance >= Price
     /\ charged' = charged \cup {l}
     /\ balance' = balance - Price
     /\ UNCHANGED refunded

\* Sent, unanswered: it took effect, it never will, or it still may.
LostRequest(l, kind, effect, state) ==
  \/ effect /\ UNCHANGED inFlight
  \/ UNCHANGED <<state, inFlight>>
  \/ UNCHANGED state /\ inFlight' = inFlight \cup {<<l, kind>>}

Charge(p) ==
  LET op == handler[p].op
      l == handler[p].launch
  IN
  /\ handler[p].pc = "charge"
  /\ \/ /\ Sound /\ UseChargeCode(l) /\ UNCHANGED inFlight
        /\ Save(p, [op EXCEPT !.confirmed = TRUE], "confirm_charge")
     \/ /\ Sound /\ l \notin charged /\ balance < Price
        /\ UNCHANGED <<walletVars, inFlight>>
        /\ Finish(p, Review(op))
     \/ /\ Fault /\ LostRequest(l, "charge", UseChargeCode(l), walletVars)
        /\ Finish(p, RetryDebit(op))
     \/ /\ Fault /\ UNCHANGED <<walletVars, inFlight>>
        /\ Finish(p, Review(op))
  /\ UNCHANGED <<operation, expired, tableVars, fabricVars, receipts, external>>

\* The charge must be in the history, and the balance after it exactly Price
\* below the balance read before it.
ConfirmCharge(p) ==
  LET op == handler[p].op
      read == [op EXCEPT !.post = balance]
  IN
  /\ handler[p].pc = "confirm_charge"
  /\ \/ Sound /\ ~HistoryShows(handler[p].launch) /\ Finish(p, RetryDebit(op))
     \/ Sound /\ HistoryShows(handler[p].launch)
              /\ Finish(p, IF ExactDelta(op.pre, balance)
                           THEN [read EXCEPT !.status = "debited",
                                             !.phase = "debited",
                                             !.lease = NoProcess]
                           ELSE Review(read))
     \/ Fault /\ Finish(p, RetryDebit(op))
     \/ Fault /\ Finish(p, Review(op))
  /\ UNCHANGED <<operation, expired, tableVars, walletVars, fabricVars, receipts,
                 inFlight, external>>
-----------------------------------------------------------------------------
(* Fulfilment: fulfillWorkspaceLaunch.                                     *)

BeginFulfilment(p) ==
  /\ handler[p].pc = "debited"
  /\ Save(p, Enter(handler[p].op, "compute_fulfilling"), "compute_fulfilling")
  /\ UNCHANGED <<operation, expired, tableVars, walletVars, fabricVars, receipts,
                 inFlight, faults, external>>

\* Fabric creates a resource once for its key; a later request finds it.
CreateCompute(l) ==
  /\ compute' = [compute EXCEPT ![l] = IF @ = "none" THEN "pending" ELSE @]
  /\ UNCHANGED <<storage, made>>

\* A volume needs a compute allocation Fabric last saw ready, which the provider
\* may have deleted since; a volume that failed is created again.
CreateStorage(l) ==
  /\ compute[l] \in {"ready", "gone"}
  /\ storage' = [storage EXCEPT ![l] =
                   IF @ \in {"none", "quarantined"} THEN "pending" ELSE @]
  /\ UNCHANGED <<compute, made>>

\* A prepare call: answered, refused with the resource as it is, or lost.
Prepare(p, kind, effect, next) ==
  LET l == handler[p].launch
      Read(failed) == handler' = [handler EXCEPT ![p].pc = next,
                                                 ![p].prepareFailed = failed]
  IN
  /\ \/ Sound /\ effect /\ UNCHANGED inFlight /\ Read(FALSE)
     \/ Fault /\ LostRequest(l, kind, effect, fabricVars) /\ Read(TRUE)
     \/ /\ Fault /\ effect /\ UNCHANGED inFlight
        /\ Finish(p, Review(handler[p].op))
  /\ UNCHANGED <<operation, expired, tableVars, walletVars, receipts, external>>

PrepareCompute(p) ==
  /\ handler[p].pc = "compute_fulfilling"
  /\ Prepare(p, "compute", CreateCompute(handler[p].launch), "compute_readback")

PrepareStorage(p) ==
  LET l == handler[p].launch IN
  /\ handler[p].pc = "storage_fulfilling"
  /\ \/ Prepare(p, "storage", CreateStorage(l), "storage_readback")
     \/ /\ compute[l] # "ready"
        /\ handler' = [handler EXCEPT ![p].pc = "storage_readback",
                                      ![p].prepareFailed = TRUE]
        /\ UNCHANGED <<operation, expired, tableVars, walletVars, fabricVars,
                       receipts, inFlight, faults, external>>

\* Sync*Allocation/Volume and the row saved from it: what the handler does with
\* the state it read.  An unknown state goes to review.
Readback(p, fact, ready, absent) ==
  LET h == handler[p] IN
  \/ Sound /\ fact = "ready" /\ ready
  \/ Sound /\ fact = "gone" /\ absent
  \/ Sound /\ fact = "pending" /\ ~h.prepareFailed /\ Finish(p, Wait(h.op))
  \/ Sound /\ fact = "pending" /\ h.prepareFailed /\ Finish(p, Review(h.op))
  \/ Sound /\ fact \in {"none", "quarantined"} /\ Finish(p, Review(h.op))
  \/ Fault /\ Finish(p, Review(h.op))

\* The row is saved from an answer that names the resource: not for one Fabric
\* does not know yet, and perhaps not when the read failed.
SaveRow(l, field, fact) ==
  \/ /\ fact # "none"
     /\ resourceRow' = [resourceRow EXCEPT ![l][field] = fact]
  \/ /\ fact = "none" \/ faults' # faults
     /\ UNCHANGED resourceRow

ReadbackCompute(p) ==
  LET h == handler[p]
      l == h.launch
  IN
  /\ h.pc = "compute_readback"
  /\ Readback(p, compute[l],
       Save(p, Enter(h.op, "storage_fulfilling"), "storage_fulfilling"),
       Goto(p, "storage_absence"))
  /\ SaveRow(l, "compute", compute[l])
  /\ UNCHANGED <<operation, expired, workspace, walletVars, fabricVars, receipts,
                 inFlight, external>>

ReadbackStorage(p) ==
  LET h == handler[p]
      l == h.launch
  IN
  /\ h.pc = "storage_readback"
  /\ Readback(p, storage[l],
       Save(p, Enter(h.op, "attaching"), "attaching"),
       Finish(p, Review(h.op)))
  /\ SaveRow(l, "storage", storage[l])
  /\ UNCHANGED <<operation, expired, workspace, walletVars, fabricVars, receipts,
                 inFlight, external>>

\* Fabric knows no such volume, or the provider confirms it is gone.
StorageAbsent(l) == storage[l] \in {"none", "gone"}

\* The compute allocation is confirmed absent: refund only if storage is too.
StorageAbsence(p) ==
  LET h == handler[p] IN
  /\ h.pc = "storage_absence"
  /\ \/ Sound /\ StorageAbsent(h.launch) /\ Goto(p, "refund")
     \/ Sound /\ ~StorageAbsent(h.launch) /\ Finish(p, Review(h.op))
     \/ Fault /\ Finish(p, Review(h.op))
  /\ UNCHANGED <<operation, expired, tableVars, walletVars, fabricVars, receipts,
                 inFlight, external>>

\* Fabric sees both resources ready; it may not have seen a deletion yet.
Provisioned(l) == compute[l] = "ready" /\ storage[l] = "ready"
SeenReady(l) == {compute[l], storage[l]} \subseteq {"ready", "gone"}

\* A Fabric write on the way to a running Workspace.  Its claim is replayed once
\* it ended; before that it is made, refused, failed at the provider, or lost.
FabricWrite(p, w, refused, next) ==
  LET h == handler[p]
      l == h.launch
      claim == made[l][w]
      admitted == w = "secret" \/ SeenReady(l)
      Become(state) == /\ made' = [made EXCEPT ![l][w] = state]
                       /\ UNCHANGED <<compute, storage>>
  IN
  \/ Sound /\ (claim = "made" \/ (claim = "none" /\ admitted))
           /\ Become("made") /\ Save(p, Enter(h.op, next), next)
  \/ Sound /\ claim = "failed" /\ UNCHANGED fabricVars /\ Finish(p, Retry(h.op))
  \/ Sound /\ claim = "none" /\ w # "secret" /\ ~Provisioned(l)
           /\ Become(refused) /\ Finish(p, Retry(h.op))
  \/ Fault /\ claim = "none" /\ Finish(p, Retry(h.op))
           /\ \/ admitted /\ Become("made")
              \/ Become("failed")
              \/ UNCHANGED fabricVars
  \/ Fault /\ claim # "none" /\ UNCHANGED fabricVars /\ Finish(p, Retry(h.op))
  \/ Fault /\ UNCHANGED fabricVars /\ Finish(p, Review(h.op))

\* A recorded attachment is reused; otherwise it is created and recorded.
Attach(p) ==
  LET h == handler[p]
      l == h.launch
  IN
  /\ h.pc = "attaching"
  /\ IF resourceRow[l].attachment
     THEN /\ Save(p, Enter(h.op, "secret_writing"), "secret_writing")
          /\ UNCHANGED <<resourceRow, fabricVars, faults>>
     ELSE /\ FabricWrite(p, "attachment", "none", "secret_writing")
          /\ resourceRow' = [resourceRow EXCEPT ![l].attachment =
               handler'[p].op.phase = "secret_writing"]
  /\ UNCHANGED <<operation, expired, workspace, walletVars, receipts, inFlight,
                 external>>

WriteSecret(p) ==
  /\ handler[p].pc = "secret_writing"
  /\ FabricWrite(p, "secret", "none", "runtime_starting")
  /\ UNCHANGED <<operation, expired, tableVars, walletVars, receipts, inFlight,
                 external>>

\* A Runtime that is not ready yet is waited for.
StartRuntime(p) ==
  LET h == handler[p] IN
  /\ h.pc = "runtime_starting"
  /\ \/ FabricWrite(p, "runtime", "failed", "activating")
     \/ /\ Fault /\ SeenReady(h.launch) /\ made[h.launch]["runtime"] # "failed"
        /\ made' = [made EXCEPT ![h.launch]["runtime"] = "made"]
        /\ UNCHANGED <<compute, storage>>
        /\ Finish(p, Wait(h.op))
  /\ UNCHANGED <<operation, expired, tableVars, walletVars, receipts, inFlight,
                 external>>

\* Both resources are read back again immediately before activation; a read that
\* does not confirm one leaves its row as it was.
VerifyProvider(p) ==
  LET h == handler[p]
      l == h.launch
  IN
  /\ h.pc = "activating"
  /\ \/ /\ Sound /\ Provisioned(l) /\ Goto(p, "activate")
        /\ resourceRow' = [resourceRow EXCEPT ![l].compute = "ready",
                                              ![l].storage = "ready"]
     \/ /\ Sound /\ ~Provisioned(l) /\ Finish(p, Review(h.op))
        /\ IF compute[l] = "ready"
           THEN resourceRow' = [resourceRow EXCEPT ![l].compute = "ready"]
           ELSE UNCHANGED resourceRow
     \/ Fault /\ Finish(p, Review(h.op)) /\ UNCHANGED resourceRow
  /\ UNCHANGED <<operation, expired, workspace, walletVars, fabricVars, receipts,
                 inFlight, external>>

\* What ActivateWorkspace demands of the rows in its transaction.
RowsReady(l) ==
  /\ resourceRow[l].compute = "ready"
  /\ resourceRow[l].storage = "ready"
  /\ resourceRow[l].attachment

\* An existing Workspace row must still be the one this launch would write (its
\* owner can change the renewal intent); otherwise the row is written once.
Activate(p) ==
  LET h == handler[p]
      l == h.launch
      Continue == Save(p, Enter(h.op, "receipt_pending"), "receipt_pending")
  IN
  /\ h.pc = "activate"
  /\ IF l \in workspace
     THEN /\ \/ Sound /\ Continue
             \/ Fault /\ Finish(p, Review(h.op))
          /\ UNCHANGED workspace
     ELSE \/ Sound /\ RowsReady(l) /\ workspace' = workspace \cup {l} /\ Continue
          \/ Sound /\ ~RowsReady(l) /\ UNCHANGED workspace /\ Finish(p, Review(h.op))
          \/ Fault /\ RowsReady(l) /\ workspace' = workspace \cup {l}
                   /\ Finish(p, Retry(h.op))
          \/ Fault /\ UNCHANGED workspace /\ Finish(p, Retry(h.op))
  /\ UNCHANGED <<operation, expired, resourceRow, walletVars, fabricVars, receipts,
                 inFlight, external>>

\* Ledger records a receipt once for its key, and its answer can be lost.
Record(p, kind, outcome) ==
  LET h == handler[p]
      Recorded == receipts' = [receipts EXCEPT ![h.launch] = @ \cup {kind}]
  IN
  \/ Sound /\ Recorded
           /\ Finish(p, [h.op EXCEPT !.status = outcome, !.phase = outcome,
                                     !.lease = NoProcess])
  \/ Fault /\ Recorded /\ Finish(p, Retry(h.op))
  \/ Fault /\ UNCHANGED receipts /\ Finish(p, Retry(h.op))
  \/ Fault /\ UNCHANGED receipts /\ Finish(p, Review(h.op))

RecordPurchase(p) ==
  LET h == handler[p] IN
  /\ h.pc = "receipt_pending"
  /\ \/ h.launch \in workspace /\ Record(p, "purchase", "succeeded")
     \/ /\ Sound /\ h.launch \notin workspace
        /\ UNCHANGED receipts /\ Finish(p, Retry(h.op))
  /\ UNCHANGED <<operation, expired, tableVars, walletVars, fabricVars, inFlight,
                 external>>
-----------------------------------------------------------------------------
(* Refund: refundWorkspaceLaunch.                                          *)

BeginRefund(p) ==
  LET op == handler[p].op IN
  /\ handler[p].pc = "refund"
  /\ \/ Sound /\ op.refundConfirmed /\ Goto(p, "refund_receipt")
     \/ Sound /\ ~op.refundConfirmed /\ op.refundAttempted /\ Goto(p, "refund_history")
     \/ Sound /\ ~op.refundConfirmed /\ ~op.refundAttempted
              /\ Save(p, [op EXCEPT !.status = "refund_pending",
                                    !.phase = "refund_pending",
                                    !.refundAttempted = TRUE], "refund_call")
     \/ Fault /\ Finish(p, Review(op))
  /\ UNCHANGED <<operation, expired, tableVars, walletVars, fabricVars, receipts,
                 inFlight, external>>

RefundHistory(p) ==
  LET op == handler[p].op IN
  /\ handler[p].pc = "refund_history"
  /\ \/ Sound /\ handler[p].launch \in refunded
              /\ Save(p, [op EXCEPT !.refundConfirmed = TRUE], "refund_receipt")
     \/ Sound /\ handler[p].launch \notin refunded /\ Goto(p, "refund_call")
     \/ Fault /\ Goto(p, "refund_call")
     \/ Fault /\ Finish(p, Review(op))
  /\ UNCHANGED <<operation, expired, tableVars, walletVars, fabricVars, receipts,
                 inFlight, external>>

UseRefundCode(l) ==
  \/ l \in refunded /\ UNCHANGED walletVars
  \/ /\ l \notin refunded
     /\ refunded' = refunded \cup {l}
     /\ balance' = balance + Price
     /\ UNCHANGED charged

RefundCall(p) ==
  LET op == handler[p].op
      l == handler[p].launch
  IN
  /\ handler[p].pc = "refund_call"
  /\ \/ /\ Sound /\ UseRefundCode(l) /\ UNCHANGED inFlight
        /\ Save(p, [op EXCEPT !.refundConfirmed = TRUE], "refund_receipt")
     \/ /\ Fault /\ LostRequest(l, "refund", UseRefundCode(l), walletVars)
        /\ Finish(p, Retry(op))
  /\ UNCHANGED <<operation, expired, tableVars, fabricVars, receipts, external>>

RecordRefund(p) ==
  /\ handler[p].pc = "refund_receipt"
  /\ Record(p, "refund", "refunded")
  /\ UNCHANGED <<operation, expired, tableVars, walletVars, fabricVars, inFlight,
                 external>>
-----------------------------------------------------------------------------
(* Operator recovery: recoverWorkspaceLaunchReview.                        *)

\* No lease is taken.  Receipts are retried as they are; anything else needs the
\* financial proof, and stays in review without it.
RecoverPhase(op) ==                             \* mutant: the phase alone decides
  IF op.phase = "receipt_pending" THEN "receipt_pending"
  ELSE IF op.phase = "refund_pending" THEN "refund_receipt" ELSE "recover_truth"
RecoverAt(op) ==
  IF op.phase = "receipt_pending" THEN "receipt_pending"
  ELSE IF op.phase = "refund_pending" /\ op.refundConfirmed
       THEN "refund_receipt" ELSE "recover_truth"

Recover(p, l) ==
  LET op == operation[l]
      step == RecoverAt(op)
  IN
  /\ handler[p].pc = "idle"
  /\ op.status = "manual_review"
  /\ step = "recover_truth" => ChargeConfirmed(op)
  /\ handler' = [handler EXCEPT ![p] =
       [Idle EXCEPT !.pc = step, !.launch = l, !.op = op, !.base = op]]
  /\ UNCHANGED <<operation, expired, tableVars, walletVars, fabricVars, receipts,
                 inFlight, faults, external>>

\* Both resources are confirmed absent: nothing is left to serve, or to keep.
ComputeAbsent(l) == compute[l] = "gone"         \* mutant: storage is not asked for
BothAbsent(l) == compute[l] = "gone" /\ storage[l] = "gone"

\* MonthlyProviderTruth answers only for two resources it has an identity of, and
\* "unknown" for anything it cannot verify exactly.
RecoverTruth(p) ==
  LET h == handler[p]
      l == h.launch
      known == {compute[l], storage[l]} \subseteq {"ready", "gone"}
      resume == IF storage[l] = "ready" THEN "attaching" ELSE "storage_fulfilling"
  IN
  /\ h.pc = "recover_truth"
  /\ \/ /\ Sound /\ known
        /\ resourceRow' = [resourceRow EXCEPT ![l].compute = compute[l],
                                              ![l].storage = storage[l]]
        /\ IF compute[l] = "ready"
           THEN Save(p, [Enter(h.op, resume) EXCEPT !.lease = NoProcess], resume)
           ELSE IF BothAbsent(l) THEN Goto(p, "refund") ELSE Return(p)
     \/ Sound /\ ~known /\ Return(p) /\ UNCHANGED resourceRow
     \/ Fault /\ Return(p) /\ UNCHANGED resourceRow
     \/ /\ Fault /\ known /\ Return(p)            \* one of the two is not verified
        /\ \/ resourceRow' = [resourceRow EXCEPT ![l].compute = compute[l]]
           \/ resourceRow' = [resourceRow EXCEPT ![l].storage = storage[l]]
  /\ UNCHANGED <<operation, expired, workspace, walletVars, fabricVars, receipts,
                 inFlight, external>>
-----------------------------------------------------------------------------
(* The outside world.                                                      *)

\* A request whose caller gave up takes effect now.
Deliver(l) ==
  /\ \/ /\ <<l, "charge">> \in inFlight /\ inFlight' = inFlight \ {<<l, "charge">>}
        /\ UseChargeCode(l) /\ UNCHANGED fabricVars
     \/ /\ <<l, "refund">> \in inFlight /\ inFlight' = inFlight \ {<<l, "refund">>}
        /\ UseRefundCode(l) /\ UNCHANGED fabricVars
     \/ /\ <<l, "compute">> \in inFlight /\ inFlight' = inFlight \ {<<l, "compute">>}
        /\ CreateCompute(l) /\ UNCHANGED walletVars
     \/ /\ <<l, "storage">> \in inFlight /\ inFlight' = inFlight \ {<<l, "storage">>}
        /\ CreateStorage(l) /\ UNCHANGED walletVars
  /\ UNCHANGED <<operation, expired, handler, tableVars, receipts, faults, external>>

\* Fabric's reconciliation ends the provisioning of a resource.
ProvisionCompute(l) ==
  /\ compute[l] = "pending"
  /\ \/ Sound /\ compute' = [compute EXCEPT ![l] = "ready"]
     \/ Fault /\ compute' = [compute EXCEPT ![l] = "quarantined"]
  /\ UNCHANGED <<operation, expired, handler, tableVars, walletVars, storage, made,
                 receipts, inFlight, external>>

ProvisionStorage(l) ==
  /\ storage[l] = "pending"
  /\ \/ Sound /\ storage' = [storage EXCEPT ![l] = "ready"]
     \/ Fault /\ storage' = [storage EXCEPT ![l] = "quarantined"]
  /\ UNCHANGED <<operation, expired, handler, tableVars, walletVars, compute, made,
                 receipts, inFlight, external>>

Outside == external < MaxExternal /\ external' = external + 1

\* Model usage and top-ups move the balance without the control plane.
BalanceMoves ==
  /\ Outside
  /\ balance' \in {balance - 1, balance + 1} \cap 0..MaxBalance
  /\ UNCHANGED <<operation, expired, handler, tableVars, charged, refunded,
                 fabricVars, receipts, inFlight, faults>>

\* A quarantined machine is verified after all, or a resource is deleted at the
\* provider; a deleted one does not come back.
ProviderMoves(l) ==
  /\ Outside
  /\ \/ /\ compute[l] \in {"ready", "quarantined"}
        /\ compute' = [compute EXCEPT ![l] = "gone"] /\ UNCHANGED storage
     \/ /\ compute[l] = "quarantined"
        /\ compute' = [compute EXCEPT ![l] = "ready"] /\ UNCHANGED storage
     \/ /\ storage[l] \in {"ready", "quarantined"}
        /\ storage' = [storage EXCEPT ![l] = "gone"] /\ UNCHANGED compute
  /\ UNCHANGED <<operation, expired, handler, tableVars, walletVars, made, receipts,
                 inFlight, faults>>
-----------------------------------------------------------------------------
HandlerStep(p) ==
  \/ DebitGuard(p) \/ ChargeHistory(p) \/ ReadBalance(p) \/ Charge(p)
  \/ ConfirmCharge(p) \/ BeginFulfilment(p) \/ PrepareCompute(p)
  \/ ReadbackCompute(p) \/ StorageAbsence(p) \/ PrepareStorage(p)
  \/ ReadbackStorage(p) \/ Attach(p) \/ WriteSecret(p) \/ StartRuntime(p)
  \/ VerifyProvider(p) \/ Activate(p) \/ RecordPurchase(p) \/ BeginRefund(p)
  \/ RefundHistory(p) \/ RefundCall(p) \/ RecordRefund(p) \/ RecoverTruth(p)
  \/ Persist(p)

Next ==
  \/ \E p \in Process : HandlerStep(p) \/ Abort(p)
  \/ \E p \in Process, l \in Launch :
       Submit(p, l) \/ ConvergeKey(p, l) \/ Claim(p, l) \/ Recover(p, l)
  \/ \E l \in Launch : LeaseExpires(l) \/ Deliver(l) \/ ProvisionCompute(l)
                         \/ ProvisionStorage(l) \/ ProviderMoves(l)
  \/ BalanceMoves

Spec == Init /\ [][Next]_vars

\* The reconcile worker runs at start-up and every interval, Fabric reconciles what
\* it provisions, and a lease has a deadline.  Nothing outside is fair: neither the
\* customer, nor the operator's recovery, nor the fate of a lost request.
Fairness ==
  /\ \A p \in Process : WF_vars(HandlerStep(p))
  /\ \A l \in Launch : /\ WF_vars(\E p \in Process : Claim(p, l))
                       /\ WF_vars(LeaseExpires(l))
                       /\ WF_vars(ProvisionCompute(l))
                       /\ WF_vars(ProvisionStorage(l))

FairSpec == Spec /\ Fairness
-----------------------------------------------------------------------------
(* Properties.                                                             *)

\* Every variable keeps its type; the budgets bound the faults.
TypeOK ==
  /\ operation \in [Launch -> OperationType]
  /\ expired \subseteq Launch
  /\ handler \in [Process -> HandlerType]
  /\ resourceRow \in [Launch -> [compute : ProviderState, storage : ProviderState,
                                 attachment : BOOLEAN]]
  /\ workspace \subseteq Launch
  /\ balance \in Nat
  /\ charged \subseteq Launch
  /\ refunded \subseteq Launch
  /\ compute \in [Launch -> ProviderState]
  /\ storage \in [Launch -> ProviderState]
  /\ made \in [Launch -> [Write -> WriteState]]
  /\ receipts \in [Launch -> SUBSET {"purchase", "refund"}]
  /\ inFlight \subseteq Launch \X {"charge", "refund", "compute", "storage"}
  /\ faults \in 0..MaxFaults
  /\ external \in 0..MaxExternal

\* No Fabric write takes effect, not even a late one, and no Workspace row is
\* activated, unless the persisted operation proves the debit: attempted,
\* confirmed, and exactly Price between the two balances (fulfillWorkspaceLaunch
\* is reached only through debitWorkspaceLaunch).
ProviderOnlyAfterProof ==
  \A l \in Launch :
    \/ compute[l] # "none"
    \/ storage[l] # "none"
    \/ \E w \in Write : made[l][w] # "none"
    \/ l \in workspace
    => ChargeConfirmed(operation[l])

\* The proof an operation carries is true: a launch whose operation confirms its
\* charge was charged at Sub2API, and one that confirms its refund was refunded.
ProofIsTrue ==
  \A l \in Launch :
    /\ operation[l].confirmed => l \in charged
    /\ operation[l].refundConfirmed => l \in refunded

\* Money goes back only for a charge that was made and while neither resource
\* exists, and none appears afterwards (refundWorkspaceLaunch, its late requests
\* and a recovery that runs it again).
RefundOnlyWithoutResources ==
  \A l \in refunded :
    /\ l \in charged
    /\ {compute[l], storage[l]} \subseteq {"none", "gone"}

\* A receipt at the Ledger states what the wallet did: a purchase that was
\* charged, kept and activated, or a refund that was made, and never both, even
\* when the answer to the first was lost.
ReceiptsMatchWallet ==
  \A l \in Launch :
    /\ "purchase" \in receipts[l] => l \in (charged \cap workspace) \ refunded
    /\ "refund" \in receipts[l] => l \in charged \cap refunded

\* A terminal operation has settled both ways: it says what the wallet and the
\* Ledger say.
TerminalIsSettled ==
  \A l \in Launch :
    /\ operation[l].status = "succeeded" => receipts[l] = {"purchase"}
    /\ operation[l].status = "refunded" => receipts[l] = {"refund"}

\* An account never has two purchases that are paid for and unsettled: neither
\* the replay of a submission nor a charge that arrives late can add a second.
OneUnsettledPurchase ==
  Cardinality({l \in charged \ refunded : operation[l].status # "succeeded"}) <= 1

\* How a handler's copy of an operation fits the step it is about to take.
DebitStep ==
  {"debit_guard", "charge_history", "read_balance", "charge", "confirm_charge"}
FulfilStep == Step \ (DebitStep \cup {"idle", "persist"})

Early(op) == op.phase \in {"none", "key_pending", "debit_pending"}

StepFits(step, op) ==
  /\ op.phase \notin Terminal
  /\ step \in DebitStep => op.phase = "debit_pending" /\ op.post = Unread
  /\ step = "read_balance" => ~op.attempted
  /\ step = "confirm_charge" => op.confirmed
  /\ step \in FulfilStep => ChargeConfirmed(op)

\* An operation past its debit carries the proof of it; before that it has no
\* balance after the charge, or one that does not match and is in review.
OperationFits(op) ==
  /\ op.phase = "none" <=> op.status = "none"
  /\ op.phase \in Terminal <=> op.status \in Terminal
  /\ op.phase = "key_pending" => op.status = "debit_pending"
  /\ ~op.attempted => op.pre = 0
  /\ IF Early(op)
     THEN op.post # Unread => op.status = "manual_review" /\ ~ExactDelta(op.pre, op.post)
     ELSE ChargeConfirmed(op)

\* What an operation has recorded of its debit and its refund stays as it is.
KeepsEvidence(old, new) ==
  /\ old.attempted => new.attempted /\ new.pre = old.pre
  /\ old.confirmed => new.confirmed
  /\ old.post # Unread => new.post = old.post
  /\ old.refundAttempted => new.refundAttempted
  /\ old.refundConfirmed => new.refundConfirmed

\* A handler works on an operation that was open, and adds to what it recorded.
HandlerFits(h) ==
  h = Idle \/
    /\ h.launch \in Launch
    /\ h.pc # "idle"
    /\ OperationFits(h.op)
    /\ h.base.status \notin Terminal
    /\ KeepsEvidence(h.base, h.op)
    /\ h.pc \in DebitStep => h.base.post = Unread
    /\ h.pc \in FulfilStep => ChargeConfirmed(h.base)
    /\ h.pc # "persist" => StepFits(h.pc, h.op)
    /\ h.pc = "persist" /\ h.then # "idle" => h.then # "persist" /\ StepFits(h.then, h.op)

\* A proof a handler has seen is still in the operation, however old its copy is.
ProofKept ==
  \A p \in Process :
    handler[p].pc # "idle" /\ ChargeConfirmed(handler[p].base)
      => ChargeConfirmed(operation[handler[p].launch])

\* A Fabric request on its way was sent for a debited operation.
LateRequestsProven ==
  \A l \in Launch :
    <<l, "compute">> \in inFlight \/ <<l, "storage">> \in inFlight
      => ChargeConfirmed(operation[l])

\* Why ProviderOnlyAfterProof, EvidenceIsDurable and TerminalIsFinal hold, as one
\* inductive invariant: operations carry their proof from the debit on, handlers
\* act on copies that carry it, and what a handler writes over an operation keeps
\* what was there.
LaunchInv ==
  /\ TypeOK
  /\ \A l \in Launch : OperationFits(operation[l])
  /\ \A p \in Process : HandlerFits(handler[p])
  /\ ProofKept
  /\ LateRequestsProven
  /\ ProviderOnlyAfterProof

\* Money, resources and receipts.  What an operation, or a handler's copy of one,
\* says of the world is true and stays so (RowTrue); what the world holds of a
\* launch is accounted for by its operation (WorldFits); and no copy, however old,
\* is ahead of the operation (Follows, CopyTrue).

\* Compute was ready once; both resources were; the Workspace is in service.
Past(op) == ~Early(op) /\ op.phase \notin {"debited", "compute_fulfilling"}
Stored(op) ==
  op.phase \in {"attaching", "secret_writing", "runtime_starting", "activating",
                "receipt_pending", "succeeded"}
Served(op) == op.phase \in {"receipt_pending", "succeeded"}

\* What an operation says of the wallet, the provider, the Workspace and the Ledger.
RowTrue(l, op) ==
  /\ op.confirmed => l \in charged
  /\ op.refundConfirmed => op.refundAttempted /\ l \in refunded
  /\ op.refundAttempted <=> op.phase \in {"refund_pending", "refunded"}
  /\ op.refundAttempted => compute[l] = "gone"
  /\ Past(op) => compute[l] \in {"ready", "gone"}
  /\ Stored(op) => storage[l] \in {"ready", "gone"}
  /\ Served(op) => l \in workspace
  /\ op.status \in Terminal => op.status = op.phase
  /\ op.phase = "succeeded" => "purchase" \in receipts[l]
  /\ op.phase = "refunded" => op.refundConfirmed /\ "refund" \in receipts[l]

\* What a write of an operation never takes back.
Follows(old, new) ==
  /\ KeepsEvidence(old, new)
  /\ old.status # "none" => new.status # "none"
  /\ Past(old) => Past(new)
  /\ Served(old) => Served(new)

\* A refund may be decided: what was never asked for, or is gone, stays away.
MayRefund(l, op) ==
  /\ compute[l] = "gone"
  /\ op.phase = "compute_fulfilling" \/ storage[l] = "gone"
  /\ ~Served(op)

\* Why a handler is at a step of the fulfilment or of the refund.
StepTrue(step, l, op) ==
  /\ step \in FulfilPhase => op.phase = step
  /\ step \in {"compute_readback", "storage_absence"} => op.phase = "compute_fulfilling"
  /\ step = "storage_readback" => op.phase = "storage_fulfilling"
  /\ step = "activate" => op.phase = "activating"
  /\ step = "storage_absence" => compute[l] = "gone"
  /\ step = "refund" => op.refundAttempted \/ MayRefund(l, op)
  /\ step \in {"refund_history", "refund_call"} => op.refundAttempted
  /\ step = "refund_receipt" => op.refundConfirmed
  /\ step = "recover_truth" => ~Served(op)

\* A handler's copy is true, and the operation has followed what it was taken from.
CopyTrue(h) ==
  /\ RowTrue(h.launch, h.op)
  /\ h.base.status # "none"
  /\ Follows(h.base, h.op)
  /\ Follows(h.base, operation[h.launch])
  /\ h.pc # "persist" => h.op = h.base /\ StepTrue(h.pc, h.launch, h.op)
  /\ h.pc = "persist" /\ h.then # "idle" => StepTrue(h.then, h.launch, h.op)
  /\ h.pc = "persist" /\ h.op.refundAttempted /\ ~h.base.refundAttempted
       => MayRefund(h.launch, h.base)

\* A volume may still be made by a call that was sent or is about to be.
StorageWanted(l) ==
  \/ <<l, "storage">> \in inFlight
  \/ \E p \in Process : handler[p].launch = l /\ handler[p].pc = "storage_fulfilling"

\* The operation is true, and allows for what was used, made, sent or recorded.
WorldFits(l) ==
  /\ RowTrue(l, operation[l])
  /\ l \in charged \/ <<l, "charge">> \in inFlight => operation[l].status # "none"
  /\ l \in refunded \/ <<l, "refund">> \in inFlight => operation[l].refundAttempted
  /\ storage[l] # "none" \/ <<l, "storage">> \in inFlight => Past(operation[l])
  /\ operation[l].refundAttempted =>
       storage[l] = "gone" \/ (storage[l] = "none" /\ ~StorageWanted(l))
  /\ "purchase" \in receipts[l] => Served(operation[l])
  /\ "refund" \in receipts[l] => l \in refunded

InProgress(l) == operation[l].status \notin Terminal \cup {"none"}

\* Why ProofIsTrue, RefundOnlyWithoutResources, ReceiptsMatchWallet,
\* OneUnsettledPurchase and KeepsContract hold, as one inductive invariant: no lost
\* answer, late request, crash, second process or recovery makes an operation say
\* what is not so, and one launch of the account is in progress at a time.
SagaInv ==
  /\ LaunchInv
  /\ \A l \in Launch : WorldFits(l)
  /\ \A p \in Process : handler[p].pc # "idle" => CopyTrue(handler[p])
  /\ \A l, m \in Launch : InProgress(l) /\ InProgress(m) => l = m

\* What the operation has recorded of its debit and refund is never lost or
\* rewritten, whatever handler with an older copy comes back: the financial proof
\* that recovery relies on (PersistWorkspaceLaunch's compare-and-swap).
EvidenceIsDurable ==
  [][\A l \in Launch : KeepsEvidence(operation[l], operation'[l])]_vars

\* A settled launch is left alone by workers, late handlers and recovery.
TerminalIsFinal ==
  [][\A l \in Launch : operation[l].status \in Terminal
                         => operation'[l] = operation[l]]_vars

\* A submitted launch does not stay in the air, whatever answers are lost and
\* whenever the process crashes: it settles, is insufficient, or waits for an
\* operator.  Only a Fabric write that has failed for good, or a resource deleted
\* under the launch, can keep the worker retrying.
LaunchSettles ==
  \A l \in Launch :
    operation[l].phase = "debit_pending"
      ~> \/ operation[l].status \in Terminal \cup {"manual_review", "insufficient"}
         \/ \E w \in Write : made[l][w] = "failed"
         \/ "gone" \in {compute[l], storage[l]}

\* Does not hold (README, Known departures).  docs/invariants.md: "A partial or
\* unknown provider result enters `manual_review`".  Compute and storage exist and a later write has failed.
PartialResultIsReviewed ==
  \A l \in Launch :
    (\E w \in Write : made[l][w] = "failed")
      ~> operation[l].status \in Terminal \cup {"manual_review"}

\* docs/invariants.md: "confirm live Sub2API balance -> debit exact monthly
\* amount".  The attempt is recorded together with the balance it was based on.
ChargeAfterLiveBalance == \A l \in charged : operation[l].attempted
-----------------------------------------------------------------------------
(* The purchase contract this saga keeps, whatever it has recorded so far.     *)

Contract == INSTANCE PurchaseContract WITH
  Purchase <- Launch,
  funds <- [l \in Launch |-> IF l \in refunded THEN "returned"
                             ELSE IF l \in charged THEN "held" ELSE "none"],
  live <- {l \in Launch : {compute[l], storage[l]} \cap {"pending", "ready", "quarantined"} # {}},
  outcome <- [l \in Launch |-> IF operation[l].status \in Terminal
                               THEN operation[l].status ELSE "open"]

\* Every step of the saga is a step of the contract or invisible to it: wallet,
\* provider and operation move together as the customer was promised.
KeepsContract == Contract!Spec
=============================================================================
