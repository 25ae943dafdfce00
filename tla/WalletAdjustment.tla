-------------------------- MODULE WalletAdjustment --------------------------
(***************************************************************************)
(* An operator's adjustments of ONE account's Sub2API wallet: a recharge,  *)
(* a debit, or a business refund of an earlier purchase.  Each adjustment  *)
(* is one runtime operation that reads the balance, sends one redeem code, *)
(* looks for the code in the balance history, reads the balance again,     *)
(* records a Ledger receipt and an audit event.  What cannot be confirmed  *)
(* goes to manual review, and one recovery, bound to the operator's        *)
(* evidence, may confirm it or send the same code once more.               *)
(*                                                                         *)
(* All of it runs under the lock "sub2api-wallet" of the account in the    *)
(* only control-plane process (replicas 1, Recreate), so at most one       *)
(* request is being handled; a crash loses it and nothing else.  Every     *)
(* step saves what it changed, so the handler carries no operation of its  *)
(* own from one step to the next.  Model usage, top-ups and requests that  *)
(* arrive late move the balance without the lock.                          *)
(*                                                                         *)
(* Left out: the account and user checks before an adjustment is created   *)
(* (they only refuse it), upstream failure details, a balance that would   *)
(* overflow, and the refusals of rows no step writes: an attempted         *)
(* operation in the phase adjustment, a legacy code about to be sent.      *)
(***************************************************************************)
EXTENDS Integers, FiniteSets, FiniteSetsExt

CONSTANTS
  Adjustment,      \* idempotency keys of the operator's requests
  Kind,            \* of each: recharge, debit or business_refund
  Amount,          \* of each: AmountUSDMicros
  Legacy,          \* adjustments an older release may have left in manual review
  Evidence,        \* recovery commands: evidence reference and key
  NoEvidence,      \* RecoveryRequestHash is empty
  Charge,          \* what the related purchase was charged
  InitialBalance,  \* the wallet at the start
  MaxBalance,      \* bound on the balance (the wallet's own changes stop there)
  MaxFaults,       \* bound on failed or lost answers, failed writes and crashes
  MaxExternal      \* bound on top-ups and model usage

\* An account has finitely many runtime operation rows.
ASSUME FiniteAssumption == IsFiniteSet(Adjustment)
ASSUME KindAssumption ==
  Kind \in [Adjustment -> {"recharge", "debit", "business_refund"}]
ASSUME AmountAssumption == Amount \in [Adjustment -> Nat \ {0}] /\ Charge \in Nat
\* The older release, like this one, sent no debit the balance did not cover.
ASSUME LegacyAssumption ==
  /\ Legacy \subseteq {a \in Adjustment : Kind[a] # "business_refund"}
  /\ \A a \in Legacy : Kind[a] = "debit" => Amount[a] <= InitialBalance
ASSUME EvidenceAssumption == NoEvidence \notin Evidence
ASSUME BoundAssumption ==
  /\ InitialBalance \in Nat /\ MaxBalance \in Nat
  /\ MaxFaults \in Nat /\ MaxExternal \in Nat

VARIABLES
  operation,  \* the gateway.wallet_adjustment.v1 row of each adjustment
  handler,    \* the request that holds the wallet lock
  balance,    \* Sub2API: the account's balance
  used,       \* Sub2API: the redeem codes of each adjustment that took effect
  sent,       \* Sub2API: how often a redeem request of each was sent
  inFlight,   \* adjustments whose request may still take effect, unattended
  receipts,   \* Ledger: adjustments with a receipt
  audit,      \* the audit event of each adjustment
  faults,     \* failures so far
  external    \* changes of the wallet nobody here made

walletVars == <<balance, used>>
vars == <<operation, handler, walletVars, sent, inFlight, receipts, audit,
          faults, external>>
-----------------------------------------------------------------------------
(* The state.                                                              *)

Unread == -1   \* BeforeBalanceKnown is false

Status == {"none", "pending", "manual_review", "succeeded", "failed"}
Phase ==
  {"none", "before_balance", "adjustment", "authoritative_readback",
   "after_balance", "ledger", "audit", "manual_review_audit", "complete"}

\* CanonicalRedeemCode, RedeemCodeVersion and LegacySupersession in one.
Identity == {"v2", "legacy", "legacy_history_confirmed", "v2_history_confirmed",
             "v2_adopted"}
Error ==
  {"none", "unconfirmed", "history_conflict", "balance_changed", "exhausted",
   "readback_unavailable"}

OperationType ==
  [status : Status, phase : Phase, identity : Identity, attempted : BOOLEAN,
   before : Int, proof : BOOLEAN, receipt : BOOLEAN, error : Error,
   recovery : Evidence \cup {NoEvidence}, recoveryAttempted : BOOLEAN]

Blank ==
  [status |-> "none", phase |-> "none", identity |-> "v2", attempted |-> FALSE,
   before |-> Unread, proof |-> FALSE, receipt |-> FALSE, error |-> "none",
   recovery |-> NoEvidence, recoveryAttempted |-> FALSE]

\* As the release that used legacy codes left it: sent, never confirmed, with or
\* without the balance read before.
LegacyReview(before) ==
  [Blank EXCEPT !.status = "manual_review", !.phase = "authoritative_readback",
                !.identity = "legacy", !.attempted = TRUE,
                !.before = before, !.error = "unconfirmed"]

\* run: at the next phase; call: about to send the code; review: the audit
\* event of a manual review; history and balance: a recovery's two reads.
Step == {"idle", "run", "call", "review", "bound", "history", "balance"}
HandlerType == [pc : Step, adjustment : Adjustment]
Holds(a, pc) == handler.adjustment = a /\ handler.pc = pc

Signed(a) == IF Kind[a] = "debit" THEN -Amount[a] ELSE Amount[a]

\* An older release left any of its adjustments, sent, or none; of one its money
\* may have moved.
Init ==
  \E legacy \in SUBSET Legacy, before \in {Unread, InitialBalance} :
    /\ operation = [a \in Adjustment |->
         IF a \in legacy THEN LegacyReview(before) ELSE Blank]
    /\ handler \in [pc : {"idle"}, adjustment : Adjustment]
    /\ \/ balance = InitialBalance /\ used = [a \in Adjustment |-> {}]
       \/ \E landed \in legacy :
            /\ balance = InitialBalance + Signed(landed)
            /\ used = [a \in Adjustment |-> IF a = landed THEN {"legacy"} ELSE {}]
    /\ sent = [a \in Adjustment |-> IF a \in legacy THEN 1 ELSE 0]
    /\ audit = [a \in Adjustment |-> IF a \in legacy THEN "manual_review" ELSE "none"]
    /\ inFlight = {}
    /\ receipts = {}
    /\ faults = 0
    /\ external = 0
-----------------------------------------------------------------------------
(* Steps.                                                                  *)

Sound == UNCHANGED faults
Fault == faults < MaxFaults /\ faults' = faults + 1

At(a, pc) == handler' = [pc |-> pc, adjustment |-> a]
Release == handler' = [handler EXCEPT !.pc = "idle"]

\* persistWalletAdjustment: saved, or the request ends with an error and the
\* write may have been made all the same.
Save(a, op, pc) ==
  \/ Sound /\ operation' = [operation EXCEPT ![a] = op] /\ At(a, pc)
  \/ Fault /\ operation' \in {operation, [operation EXCEPT ![a] = op]} /\ Release

\* manualReviewWalletAdjustment, up to its audit event.
InReview(op, error) ==
  [op EXCEPT !.status = "pending", !.phase = "manual_review_audit", !.error = error]
ToReview(a, error) == Save(a, InReview(operation[a], error), "review")

-----------------------------------------------------------------------------
(* Creating an adjustment, and asking for it again.                        *)

\* An earlier refund of the purchase that is not settled refuses every other.
EarlierRefunds(a) ==
  {b \in Adjustment \ {a} :
     Kind[b] = "business_refund" /\ operation[b].status # "none"}
\* Mutant: only settled refunds count.
WithinSettledLimit(a) ==
  LET settled == {b \in EarlierRefunds(a) : operation[b].status = "succeeded"}
  IN MapThenSumSet(LAMBDA b : Amount[b], settled) + Amount[a] <= Charge
WithinRefundLimit(a) ==
  /\ \A b \in EarlierRefunds(a) : operation[b].status = "succeeded"
  /\ MapThenSumSet(LAMBDA b : Amount[b], EarlierRefunds(a)) + Amount[a] <= Charge

Create(a) ==
  /\ handler.pc = "idle"
  /\ operation[a].status = "none"
  /\ Kind[a] = "business_refund" => WithinRefundLimit(a)
  /\ Save(a, [Blank EXCEPT !.status = "pending", !.phase = "before_balance"], "run")
  /\ UNCHANGED <<walletVars, sent, inFlight, receipts, audit, external>>

\* The same request again: only a pending adjustment goes on.
Replay(a) ==
  /\ handler.pc = "idle"
  /\ operation[a].status = "pending"
  /\ At(a, "run")
  /\ UNCHANGED <<operation, walletVars, sent, inFlight, receipts, audit, faults,
                 external>>
-----------------------------------------------------------------------------
(* runWalletAdjustment, one action per phase.                              *)

Runs(a, phase) == Holds(a, "run") /\ operation[a].phase = phase

Insufficient(a) == Kind[a] = "debit" /\ balance < Amount[a]
Rejected(op) == [op EXCEPT !.status = "failed", !.phase = "complete",
                           !.error = "unconfirmed"]

BeforeBalance(a) ==
  LET read == [operation[a] EXCEPT !.before = balance] IN
  /\ Runs(a, "before_balance")
  /\ \/ Fault /\ UNCHANGED operation /\ Release
     \/ Insufficient(a) /\ Save(a, Rejected(read), "idle")
     \/ ~Insufficient(a) /\ Save(a, [read EXCEPT !.phase = "adjustment"], "run")
  /\ UNCHANGED <<walletVars, sent, inFlight, receipts, audit, external>>

\* The attempt is durable before anything is sent.
Attempt(a) ==
  LET op == operation[a] IN
  /\ Runs(a, "adjustment")
  /\ ~op.attempted
  /\ Save(a, [op EXCEPT !.attempted = TRUE, !.phase = "authoritative_readback"], "call")
  /\ UNCHANGED <<walletVars, sent, inFlight, receipts, audit, external>>

Refused(a) == "v2" \notin used[a] /\ balance + Signed(a) < 0
UseCode(a) ==
  IF "v2" \in used[a]
  THEN UNCHANGED walletVars
  ELSE /\ used' = [used EXCEPT ![a] = @ \cup {"v2"}]
       /\ balance' = balance + Signed(a)

\* Without an answer the history decides; a refusal goes to review at once.
Call(a) ==
  /\ Holds(a, "call")
  /\ sent' = [sent EXCEPT ![a] = @ + 1]
  /\ \/ \* answered, or the answer was lost after it took effect
        /\ ~Refused(a) /\ UseCode(a)
        /\ Sound /\ At(a, "run") /\ UNCHANGED <<operation, inFlight>>
     \/ \* lost for good, or still on its way
        /\ Fault /\ inFlight' \in {inFlight, inFlight \cup {a}}
        /\ At(a, "run") /\ UNCHANGED <<operation, walletVars>>
     \/ /\ Refused(a) /\ ToReview(a, "unconfirmed") /\ UNCHANGED <<walletVars, inFlight>>
     \/ /\ Fault /\ At(a, "review") /\ UNCHANGED <<walletVars, inFlight>>
        /\ operation' = [operation EXCEPT ![a] = InReview(@, "unconfirmed")]
  /\ UNCHANGED <<receipts, audit, external>>

\* The operation's codes in the balance history, current and legacy.
\* Mutant: the legacy code is not looked for.
CurrentCodes(a) == used[a] \cap {"v2"}
Entries(a) == used[a]

\* Mutant: the attempt is its own proof.
AnyHistory(a) == operation[a].attempted
Shown(a) == "v2" \in Entries(a)

AuthoritativeReadback(a) ==
  LET op == operation[a] IN
  /\ Runs(a, "authoritative_readback")
  /\ \/ /\ Shown(a)
        /\ Save(a, [op EXCEPT !.proof = TRUE, !.phase = "after_balance"], "run")
     \/ ~Shown(a) /\ ToReview(a, "unconfirmed")
     \/ /\ Fault /\ At(a, "review")
        /\ operation' = [operation EXCEPT ![a] = InReview(@, "unconfirmed")]
  /\ UNCHANGED <<walletVars, sent, inFlight, receipts, audit, external>>

ExactDelta(a) == balance = operation[a].before + Signed(a)

AfterBalance(a) ==
  /\ Runs(a, "after_balance")
  /\ \/ ExactDelta(a) /\ Save(a, [operation[a] EXCEPT !.phase = "ledger"], "run")
     \/ ~ExactDelta(a) /\ ToReview(a, "unconfirmed")
     \/ /\ Fault /\ At(a, "review")
        /\ operation' = [operation EXCEPT ![a] = InReview(@, "unconfirmed")]
  /\ UNCHANGED <<walletVars, sent, inFlight, receipts, audit, external>>

\* The receipt's key is the operation's: recording it again changes nothing.
Receipt(a) ==
  /\ Runs(a, "ledger")
  /\ \/ /\ receipts' = receipts \cup {a}
        /\ Save(a, [operation[a] EXCEPT !.receipt = TRUE, !.phase = "audit"], "run")
     \/ Fault /\ receipts' \in {receipts, receipts \cup {a}} /\ Release
              /\ UNCHANGED operation
  /\ UNCHANGED <<walletVars, sent, inFlight, audit, external>>

Audit(a) ==
  /\ Runs(a, "audit")
  /\ \/ /\ audit' = [audit EXCEPT ![a] = "succeeded"]
        /\ Save(a, [operation[a] EXCEPT !.status = "succeeded", !.phase = "complete",
                                        !.error = "none"],
                "run")
     \/ Fault /\ Release /\ UNCHANGED <<operation, audit>>
  /\ UNCHANGED <<walletVars, sent, inFlight, receipts, external>>

\* The end of manualReviewWalletAdjustment, also when the run is entered there.
ReviewAudit(a) ==
  /\ Holds(a, "review") \/ Runs(a, "manual_review_audit")
  /\ \/ /\ audit' = [audit EXCEPT ![a] = "manual_review"]
        /\ Save(a, [operation[a] EXCEPT !.status = "manual_review",
                                        !.phase = "authoritative_readback"],
                "idle")
     \/ Fault /\ Release /\ UNCHANGED <<operation, audit>>
  /\ UNCHANGED <<walletVars, sent, inFlight, receipts, external>>

Complete(a) ==
  /\ Holds(a, "run")
  /\ operation[a].phase = "complete"
  /\ Release
  /\ UNCHANGED <<operation, walletVars, sent, inFlight, receipts, audit, faults,
                 external>>
-----------------------------------------------------------------------------
(* recoverWalletAdjustment.                                                *)

\* Mutant: contradicting evidence does not stop a recovery.
NeverStopped(op) == FALSE
Stopped(op) == op.error \in {"history_conflict", "balance_changed"}

\* The first command an adjustment sees is the only one it ever obeys.
Recover(a, e) ==
  LET op == operation[a] IN
  /\ handler.pc = "idle"
  /\ \/ /\ op.status = "manual_review" /\ op.recovery = NoEvidence
        /\ Save(a, [op EXCEPT !.recovery = e], "bound")
     \/ /\ op.status = "manual_review" /\ op.recovery = e
        /\ Sound /\ At(a, "bound") /\ UNCHANGED operation
     \/ /\ op.status = "pending" /\ op.recovery = e
        /\ Sound /\ At(a, "run") /\ UNCHANGED operation
  /\ UNCHANGED <<walletVars, sent, inFlight, receipts, audit, external>>

Bound(a) ==
  /\ Holds(a, "bound")
  /\ IF Stopped(operation[a]) THEN Release ELSE At(a, "history")
  /\ UNCHANGED <<operation, walletVars, sent, inFlight, receipts, audit, faults,
                 external>>

HistoryConflict(a) ==
  \/ {"legacy", "v2"} \subseteq Entries(a)
  \/ "legacy" \in Entries(a)
       /\ operation[a].identity \in {"v2", "v2_history_confirmed", "v2_adopted"}
  \/ Entries(a) # {} /\ operation[a].before = Unread

Confirmed(op, code) ==
  [op EXCEPT !.status = "pending", !.phase = "after_balance", !.proof = TRUE,
             !.error = "none",
             !.identity =
               IF code = "legacy" THEN "legacy_history_confirmed"
               ELSE IF op.identity = "legacy" THEN "v2_history_confirmed" ELSE @]

Eligible(op) ==
  /\ op.identity \in {"legacy", "v2"}
  /\ op.attempted
  /\ op.before # Unread
  /\ ~op.recoveryAttempted
  /\ ~op.receipt
  /\ ~op.proof

RecoveryHistory(a) ==
  LET op == operation[a]
      stop(error) == Save(a, [op EXCEPT !.error = error], "idle")
  IN
  /\ Holds(a, "history")
  /\ \/ HistoryConflict(a) /\ stop("history_conflict")
     \/ /\ ~HistoryConflict(a)
        /\ \E code \in Entries(a) : Save(a, Confirmed(op, code), "run")
     \/ Entries(a) = {} /\ ~Eligible(op) /\ stop("exhausted")
     \/ /\ Entries(a) = {} /\ Eligible(op)
        /\ Sound /\ At(a, "balance") /\ UNCHANGED operation
     \/ /\ Fault /\ Release
        /\ operation' = [operation EXCEPT ![a].error = "readback_unavailable"]
  /\ UNCHANGED <<walletVars, sent, inFlight, receipts, audit, external>>

SameBalance(a) == balance = operation[a].before

Authorized(op) ==
  [op EXCEPT !.status = "pending", !.phase = "adjustment", !.error = "none",
             !.recoveryAttempted = TRUE, !.attempted = FALSE,
             !.identity = IF @ = "legacy" THEN "v2_adopted" ELSE @]

RecoveryBalance(a) ==
  LET op == operation[a] IN
  /\ Holds(a, "balance")
  /\ \/ SameBalance(a) /\ Save(a, Authorized(op), "run")
     \/ ~SameBalance(a) /\ Save(a, [op EXCEPT !.error = "balance_changed"], "idle")
     \/ /\ Fault /\ Release
        /\ operation' = [operation EXCEPT ![a].error = "readback_unavailable"]
  /\ UNCHANGED <<walletVars, sent, inFlight, receipts, audit, external>>
-----------------------------------------------------------------------------
(* The outside world.                                                      *)

\* A redeem request nobody waits for any more takes effect.
Deliver(a) ==
  /\ a \in inFlight
  /\ inFlight' = inFlight \ {a}
  /\ IF Refused(a) THEN UNCHANGED walletVars ELSE UseCode(a)
  /\ UNCHANGED <<operation, handler, sent, receipts, audit, faults, external>>

\* The customer tops up, or a model call is paid.
WalletMoves ==
  /\ external < MaxExternal
  /\ external' = external + 1
  /\ balance' \in {balance - 1, balance + 1} \cap 0..MaxBalance
  /\ UNCHANGED <<operation, handler, used, sent, inFlight, receipts, audit, faults>>

\* The process dies; a request it was sending may still arrive.
Crash ==
  /\ Fault
  /\ handler.pc # "idle"
  /\ Release
  /\ \/ UNCHANGED <<sent, inFlight>>
     \/ /\ handler.pc = "call"
        /\ sent' = [sent EXCEPT ![handler.adjustment] = @ + 1]
        /\ inFlight' = inFlight \cup {handler.adjustment}
  /\ UNCHANGED <<operation, walletVars, receipts, audit, external>>

Run(a) ==
  \/ BeforeBalance(a) \/ Attempt(a) \/ Call(a) \/ AuthoritativeReadback(a)
  \/ AfterBalance(a) \/ Receipt(a) \/ Audit(a) \/ ReviewAudit(a) \/ Complete(a)
  \/ Bound(a) \/ RecoveryHistory(a) \/ RecoveryBalance(a)

Next ==
  \/ \E a \in Adjustment : Create(a) \/ Replay(a) \/ Run(a) \/ Deliver(a)
  \/ \E a \in Adjustment, e \in Evidence : Recover(a, e)
  \/ WalletMoves
  \/ Crash

Spec == Init /\ [][Next]_vars

-----------------------------------------------------------------------------
(* Properties.                                                             *)

\* Every variable has its type, and the wallet is never overdrawn by an
\* adjustment.
TypeOK ==
  /\ operation \in [Adjustment -> OperationType]
  /\ handler \in HandlerType
  /\ balance \in Nat
  /\ used \in [Adjustment -> SUBSET {"legacy", "v2"}]
  /\ sent \in [Adjustment -> Nat]
  /\ inFlight \subseteq Adjustment
  /\ receipts \subseteq Adjustment
  /\ audit \in [Adjustment -> {"none", "manual_review", "succeeded"}]
  /\ faults \in 0..MaxFaults
  /\ external \in 0..MaxExternal

\* The money of an adjustment moves at most once, whatever is lost, replayed or
\* recovered, and although an older release used another code for it.
OneEffect == \A a \in Adjustment : Cardinality(used[a]) <= 1

\* A receipt is recorded only for money that moved, and an adjustment called
\* succeeded has its receipt and an audit event that says so.
SettledIsProven ==
  /\ \A a \in receipts : used[a] # {}
  /\ \A a \in Adjustment : operation[a].status = "succeeded" =>
       a \in receipts /\ used[a] # {} /\ audit[a] = "succeeded"

\* A debit that found too little money, or an adjustment that failed, is never
\* sent later, when the wallet has been topped up.
NoDelayedDebit ==
  \A a \in Adjustment :
    \/ operation[a].status = "failed"
    \/ Kind[a] = "debit" /\ operation[a].before \in 0..(Amount[a] - 1)
    => sent[a] = 0 /\ used[a] = {}

\* The refunds of a purchase, with those under way and those whose request may
\* still arrive, never exceed what it was charged.
RefundsWithinCharge ==
  LET given == {a \in Adjustment : Kind[a] = "business_refund"
                                     /\ operation[a].status # "none"}
  IN MapThenSumSet(LAMBDA a : Amount[a], given) <= Charge

\* A request is sent once on the operator's first word and once more only on a
\* recovery, through crashes and replays.
SendsAreAuthorized ==
  \A a \in Adjustment :
    sent[a] <= (IF operation[a].recovery = NoEvidence THEN 1 ELSE 2)

-----------------------------------------------------------------------------
(* The inductive invariant.                                                *)

StatusFits(a) ==
  LET op == operation[a] IN
  /\ op.status = "none" => op.phase = "none"
  /\ op.status = "pending" => op.phase \notin {"none", "complete"}
  /\ op.status = "manual_review" => op.phase = "authoritative_readback"
  /\ op.status \in {"succeeded", "failed"} => op.phase = "complete"
  /\ Stopped(op) => op.status = "manual_review"

\* What a request that holds the lock is allowed to be at.
HandlerFits(a) ==
  LET op == operation[a] IN
  /\ Holds(a, "run") => op.status = "pending" \/ op.phase = "complete"
  /\ Holds(a, "call") => op.status = "pending" /\ op.phase = "authoritative_readback"
  /\ Holds(a, "review") => op.status = "pending" /\ op.phase = "manual_review_audit"
  /\ \A pc \in {"bound", "history", "balance"} :
       Holds(a, pc) => op.status = "manual_review" /\ op.recovery # NoEvidence
  /\ \A pc \in {"history", "balance"} : Holds(a, pc) => ~Stopped(op)

\* Sends are counted before they are made.
SendsFit(a) ==
  LET op == operation[a]
      sends == IF op.recoveryAttempted THEN 2 ELSE 1
  IN
  /\ op.recoveryAttempted => op.recovery # NoEvidence
  /\ sent[a] <= sends
  /\ op.phase = "adjustment" \/ Holds(a, "call") => sent[a] < sends
  /\ Holds(a, "balance") => ~op.recoveryAttempted
  /\ op.phase \in {"none", "before_balance"} \/ op.status = "failed" =>
       sent[a] = 0 /\ used[a] = {} /\ a \notin inFlight /\ ~op.recoveryAttempted
  /\ Kind[a] = "debit" /\ op.before \in 0..(Amount[a] - 1) => op.status = "failed"

\* A proof, and a receipt, is of money that moved.
ProofFits(a) ==
  LET op == operation[a] IN
  /\ op.phase \in {"after_balance", "ledger", "audit"} => op.proof
  /\ op.proof \/ a \in receipts => used[a] # {}
  /\ op.phase = "audit" => a \in receipts
  /\ op.status = "succeeded" => a \in receipts /\ audit[a] = "succeeded"

\* Money that moved under the legacy code is never sent for again.
LegacyFits(a) ==
  "legacy" \in used[a] =>
    /\ used[a] = {"legacy"} /\ a \notin inFlight
    /\ operation[a].phase \notin {"none", "before_balance", "adjustment"}
    /\ ~Holds(a, "call") /\ ~Holds(a, "balance")

Fits(a) ==
  StatusFits(a) /\ HandlerFits(a) /\ SendsFit(a) /\ ProofFits(a) /\ LegacyFits(a)

\* What holds of every adjustment at every step, and what makes it so.
AdjustmentInv ==
  /\ TypeOK
  /\ \A a \in Adjustment : Fits(a)
  /\ OneEffect /\ SettledIsProven /\ NoDelayedDebit /\ SendsAreAuthorized
-----------------------------------------------------------------------------
Contradicted(a) == operation[a].error \in {"history_conflict", "balance_changed"}

\* Evidence that speaks against an adjustment stops it for good: nothing is sent
\* for it any more, whoever asks.
StoppedForGood ==
  [][\A a \in Adjustment : Contradicted(a) =>
       sent'[a] = sent[a] /\ operation'[a].error = operation[a].error]_vars

Contract ==
  INSTANCE AdjustmentContract WITH
    moved <- {a \in Adjustment : used[a] # {}},
    verdict <- [a \in Adjustment |->
                  IF operation[a].status \in {"succeeded", "failed"}
                  THEN operation[a].status ELSE "open"]

\* The rows, retries and recoveries implement the contract of an adjustment.
KeepsContract == Contract!Spec
=============================================================================
