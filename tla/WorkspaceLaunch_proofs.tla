----------------------- MODULE WorkspaceLaunch_proofs -----------------------
(***************************************************************************)
(* LaunchInv and SagaInv are inductive invariants of WorkspaceLaunch for   *)
(* every set of launches and processes, every price, balance and budget.   *)
(* With the first the type invariant and "no provider resource before the  *)
(* proof of the debit" hold, with the second what a launch does to the     *)
(* wallet, the provider, the Workspace and the Ledger is true of them, and *)
(* the saga implements PurchaseContract.                                   *)
(***************************************************************************)
EXTENDS WorkspaceLaunch, FiniteSetTheorems, TLAPS

Assumptions ==
  /\ Price \in Nat \ {0}
  /\ InitialBalance \in Nat /\ MaxBalance \in Nat
  /\ MaxFaults \in Nat /\ MaxExternal \in Nat
  /\ NoLaunch \notin Launch /\ NoProcess \notin Process

LEMMA AssumptionsHold == Assumptions
BY PriceAssumption, BalanceAssumption, BoundAssumption, NameAssumption DEF Assumptions
-----------------------------------------------------------------------------
(* Copies of an operation.                                                 *)

LEMMA EvidenceKeptTwice ==
  ASSUME NEW a \in OperationType, NEW b \in OperationType, NEW c \in OperationType,
         KeepsEvidence(a, b), KeepsEvidence(b, c)
  PROVE  KeepsEvidence(a, c)
BY DEF KeepsEvidence

\* Evidence includes the proof of the debit.
LEMMA EvidenceKeepsProof ==
  ASSUME NEW a \in OperationType, NEW b \in OperationType, KeepsEvidence(a, b),
         ChargeConfirmed(a)
  PROVE  ChargeConfirmed(b)
BY DEF KeepsEvidence, ChargeConfirmed

LEMMA EvidenceKeptBySame ==
  ASSUME NEW op \in OperationType
  PROVE  KeepsEvidence(op, op)
BY DEF KeepsEvidence

\* What a handler may do to an operation past its debit without losing the proof.
LEMMA LeavingKeepsProof ==
  ASSUME NEW op \in OperationType, OperationFits(op), ChargeConfirmed(op),
         op.phase \notin Terminal
  PROVE  /\ {Retry(op), Wait(op), Review(op)} \subseteq OperationType
         /\ OperationFits(Retry(op)) /\ KeepsEvidence(op, Retry(op))
         /\ OperationFits(Wait(op)) /\ KeepsEvidence(op, Wait(op))
         /\ OperationFits(Review(op)) /\ KeepsEvidence(op, Review(op))
<1> USE PriceAssumption
    DEF OperationType, OperationFits, ChargeConfirmed, Early, Status, Phase, FulfilPhase,
        Terminal, ExactDelta, Unread, KeepsEvidence
<1>1. Retry(op) \in OperationType /\ OperationFits(Retry(op)) /\ KeepsEvidence(op, Retry(op))
  BY DEF Retry
<1>2. Wait(op) \in OperationType /\ OperationFits(Wait(op)) /\ KeepsEvidence(op, Wait(op))
  BY DEF Wait
<1>3. Review(op) \in OperationType /\ OperationFits(Review(op)) /\ KeepsEvidence(op, Review(op))
  BY DEF Review
<1> QED
  BY <1>1, <1>2, <1>3

LEMMA EnteringKeepsProof ==
  ASSUME NEW op \in OperationType, OperationFits(op), ChargeConfirmed(op),
         NEW phase \in FulfilPhase
  PROVE  /\ Enter(op, phase) \in OperationType
         /\ OperationFits(Enter(op, phase))
         /\ ChargeConfirmed(Enter(op, phase))
         /\ KeepsEvidence(op, Enter(op, phase))
         /\ Enter(op, phase).phase = phase
<1> DEFINE new == Enter(op, phase)
<1>1. "preparing" \in Status \ (Terminal \cup {"none"}) /\ phase \in Phase
      /\ phase \notin Terminal \cup {"none", "key_pending", "debit_pending"}
  BY DEF Status, Phase, FulfilPhase, Terminal
<1>2. new \in OperationType
  BY <1>1 DEF Enter, OperationType
<1>3. /\ new.status = "preparing" /\ new.phase = phase /\ new.attempted = op.attempted
      /\ new.pre = op.pre /\ new.confirmed = op.confirmed /\ new.post = op.post
      /\ new.refundAttempted = op.refundAttempted
      /\ new.refundConfirmed = op.refundConfirmed
  BY DEF Enter, OperationType
<1> HIDE DEF new
<1>4. ChargeConfirmed(new) /\ KeepsEvidence(op, new)
  BY <1>3 DEF ChargeConfirmed, KeepsEvidence
<1>5. OperationFits(new)
  BY <1>1, <1>3, <1>4 DEF OperationFits, ChargeConfirmed, Early
<1>6. QED
  BY <1>2, <1>3, <1>4, <1>5 DEF new

\* Leaving the debit unproven leaves an operation that does not claim the proof.
LEMMA LeavingDebit ==
  ASSUME NEW op \in OperationType, OperationFits(op), op.phase = "debit_pending",
         op.post = Unread
  PROVE  \A new \in {RetryDebit(op), Review(op)} :
           new \in OperationType /\ OperationFits(new) /\ KeepsEvidence(op, new)
<1>1. {"unknown", "manual_review"} \subseteq Status \ (Terminal \cup {"none"})
      /\ "debit_pending" \in Phase \ (Terminal \cup {"none", "key_pending"})
  BY DEF Status, Phase, Terminal, FulfilPhase
<1>2. ASSUME NEW new \in {RetryDebit(op), Review(op)}
      PROVE  /\ new \in OperationType
             /\ new.status \in {"unknown", "manual_review"} /\ new.phase = "debit_pending"
             /\ new.attempted = op.attempted /\ new.pre = op.pre
             /\ new.confirmed = op.confirmed /\ new.post = op.post
             /\ new.refundAttempted = op.refundAttempted
             /\ new.refundConfirmed = op.refundConfirmed
  <2>1. CASE new = RetryDebit(op)
    BY <1>1, <2>1 DEF RetryDebit, OperationType
  <2>2. CASE new = Review(op)
    BY <1>1, <2>2 DEF Review, OperationType
  <2>3. QED
    BY <2>1, <2>2
<1>3. ASSUME NEW new \in {RetryDebit(op), Review(op)}
      PROVE  OperationFits(new) /\ KeepsEvidence(op, new)
  BY <1>1, <1>2 DEF OperationFits, Early, KeepsEvidence
<1>4. QED
  BY <1>2, <1>3

LEMMA BlankFits == Blank \in OperationType /\ OperationFits(Blank) /\ ~ChargeConfirmed(Blank)
BY DEF Blank, OperationType, OperationFits, ChargeConfirmed, Early, Status, Phase, FulfilPhase,
       Terminal, Unread

LEMMA IdleFits == Idle \in HandlerType /\ HandlerFits(Idle) /\ Idle.pc = "idle"
BY BlankFits DEF Idle, HandlerType, HandlerFits, Step
-----------------------------------------------------------------------------
(* What a handler's own step does to the part of LaunchInv that speaks of it.  *)

HandlerPart ==
  /\ handler \in [Process -> HandlerType]
  /\ \A p \in Process : HandlerFits(handler[p])
  /\ ProofKept

\* A handler is replaced by one that fits; the operations stay.
LEMMA HandlerChanges ==
  ASSUME HandlerPart, operation' = operation, NEW p \in Process, NEW h \in HandlerType,
         HandlerFits(h), handler' = [handler EXCEPT ![p] = h],
         h.pc # "idle" /\ ChargeConfirmed(h.base) => ChargeConfirmed(operation[h.launch])
  PROVE  HandlerPart'
<1>1. handler' \in [Process -> HandlerType]
  BY DEF HandlerPart
<1>2. \A q \in Process : handler'[q] = IF q = p THEN h ELSE handler[q]
  BY DEF HandlerPart
<1>3. ASSUME NEW q \in Process PROVE HandlerFits(handler'[q])
  BY <1>2 DEF HandlerPart
<1>4. ASSUME NEW q \in Process, handler'[q].pc # "idle", ChargeConfirmed(handler'[q].base)
      PROVE  ChargeConfirmed(operation'[handler'[q].launch])
  BY <1>2, <1>4 DEF HandlerPart, ProofKept
<1> QED
  BY <1>1, <1>3, <1>4 DEF HandlerPart, ProofKept

LEMMA ReturnFits ==
  ASSUME HandlerPart, operation' = operation, NEW p \in Process, Return(p)
  PROVE  HandlerPart'
BY HandlerChanges, IdleFits DEF Return

\* What is known of a handler at work.
LEMMA AtWork ==
  ASSUME HandlerPart, NEW p \in Process, handler[p].pc # "idle"
  PROVE  /\ handler[p] \in HandlerType
         /\ handler[p].launch \in Launch
         /\ handler[p].op \in OperationType /\ OperationFits(handler[p].op)
         /\ handler[p].base \in OperationType /\ handler[p].base.status \notin Terminal
         /\ KeepsEvidence(handler[p].base, handler[p].op)
         /\ handler[p].pc \in FulfilStep =>
              /\ ChargeConfirmed(handler[p].base)
              /\ ChargeConfirmed(operation[handler[p].launch])
         /\ handler[p].pc # "persist" => StepFits(handler[p].pc, handler[p].op)
         /\ handler[p].pc \in DebitStep => handler[p].base.post = Unread
         /\ ChargeConfirmed(handler[p].base) => ChargeConfirmed(operation[handler[p].launch])
<1>1. handler[p] \in HandlerType /\ HandlerFits(handler[p]) /\ handler[p] # Idle
  BY IdleFits DEF HandlerPart
<1>2. handler[p].op \in OperationType /\ handler[p].base \in OperationType
  BY <1>1 DEF HandlerType
<1>3. ChargeConfirmed(handler[p].base) => ChargeConfirmed(operation[handler[p].launch])
  BY DEF HandlerPart, ProofKept
<1> QED
  BY <1>1, <1>2, <1>3 DEF HandlerFits

LEMMA GotoFits ==
  ASSUME HandlerPart, operation' = operation, NEW p \in Process,
         handler[p].pc # "idle", NEW step \in Step \ {"idle", "persist"},
         Goto(p, step), StepFits(step, handler[p].op),
         step \in DebitStep => handler[p].base.post = Unread,
         step \in FulfilStep => ChargeConfirmed(handler[p].base)
  PROVE  HandlerPart'
<1> DEFINE h == [handler[p] EXCEPT !.pc = step]
<1>1. handler' = [handler EXCEPT ![p] = h]
  BY DEF Goto
<1>2. h \in HandlerType /\ h.pc = step /\ h.op = handler[p].op /\ h.base = handler[p].base
      /\ h.launch = handler[p].launch
  BY AtWork DEF HandlerType
<1>3. HandlerFits(h)
  BY <1>2, AtWork DEF HandlerFits
<1>4. ChargeConfirmed(h.base) => ChargeConfirmed(operation[h.launch])
  BY <1>2, AtWork
<1> HIDE DEF h
<1> QED
  BY <1>1, <1>2, <1>3, <1>4, HandlerChanges

LEMMA SaveFits ==
  ASSUME HandlerPart, operation' = operation, NEW p \in Process,
         handler[p].pc # "idle", NEW op \in OperationType, OperationFits(op),
         KeepsEvidence(handler[p].op, op),
         NEW next \in Step \ {"persist"}, next # "idle" => StepFits(next, op),
         Save(p, op, next)
  PROVE  HandlerPart'
<1> DEFINE h == [handler[p] EXCEPT !.op = op, !.pc = "persist", !.then = next]
<1>1. handler' = [handler EXCEPT ![p] = h]
  BY DEF Save
<1>2. h \in HandlerType /\ h.pc = "persist" /\ h.op = op /\ h.base = handler[p].base
      /\ h.launch = handler[p].launch /\ h.then = next
  BY AtWork DEF HandlerType, Step
<1>3. HandlerFits(h)
  BY <1>2, AtWork, EvidenceKeptTwice DEF HandlerFits, DebitStep, FulfilStep
<1>4. ChargeConfirmed(h.base) => ChargeConfirmed(operation[h.launch])
  BY <1>2, AtWork
<1> HIDE DEF h
<1> QED
  BY <1>1, <1>2, <1>3, <1>4, HandlerChanges

\* Past the debit a handler may stop, and it may go on to a later phase.
LEMMA StopFits ==
  ASSUME HandlerPart, operation' = operation, NEW p \in Process,
         handler[p].pc \in FulfilStep,
         NEW op \in {Retry(handler[p].op), Wait(handler[p].op), Review(handler[p].op)},
         Finish(p, op)
  PROVE  HandlerPart'
<1>1. /\ handler[p].pc # "idle" /\ handler[p].op.phase \notin Terminal
      /\ ChargeConfirmed(handler[p].op)
  BY AtWork DEF FulfilStep, StepFits
<1>2. op \in OperationType /\ OperationFits(op) /\ KeepsEvidence(handler[p].op, op)
  BY <1>1, AtWork, LeavingKeepsProof
<1> QED
  BY <1>1, <1>2, SaveFits DEF Finish, Step

LEMMA AdvanceFits ==
  ASSUME HandlerPart, operation' = operation, NEW p \in Process,
         handler[p].pc \in FulfilStep, NEW phase \in FulfilPhase,
         Save(p, Enter(handler[p].op, phase), phase)
  PROVE  HandlerPart'
<1>1. handler[p].pc # "idle" /\ ChargeConfirmed(handler[p].op)
  BY AtWork DEF FulfilStep, StepFits
<1>2. /\ Enter(handler[p].op, phase) \in OperationType
      /\ OperationFits(Enter(handler[p].op, phase))
      /\ ChargeConfirmed(Enter(handler[p].op, phase))
      /\ KeepsEvidence(handler[p].op, Enter(handler[p].op, phase))
      /\ Enter(handler[p].op, phase).phase = phase
  BY <1>1, AtWork, EnteringKeepsProof
<1>3. phase \in Step \ {"persist", "idle"} /\ phase \notin Terminal /\ phase \notin DebitStep
  BY DEF FulfilPhase, Step, Terminal, DebitStep
<1>4. StepFits(phase, Enter(handler[p].op, phase))
  BY <1>2, <1>3 DEF StepFits, DebitStep
<1> QED
  BY <1>1, <1>2, <1>3, <1>4, SaveFits

\* Past the debit a handler goes from one step to the next.
LEMMA StepOnFits ==
  ASSUME HandlerPart, operation' = operation, NEW p \in Process,
         handler[p].pc \in FulfilStep, NEW step \in FulfilStep, Goto(p, step)
  PROVE  HandlerPart'
<1>1. /\ handler[p].pc # "idle" /\ handler[p].pc # "persist"
      /\ ChargeConfirmed(handler[p].base)
  BY AtWork DEF FulfilStep
<1>2. step \in Step \ {"persist", "idle"} /\ step \notin DebitStep
  BY DEF FulfilStep
<1>3. StepFits(step, handler[p].op)
  BY <1>1, <1>2, AtWork DEF StepFits, DebitStep
<1> QED
  BY <1>1, <1>2, <1>3, GotoFits
-----------------------------------------------------------------------------
(* Everything but operations and handlers.                                 *)

RestTyped ==
  /\ expired \subseteq Launch
  /\ resourceRow \in [Launch -> [compute : ProviderState, storage : ProviderState,
                                 attachment : BOOLEAN]]
  /\ workspace \subseteq Launch
  /\ balance \in Nat
  /\ charged \subseteq Launch
  /\ refunded \subseteq Launch
  /\ compute \in [Launch -> ProviderState]
  /\ storage \in [Launch -> ProviderState]
  /\ made \in [Launch -> [Write -> WriteState]]
  /\ receipts \in [Launch -> SUBSET {"purchase", "refund"}]
  /\ inFlight \subseteq Launch \X {"charge", "refund", "compute", "storage"}
  /\ faults \in 0..MaxFaults
  /\ external \in 0..MaxExternal

\* What Fabric, the Workspace row and the requests on their way hold of a launch.
Provided(l) ==
  \/ compute[l] # "none"
  \/ storage[l] # "none"
  \/ \E w \in Write : made[l][w] # "none"
  \/ l \in workspace
  \/ <<l, "compute">> \in inFlight
  \/ <<l, "storage">> \in inFlight

LEMMA InvParts ==
  LaunchInv <=>
    /\ operation \in [Launch -> OperationType]
    /\ \A l \in Launch : OperationFits(operation[l])
    /\ HandlerPart
    /\ RestTyped
    /\ \A l \in Launch : Provided(l) => ChargeConfirmed(operation[l])
BY DEF LaunchInv, TypeOK, HandlerPart, RestTyped, Provided, LateRequestsProven,
       ProviderOnlyAfterProof

LEMMA InvPartsNext ==
  ASSUME operation' \in [Launch -> OperationType],
         \A l \in Launch : OperationFits(operation'[l]),
         HandlerPart', RestTyped',
         \A l \in Launch : Provided(l)' => ChargeConfirmed(operation'[l])
  PROVE  LaunchInv'
BY DEF LaunchInv, TypeOK, HandlerPart, RestTyped, Provided, LateRequestsProven,
       ProviderOnlyAfterProof

\* A step that leaves the operations alone and provides only for proven ones.
LEMMA OperationsStay ==
  ASSUME LaunchInv, operation' = operation, HandlerPart', RestTyped',
         \A l \in Launch : Provided(l)' => Provided(l) \/ ChargeConfirmed(operation[l])
  PROVE  LaunchInv'
<1>1. \A l \in Launch : Provided(l)' => ChargeConfirmed(operation'[l])
  BY InvParts
<1> QED
  BY <1>1, InvParts, InvPartsNext

\* The wallet moves and nothing of Fabric does: what the debit and refund calls change.
LEMMA WalletStep ==
  ASSUME LaunchInv, HandlerPart',
         UNCHANGED <<operation, expired, tableVars, fabricVars, external>>,
         faults' \in 0..MaxFaults, balance' \in Nat,
         charged' \subseteq Launch, refunded' \subseteq Launch,
         receipts' \in [Launch -> SUBSET {"purchase", "refund"}],
         inFlight' \subseteq inFlight \cup (Launch \X {"charge", "refund"})
  PROVE  LaunchInv'
<1>1. inFlight' \subseteq Launch \X {"charge", "refund", "compute", "storage"}
  BY InvParts DEF RestTyped
<1>2. RestTyped'
  BY <1>1, InvParts DEF RestTyped, tableVars, fabricVars
<1>3. \A l \in Launch : Provided(l)' => Provided(l)
  BY DEF Provided, tableVars, fabricVars
<1> QED
  BY <1>2, <1>3, OperationsStay

\* The budget stays within its bound.
LEMMA FaultsBounded ==
  ASSUME LaunchInv, Sound \/ Fault
  PROVE  faults' \in 0..MaxFaults
BY BoundAssumption, InvParts DEF RestTyped, Sound, Fault

\* A handler acts, and nothing else but the budget moves.
LEMMA QuietStep ==
  ASSUME LaunchInv, HandlerPart', faults' \in 0..MaxFaults,
         UNCHANGED <<operation, expired, tableVars, walletVars, fabricVars, receipts,
                     inFlight, external>>
  PROVE  LaunchInv'
<1>1. RestTyped'
  BY InvParts DEF RestTyped, tableVars, fabricVars, walletVars
<1>2. \A l \in Launch : Provided(l)' => Provided(l)
  BY DEF Provided, tableVars, fabricVars
<1> QED
  BY <1>1, <1>2, OperationsStay
-----------------------------------------------------------------------------
(* The debit.                                                              *)

\* What is known of a handler in the debit, and what it may write.
LEMMA InDebit ==
  ASSUME HandlerPart, NEW p \in Process, handler[p].pc \in DebitStep
  PROVE  /\ handler[p].pc # "idle" /\ handler[p].pc # "persist"
         /\ handler[p].op \in OperationType /\ OperationFits(handler[p].op)
         /\ handler[p].op.phase = "debit_pending" /\ handler[p].op.post = Unread
         /\ handler[p].base \in OperationType /\ handler[p].base.post = Unread
         /\ ~ChargeConfirmed(handler[p].base)
         /\ handler[p].launch \in Launch
<1>1. handler[p].pc # "idle" /\ handler[p].pc # "persist"
  BY DEF DebitStep
<1> QED
  BY <1>1, AtWork DEF StepFits, ChargeConfirmed

\* Stopping within the debit.
LEMMA DebitStopFits ==
  ASSUME HandlerPart, operation' = operation, NEW p \in Process,
         handler[p].pc \in DebitStep, NEW op \in {RetryDebit(handler[p].op), Review(handler[p].op)},
         Finish(p, op)
  PROVE  HandlerPart'
<1>1. op \in OperationType /\ OperationFits(op) /\ KeepsEvidence(handler[p].op, op)
  BY InDebit, LeavingDebit
<1> QED
  BY <1>1, InDebit, SaveFits DEF Finish, Step

\* Moving on within the debit with an operation that still awaits its proof.
LEMMA DebitSaveFits ==
  ASSUME HandlerPart, operation' = operation, NEW p \in Process,
         handler[p].pc \in DebitStep, NEW op \in OperationType, OperationFits(op),
         op.phase = "debit_pending", op.post = Unread, KeepsEvidence(handler[p].op, op),
         NEW step \in {"charge", "confirm_charge"}, step = "confirm_charge" => op.confirmed,
         Save(p, op, step)
  PROVE  HandlerPart'
<1>1. step \in Step \ {"persist", "idle"} /\ step \notin FulfilStep
  BY DEF DebitStep, Step, FulfilStep
<1>2. StepFits(step, op)
  BY <1>1 DEF StepFits, Terminal
<1> QED
  BY <1>1, <1>2, InDebit, SaveFits

LEMMA DebitGotoFits ==
  ASSUME HandlerPart, operation' = operation, NEW p \in Process,
         handler[p].pc \in DebitStep, NEW step \in DebitStep,
         step = "read_balance" => ~handler[p].op.attempted,
         step = "confirm_charge" => handler[p].op.confirmed, Goto(p, step)
  PROVE  HandlerPart'
<1>1. step \in Step \ {"persist", "idle"} /\ step \notin FulfilStep
  BY DEF DebitStep, Step, FulfilStep
<1>2. StepFits(step, handler[p].op)
  BY <1>1, InDebit DEF StepFits, Terminal
<1> QED
  BY <1>1, <1>2, InDebit, GotoFits

LEMMA DebitGuardKeeps ==
  ASSUME LaunchInv, NEW p \in Process, DebitGuard(p) PROVE LaunchInv'
<1>1. handler[p].pc \in DebitStep /\ HandlerPart /\ operation' = operation
  BY InvParts DEF DebitGuard, DebitStep
<1>2. faults' \in 0..MaxFaults
  BY FaultsBounded DEF DebitGuard
<1>3. HandlerPart'
  <2>1. CASE Finish(p, RetryDebit(handler[p].op)) \/ Finish(p, Review(handler[p].op))
    BY <1>1, <2>1, DebitStopFits
  <2>2. CASE Goto(p, IF handler[p].op.confirmed THEN "confirm_charge"
                     ELSE IF handler[p].op.attempted \/ handler[p].op.status = "unknown"
                          THEN "charge_history"
                          ELSE "read_balance")
    BY <1>1, <2>2, DebitGotoFits DEF DebitStep
  <2> QED
    BY <2>1, <2>2 DEF DebitGuard
<1> QED
  BY <1>2, <1>3, QuietStep DEF DebitGuard

\* A confirmation, or a balance read, keeps the operation a fit one.
LEMMA DebitUpdates ==
  ASSUME NEW op \in OperationType, OperationFits(op), op.phase = "debit_pending",
         op.post = Unread, NEW b \in Nat
  PROVE  /\ KeepsEvidence(op, [op EXCEPT !.confirmed = TRUE])
         /\ ~op.attempted => KeepsEvidence(op, [op EXCEPT !.pre = b, !.attempted = TRUE])
         /\ [op EXCEPT !.confirmed = TRUE] \in OperationType
         /\ OperationFits([op EXCEPT !.confirmed = TRUE])
         /\ [op EXCEPT !.confirmed = TRUE].confirmed
         /\ [op EXCEPT !.confirmed = TRUE].phase = "debit_pending"
         /\ [op EXCEPT !.confirmed = TRUE].post = Unread
         /\ [op EXCEPT !.pre = b, !.attempted = TRUE] \in OperationType
         /\ OperationFits([op EXCEPT !.pre = b, !.attempted = TRUE])
         /\ [op EXCEPT !.pre = b, !.attempted = TRUE].phase = "debit_pending"
         /\ [op EXCEPT !.pre = b, !.attempted = TRUE].post = Unread
<1> USE DEF OperationType, OperationFits, Early, Unread
<1>1. /\ [op EXCEPT !.confirmed = TRUE] \in OperationType
      /\ [op EXCEPT !.confirmed = TRUE].phase = "debit_pending"
      /\ [op EXCEPT !.confirmed = TRUE].post = Unread
      /\ [op EXCEPT !.confirmed = TRUE].confirmed
  OBVIOUS
<1>2. OperationFits([op EXCEPT !.confirmed = TRUE])
  OBVIOUS
<1>3. /\ [op EXCEPT !.pre = b, !.attempted = TRUE] \in OperationType
      /\ [op EXCEPT !.pre = b, !.attempted = TRUE].phase = "debit_pending"
      /\ [op EXCEPT !.pre = b, !.attempted = TRUE].post = Unread
  OBVIOUS
<1>4. OperationFits([op EXCEPT !.pre = b, !.attempted = TRUE])
  OBVIOUS
<1>5. KeepsEvidence(op, [op EXCEPT !.confirmed = TRUE])
  BY DEF KeepsEvidence
<1>6. ~op.attempted => KeepsEvidence(op, [op EXCEPT !.pre = b, !.attempted = TRUE])
  BY DEF KeepsEvidence
<1> QED
  BY <1>1, <1>2, <1>3, <1>4, <1>5, <1>6

LEMMA ChargeHistoryKeeps ==
  ASSUME LaunchInv, NEW p \in Process, ChargeHistory(p) PROVE LaunchInv'
<1>1. handler[p].pc \in DebitStep /\ HandlerPart /\ operation' = operation
  BY InvParts DEF ChargeHistory, DebitStep
<1>2. faults' \in 0..MaxFaults
  BY FaultsBounded DEF ChargeHistory
<1>3. HandlerPart'
  <2>1. CASE Finish(p, Review(handler[p].op))
    BY <1>1, <2>1, DebitStopFits
  <2>2. CASE Goto(p, "charge")
    BY <1>1, <2>2, DebitGotoFits DEF DebitStep
  <2>3. CASE Save(p, [handler[p].op EXCEPT !.confirmed = TRUE], "confirm_charge")
    BY <1>1, <2>3, InDebit, DebitUpdates, DebitSaveFits DEF DebitStep
  <2> QED
    BY <2>1, <2>2, <2>3 DEF ChargeHistory
<1> QED
  BY <1>2, <1>3, QuietStep DEF ChargeHistory

LEMMA ReadBalanceKeeps ==
  ASSUME LaunchInv, NEW p \in Process, ReadBalance(p) PROVE LaunchInv'
<1> DEFINE broke == [handler[p].op EXCEPT !.status = "insufficient",
                                          !.phase = "debit_pending", !.lease = NoProcess]
<1>1. handler[p].pc \in DebitStep /\ HandlerPart /\ operation' = operation /\ balance \in Nat
  BY InvParts DEF ReadBalance, DebitStep, RestTyped
<1>2. faults' \in 0..MaxFaults
  BY FaultsBounded DEF ReadBalance
<1>3. HandlerPart'
  <2>1. CASE Finish(p, RetryDebit(handler[p].op))
    BY <1>1, <2>1, DebitStopFits
  <2>2. CASE Finish(p, broke)
    <3>1. /\ broke \in OperationType /\ OperationFits(broke)
          /\ KeepsEvidence(handler[p].op, broke)
      <4>1. PICK op \in OperationType : op = handler[p].op /\ OperationFits(op)
                                        /\ op.phase = "debit_pending" /\ op.post = Unread
        BY <1>1, InDebit
      <4>2. "insufficient" \in Status \ (Terminal \cup {"none", "manual_review"})
            /\ "debit_pending" \in Phase \ (Terminal \cup {"none", "key_pending"})
        BY DEF Status, Phase, Terminal, FulfilPhase
      <4>3. broke \in OperationType
        BY <4>1, <4>2 DEF OperationType
      <4>4. /\ broke.status = "insufficient" /\ broke.phase = "debit_pending"
            /\ broke.attempted = op.attempted /\ broke.pre = op.pre
            /\ broke.confirmed = op.confirmed /\ broke.post = op.post
            /\ broke.refundAttempted = op.refundAttempted
            /\ broke.refundConfirmed = op.refundConfirmed
        BY <4>1 DEF OperationType
      <4> HIDE DEF broke
      <4>5. OperationFits(broke) /\ KeepsEvidence(op, broke)
        BY <4>1, <4>2, <4>4 DEF OperationFits, Early, KeepsEvidence
      <4>6. QED
        BY <4>1, <4>3, <4>5
    <3> HIDE DEF broke
    <3> QED
      BY <1>1, <2>2, <3>1, InDebit, SaveFits DEF Finish, Step
  <2>3. CASE Save(p, [handler[p].op EXCEPT !.pre = balance, !.attempted = TRUE], "charge")
    <3>1. ~handler[p].op.attempted
      BY <1>1, AtWork DEF ReadBalance, StepFits
    <3> QED
      BY <1>1, <2>3, <3>1, InDebit, DebitUpdates, DebitSaveFits
  <2> QED
    BY <2>1, <2>2, <2>3 DEF ReadBalance
<1> QED
  BY <1>2, <1>3, QuietStep DEF ReadBalance

LEMMA UseCodeTyped ==
  ASSUME LaunchInv, NEW l \in Launch, UseChargeCode(l) \/ UseRefundCode(l) \/ UNCHANGED walletVars
  PROVE  balance' \in Nat /\ charged' \subseteq Launch /\ refunded' \subseteq Launch
BY InvParts, PriceAssumption DEF RestTyped, UseChargeCode, UseRefundCode, walletVars

LEMMA ChargeKeeps ==
  ASSUME LaunchInv, NEW p \in Process, Charge(p) PROVE LaunchInv'
<1>1. handler[p].pc \in DebitStep /\ HandlerPart /\ operation' = operation
  BY InvParts DEF Charge, DebitStep
<1>2. faults' \in 0..MaxFaults
  BY FaultsBounded DEF Charge
<1>3. HandlerPart'
  <2>1. CASE Finish(p, RetryDebit(handler[p].op)) \/ Finish(p, Review(handler[p].op))
    BY <1>1, <2>1, DebitStopFits
  <2>2. CASE Save(p, [handler[p].op EXCEPT !.confirmed = TRUE], "confirm_charge")
    BY <1>1, <2>2, InDebit, DebitUpdates, DebitSaveFits DEF DebitStep
  <2> QED
    BY <2>1, <2>2 DEF Charge
<1>4. handler[p].launch \in Launch
  BY <1>1, InDebit
<1>5. UseChargeCode(handler[p].launch) \/ UNCHANGED walletVars
  BY DEF Charge, LostRequest
<1>6. balance' \in Nat /\ charged' \subseteq Launch /\ refunded' \subseteq Launch
  BY <1>4, <1>5, UseCodeTyped
<1>7. inFlight' \subseteq inFlight \cup (Launch \X {"charge", "refund"})
  BY <1>4 DEF Charge, LostRequest
<1>8. receipts' \in [Launch -> SUBSET {"purchase", "refund"}]
  BY InvParts DEF Charge, RestTyped
<1> QED
  BY <1>2, <1>3, <1>6, <1>7, <1>8, WalletStep DEF Charge

\* The balance after the charge completes the proof when it shows exactly Price.
LEMMA ProofTaken ==
  ASSUME NEW op \in OperationType, OperationFits(op), op.confirmed, NEW b \in Nat,
         op.post = Unread, ExactDelta(op.pre, b),
         NEW new, new = [op EXCEPT !.post = b, !.status = "debited", !.phase = "debited",
                                   !.lease = NoProcess]
  PROVE  new \in OperationType /\ OperationFits(new) /\ KeepsEvidence(op, new)
<1>1. op.attempted
  BY PriceAssumption DEF ExactDelta, OperationFits, OperationType
<1>2. new \in OperationType
  BY DEF OperationType, Status, Phase, FulfilPhase
<1>3. /\ new.attempted /\ new.confirmed /\ new.post = b /\ new.pre = op.pre
      /\ new.status = "debited" /\ new.phase = "debited"
      /\ new.refundAttempted = op.refundAttempted /\ new.refundConfirmed = op.refundConfirmed
  BY <1>1 DEF OperationType
<1>4. ChargeConfirmed(new)
  BY <1>3 DEF ChargeConfirmed, ExactDelta, Unread
<1>5. OperationFits(new)
  BY <1>3, <1>4 DEF OperationFits, Early, Terminal
<1>6. KeepsEvidence(op, new)
  BY <1>1, <1>3 DEF KeepsEvidence
<1> QED
  BY <1>2, <1>5, <1>6

LEMMA ConfirmChargeKeeps ==
  ASSUME LaunchInv, NEW p \in Process, ConfirmCharge(p) PROVE LaunchInv'
<1> DEFINE read == [handler[p].op EXCEPT !.post = balance]
           proven == [read EXCEPT !.status = "debited", !.phase = "debited",
                                  !.lease = NoProcess]
<1>1. handler[p].pc \in DebitStep /\ HandlerPart /\ operation' = operation /\ balance \in Nat
  BY InvParts DEF ConfirmCharge, DebitStep, RestTyped
<1>2. faults' \in 0..MaxFaults
  BY FaultsBounded DEF ConfirmCharge
<1>3. handler[p].op.confirmed
  BY <1>1, AtWork DEF ConfirmCharge, StepFits
<1>4. HandlerPart'
  <2>1. CASE Finish(p, RetryDebit(handler[p].op)) \/ Finish(p, Review(handler[p].op))
    BY <1>1, <2>1, DebitStopFits
  <2>2. CASE Finish(p, proven) /\ ExactDelta(handler[p].op.pre, balance)
    <3>1. /\ proven \in OperationType /\ OperationFits(proven)
          /\ KeepsEvidence(handler[p].op, proven)
      BY <1>1, <1>3, <2>2, InDebit, ProofTaken
    <3> HIDE DEF proven
    <3> QED
      BY <1>1, <2>2, <3>1, InDebit, SaveFits DEF Finish, Step
  <2>3. CASE Finish(p, Review(read)) /\ ~ExactDelta(handler[p].op.pre, balance)
    <3>1. /\ Review(read) \in OperationType /\ OperationFits(Review(read))
          /\ KeepsEvidence(handler[p].op, Review(read))
      <4>1. PICK op \in OperationType : op = handler[p].op /\ OperationFits(op)
                                        /\ op.phase = "debit_pending" /\ op.post = Unread
        BY <1>1, InDebit
      <4>2. "manual_review" \in Status \ (Terminal \cup {"none"})
            /\ "debit_pending" \in Phase \ (Terminal \cup {"none", "key_pending"})
        BY DEF Status, Phase, Terminal, FulfilPhase
      <4>3. PICK new : new = Review(read)
        OBVIOUS
      <4>4. new = [op EXCEPT !.post = balance, !.status = "manual_review",
                             !.lease = NoProcess]
        BY <4>1, <4>3 DEF Review
      <4>5. new \in OperationType
        BY <1>1, <4>2, <4>4 DEF OperationType
      <4>6. /\ new.status = "manual_review" /\ new.phase = op.phase
            /\ new.attempted = op.attempted /\ new.pre = op.pre
            /\ new.confirmed = op.confirmed /\ new.post = balance
            /\ new.refundAttempted = op.refundAttempted
            /\ new.refundConfirmed = op.refundConfirmed
        BY <1>1, <4>4 DEF OperationType
      <4>7. OperationFits(new) /\ KeepsEvidence(op, new)
        BY <2>3, <4>1, <4>2, <4>6 DEF OperationFits, Early, KeepsEvidence
      <4>8. QED
        BY <4>1, <4>3, <4>5, <4>7
    <3> HIDE DEF read
    <3> QED
      BY <1>1, <2>3, <3>1, InDebit, SaveFits DEF Finish, Step
  <2> QED
    BY <2>1, <2>2, <2>3 DEF ConfirmCharge
<1> QED
  BY <1>2, <1>4, QuietStep DEF ConfirmCharge
-----------------------------------------------------------------------------
(* Fulfilment, refund and the recovery past its proof.                     *)

LEMMA RestTypedNow ==
  ASSUME LaunchInv
  PROVE  RestTyped
BY InvParts

\* A handler past the debit may provide for its own launch.
LEMMA ProvidingStep ==
  ASSUME LaunchInv, NEW p \in Process, handler[p].pc \in FulfilStep,
         HandlerPart', operation' = operation, RestTyped',
         \A l \in Launch : l # handler[p].launch => (Provided(l)' => Provided(l))
  PROVE  LaunchInv'
<1>1. handler[p].pc # "idle" /\ HandlerPart
  BY InvParts DEF FulfilStep
<1>2. ChargeConfirmed(operation[handler[p].launch])
  BY <1>1, AtWork
<1> QED
  BY <1>2, OperationsStay

LEMMA BeginFulfilmentKeeps ==
  ASSUME LaunchInv, NEW p \in Process, BeginFulfilment(p) PROVE LaunchInv'
<1>1. handler[p].pc \in FulfilStep /\ HandlerPart
  BY InvParts DEF BeginFulfilment, FulfilStep, Step, FulfilPhase, DebitStep
<1>2. HandlerPart'
  BY <1>1, AdvanceFits DEF BeginFulfilment, FulfilPhase
<1>3. faults' \in 0..MaxFaults
  BY RestTypedNow DEF BeginFulfilment, RestTyped
<1> QED
  BY <1>2, <1>3, QuietStep DEF BeginFulfilment

LEMMA CreateTyped ==
  ASSUME LaunchInv, NEW l \in Launch,
         CreateCompute(l) \/ CreateStorage(l) \/ UNCHANGED fabricVars
  PROVE  /\ compute' \in [Launch -> ProviderState]
         /\ storage' \in [Launch -> ProviderState]
         /\ made' \in [Launch -> [Write -> WriteState]]
         /\ \A m \in Launch : m # l => /\ compute'[m] = compute[m]
                                       /\ storage'[m] = storage[m]
                                       /\ made'[m] = made[m]
BY RestTypedNow DEF RestTyped, CreateCompute, CreateStorage, fabricVars, ProviderState

\* Reading back after a prepare call that was answered or not.
LEMMA ReadFits ==
  ASSUME HandlerPart, operation' = operation, NEW p \in Process,
         handler[p].pc \in FulfilStep, NEW failed \in BOOLEAN,
         NEW step \in {"compute_readback", "storage_readback"},
         handler' = [handler EXCEPT ![p].pc = step, ![p].prepareFailed = failed]
  PROVE  HandlerPart'
<1> DEFINE h == [handler[p] EXCEPT !.pc = step, !.prepareFailed = failed]
<1>1. handler' = [handler EXCEPT ![p] = h]
  OBVIOUS
<1>2. handler[p].pc # "idle" /\ handler[p].pc # "persist" /\ step \in FulfilStep
      /\ step \in Step \ {"idle", "persist"} /\ step \notin DebitStep
  BY DEF FulfilStep, Step, DebitStep
<1>3. h \in HandlerType /\ h.pc = step /\ h.op = handler[p].op /\ h.base = handler[p].base
      /\ h.launch = handler[p].launch
  BY <1>2, AtWork DEF HandlerType
<1>4. StepFits(step, handler[p].op)
  BY <1>2, AtWork DEF StepFits, DebitStep
<1>5. HandlerFits(h)
  BY <1>2, <1>3, <1>4, AtWork DEF HandlerFits
<1>6. ChargeConfirmed(h.base) => ChargeConfirmed(operation[h.launch])
  BY <1>2, <1>3, AtWork
<1> HIDE DEF h
<1> QED
  BY <1>1, <1>3, <1>5, <1>6, HandlerChanges

\* A prepare call, whichever resource it is for.
LEMMA PrepareKeeps ==
  ASSUME LaunchInv, NEW p \in Process, handler[p].pc \in FulfilStep,
         NEW step \in {"compute_readback", "storage_readback"},
         handler' = [handler EXCEPT ![p].pc = step, ![p].prepareFailed = FALSE]
           \/ handler' = [handler EXCEPT ![p].pc = step, ![p].prepareFailed = TRUE]
           \/ Finish(p, Review(handler[p].op)),
         CreateCompute(handler[p].launch) \/ CreateStorage(handler[p].launch)
           \/ UNCHANGED fabricVars,
         inFlight' \in {inFlight, inFlight \cup {<<handler[p].launch, "compute">>},
                        inFlight \cup {<<handler[p].launch, "storage">>}},
         faults' \in 0..MaxFaults,
         UNCHANGED <<operation, expired, tableVars, walletVars, receipts, external>>
  PROVE  LaunchInv'
<1>1. HandlerPart /\ handler[p].pc # "idle"
  BY InvParts DEF FulfilStep
<1>2. handler[p].launch \in Launch
  BY <1>1, AtWork
<1>3. HandlerPart'
  <2>1. CASE Finish(p, Review(handler[p].op))
    BY <1>1, <2>1, StopFits
  <2>2. CASE handler' = [handler EXCEPT ![p].pc = step, ![p].prepareFailed = FALSE]
    BY <1>1, <2>2, ReadFits
  <2>3. CASE handler' = [handler EXCEPT ![p].pc = step, ![p].prepareFailed = TRUE]
    BY <1>1, <2>3, ReadFits
  <2> QED
    BY <2>1, <2>2, <2>3
<1>4. inFlight' \subseteq Launch \X {"charge", "refund", "compute", "storage"}
  BY <1>2, RestTypedNow DEF RestTyped
<1>5. RestTyped'
  BY <1>2, <1>4, CreateTyped, RestTypedNow DEF RestTyped, tableVars, walletVars
<1>6. \A l \in Launch : l # handler[p].launch => (Provided(l)' => Provided(l))
  BY <1>2, CreateTyped DEF Provided, tableVars
<1> QED
  BY <1>3, <1>5, <1>6, ProvidingStep

LEMMA PrepareComputeKeeps ==
  ASSUME LaunchInv, NEW p \in Process, PrepareCompute(p) PROVE LaunchInv'
<1>1. handler[p].pc \in FulfilStep
  BY DEF PrepareCompute, FulfilStep, Step, FulfilPhase, DebitStep
<1>2. faults' \in 0..MaxFaults
  BY FaultsBounded DEF PrepareCompute, Prepare
<1> QED
  BY <1>1, <1>2, PrepareKeeps DEF PrepareCompute, Prepare, LostRequest

LEMMA PrepareStorageKeeps ==
  ASSUME LaunchInv, NEW p \in Process, PrepareStorage(p) PROVE LaunchInv'
<1>1. handler[p].pc \in FulfilStep
  BY DEF PrepareStorage, FulfilStep, Step, FulfilPhase, DebitStep
<1>2. faults' \in 0..MaxFaults
  BY FaultsBounded, RestTypedNow DEF PrepareStorage, Prepare, RestTyped
<1> QED
  BY <1>1, <1>2, PrepareKeeps DEF PrepareStorage, Prepare, LostRequest

\* A handler past the debit writes the rows of its own launch.
LEMMA TablesStep ==
  ASSUME LaunchInv, NEW p \in Process, handler[p].pc \in FulfilStep, HandlerPart',
         faults' \in 0..MaxFaults,
         resourceRow' \in [Launch -> [compute : ProviderState, storage : ProviderState,
                                      attachment : BOOLEAN]],
         workspace' \in {workspace, workspace \cup {handler[p].launch}},
         UNCHANGED <<operation, expired, walletVars, fabricVars, receipts, inFlight, external>>
  PROVE  LaunchInv'
<1>1. HandlerPart /\ handler[p].pc # "idle"
  BY InvParts DEF FulfilStep
<1>2. handler[p].launch \in Launch
  BY <1>1, AtWork
<1>3. RestTyped'
  BY <1>2, RestTypedNow DEF RestTyped, walletVars, fabricVars
<1>4. \A l \in Launch : l # handler[p].launch => (Provided(l)' => Provided(l))
  BY DEF Provided, fabricVars
<1> QED
  BY <1>3, <1>4, ProvidingStep

\* The outcomes of a readback, and what it may save of what it read.
LEMMA ReadbackFits ==
  ASSUME LaunchInv, NEW p \in Process, handler[p].pc \in FulfilStep,
         operation' = operation, NEW fact, NEW ready, NEW absent,
         ready => HandlerPart', absent => HandlerPart', Readback(p, fact, ready, absent)
  PROVE  HandlerPart' /\ faults' \in 0..MaxFaults
<1>1. HandlerPart
  BY InvParts
<1>2. CASE Finish(p, Wait(handler[p].op)) \/ Finish(p, Review(handler[p].op))
  BY <1>1, <1>2, StopFits, FaultsBounded DEF Readback
<1>3. faults' \in 0..MaxFaults
  BY FaultsBounded DEF Readback
<1> QED
  BY <1>2, <1>3 DEF Readback

LEMMA SaveRowTyped ==
  ASSUME LaunchInv, NEW l \in Launch, NEW field \in {"compute", "storage"},
         NEW fact \in ProviderState, SaveRow(l, field, fact)
  PROVE  resourceRow' \in [Launch -> [compute : ProviderState, storage : ProviderState,
                                      attachment : BOOLEAN]]
<1>1. CASE field = "compute"
  BY <1>1, RestTypedNow DEF RestTyped, SaveRow
<1>2. CASE field = "storage"
  BY <1>2, RestTypedNow DEF RestTyped, SaveRow
<1> QED
  BY <1>1, <1>2

LEMMA ReadbackComputeKeeps ==
  ASSUME LaunchInv, NEW p \in Process, ReadbackCompute(p) PROVE LaunchInv'
<1>1. handler[p].pc \in FulfilStep /\ HandlerPart /\ operation' = operation
  BY InvParts DEF ReadbackCompute, FulfilStep, Step, FulfilPhase, DebitStep
<1>2. handler[p].launch \in Launch
  BY <1>1, AtWork DEF FulfilStep
<1>3. Save(p, Enter(handler[p].op, "storage_fulfilling"), "storage_fulfilling") => HandlerPart'
  BY <1>1, AdvanceFits DEF FulfilPhase
<1>4. Goto(p, "storage_absence") => HandlerPart'
  BY <1>1, StepOnFits DEF FulfilStep, Step, DebitStep
<1>5. HandlerPart' /\ faults' \in 0..MaxFaults
  BY <1>1, <1>3, <1>4, ReadbackFits DEF ReadbackCompute
<1>6. resourceRow' \in [Launch -> [compute : ProviderState, storage : ProviderState,
                                   attachment : BOOLEAN]]
  BY <1>2, RestTypedNow, SaveRowTyped DEF ReadbackCompute, RestTyped
<1> QED
  BY <1>1, <1>5, <1>6, TablesStep DEF ReadbackCompute

LEMMA ReadbackStorageKeeps ==
  ASSUME LaunchInv, NEW p \in Process, ReadbackStorage(p) PROVE LaunchInv'
<1>1. handler[p].pc \in FulfilStep /\ HandlerPart /\ operation' = operation
  BY InvParts DEF ReadbackStorage, FulfilStep, Step, FulfilPhase, DebitStep
<1>2. handler[p].launch \in Launch
  BY <1>1, AtWork DEF FulfilStep
<1>3. Save(p, Enter(handler[p].op, "attaching"), "attaching") => HandlerPart'
  BY <1>1, AdvanceFits DEF FulfilPhase
<1>4. Finish(p, Review(handler[p].op)) => HandlerPart'
  BY <1>1, StopFits
<1>5. HandlerPart' /\ faults' \in 0..MaxFaults
  BY <1>1, <1>3, <1>4, ReadbackFits DEF ReadbackStorage
<1>6. resourceRow' \in [Launch -> [compute : ProviderState, storage : ProviderState,
                                   attachment : BOOLEAN]]
  BY <1>2, RestTypedNow, SaveRowTyped DEF ReadbackStorage, RestTyped
<1> QED
  BY <1>1, <1>5, <1>6, TablesStep DEF ReadbackStorage

LEMMA StorageAbsenceKeeps ==
  ASSUME LaunchInv, NEW p \in Process, StorageAbsence(p) PROVE LaunchInv'
<1>1. handler[p].pc \in FulfilStep /\ HandlerPart /\ operation' = operation
  BY InvParts DEF StorageAbsence, FulfilStep, Step, DebitStep
<1>2. faults' \in 0..MaxFaults
  BY FaultsBounded DEF StorageAbsence
<1>3. HandlerPart'
  <2>1. CASE Goto(p, "refund")
    BY <1>1, <2>1, StepOnFits DEF FulfilStep, Step, DebitStep
  <2>2. CASE Finish(p, Review(handler[p].op))
    BY <1>1, <2>2, StopFits
  <2> QED
    BY <2>1, <2>2 DEF StorageAbsence
<1> QED
  BY <1>2, <1>3, QuietStep DEF StorageAbsence

LEMMA WriteTyped ==
  ASSUME LaunchInv, NEW l \in Launch, NEW w \in Write, NEW s \in WriteState,
         made' = [made EXCEPT ![l][w] = s]
  PROVE  /\ made' \in [Launch -> [Write -> WriteState]]
         /\ \A m \in Launch : m # l => made'[m] = made[m]
<1>1. made \in [Launch -> [Write -> WriteState]]
  BY RestTypedNow DEF RestTyped
<1> DEFINE row == [made[l] EXCEPT ![w] = s]
<1>2. row \in [Write -> WriteState]
  BY <1>1
<1>3. made' = [made EXCEPT ![l] = row]
  OBVIOUS
<1> HIDE DEF row
<1> QED
  BY <1>1, <1>2, <1>3

\* One write to Fabric, made, refused or failed.
LEMMA FabricWriteFits ==
  ASSUME LaunchInv, NEW p \in Process, handler[p].pc \in FulfilStep,
         operation' = operation, NEW w \in Write, NEW refused \in WriteState,
         NEW next \in FulfilPhase, FabricWrite(p, w, refused, next)
  PROVE  /\ HandlerPart'
         /\ faults' \in 0..MaxFaults
         /\ compute' = compute /\ storage' = storage
         /\ made' \in [Launch -> [Write -> WriteState]]
         /\ \A l \in Launch : l # handler[p].launch => made'[l] = made[l]
<1>1. HandlerPart /\ handler[p].pc # "idle" /\ handler[p].launch \in Launch
  BY InvParts, AtWork DEF FulfilStep
<1>2. faults' \in 0..MaxFaults
  BY FaultsBounded DEF FabricWrite
<1>3. HandlerPart'
  <2>1. CASE Finish(p, Retry(handler[p].op)) \/ Finish(p, Review(handler[p].op))
    BY <1>1, <2>1, StopFits
  <2>2. CASE Save(p, Enter(handler[p].op, next), next)
    BY <1>1, <2>2, AdvanceFits
  <2> QED
    BY <2>1, <2>2 DEF FabricWrite
<1>4. \/ UNCHANGED fabricVars
      \/ /\ UNCHANGED <<compute, storage>>
         /\ \E s \in WriteState : made' = [made EXCEPT ![handler[p].launch][w] = s]
  BY DEF FabricWrite, WriteState
<1>5. /\ compute' = compute /\ storage' = storage
      /\ made' \in [Launch -> [Write -> WriteState]]
      /\ \A l \in Launch : l # handler[p].launch => made'[l] = made[l]
  BY <1>1, <1>4, WriteTyped, RestTypedNow DEF RestTyped, fabricVars
<1> QED
  BY <1>2, <1>3, <1>5

\* A Fabric write and, for an attachment, its row.
LEMMA WriteStep ==
  ASSUME LaunchInv, NEW p \in Process, handler[p].pc \in FulfilStep, HandlerPart',
         faults' \in 0..MaxFaults, compute' = compute, storage' = storage,
         made' \in [Launch -> [Write -> WriteState]],
         \A l \in Launch : l # handler[p].launch => made'[l] = made[l],
         resourceRow' \in [Launch -> [compute : ProviderState, storage : ProviderState,
                                      attachment : BOOLEAN]],
         UNCHANGED <<operation, expired, workspace, walletVars, receipts, inFlight, external>>
  PROVE  LaunchInv'
<1>1. RestTyped'
  BY RestTypedNow DEF RestTyped, walletVars
<1>2. \A l \in Launch : l # handler[p].launch => (Provided(l)' => Provided(l))
  BY DEF Provided
<1> QED
  BY <1>1, <1>2, ProvidingStep

LEMMA AttachKeeps ==
  ASSUME LaunchInv, NEW p \in Process, Attach(p) PROVE LaunchInv'
<1>1. handler[p].pc \in FulfilStep /\ HandlerPart /\ operation' = operation
  BY InvParts DEF Attach, FulfilStep, Step, FulfilPhase, DebitStep
<1>2. handler[p].launch \in Launch
  BY <1>1, AtWork DEF FulfilStep
<1>3. CASE resourceRow[handler[p].launch].attachment
  <2>1. HandlerPart'
    BY <1>1, <1>3, AdvanceFits DEF Attach, FulfilPhase
  <2>2. faults' \in 0..MaxFaults
    BY <1>3, RestTypedNow DEF Attach, RestTyped
  <2> QED
    BY <1>3, <2>1, <2>2, QuietStep DEF Attach, tableVars
<1>4. CASE ~resourceRow[handler[p].launch].attachment
  <2>1. FabricWrite(p, "attachment", "none", "secret_writing")
    BY <1>4 DEF Attach
  <2>2. /\ HandlerPart' /\ faults' \in 0..MaxFaults
        /\ compute' = compute /\ storage' = storage
        /\ made' \in [Launch -> [Write -> WriteState]]
        /\ \A l \in Launch : l # handler[p].launch => made'[l] = made[l]
    BY <1>1, <2>1, FabricWriteFits DEF Write, WriteState, FulfilPhase
  <2>3. resourceRow' \in [Launch -> [compute : ProviderState, storage : ProviderState,
                                     attachment : BOOLEAN]]
    <3>1. PICK b \in BOOLEAN :
            resourceRow' = [resourceRow EXCEPT ![handler[p].launch].attachment = b]
      BY <1>4, Zenon DEF Attach
    <3> QED
      BY <1>2, <3>1, RestTypedNow DEF RestTyped
  <2> QED
    BY <1>1, <2>2, <2>3, WriteStep DEF Attach
<1> QED
  BY <1>3, <1>4

LEMMA WriteSecretKeeps ==
  ASSUME LaunchInv, NEW p \in Process, WriteSecret(p) PROVE LaunchInv'
<1>1. handler[p].pc \in FulfilStep /\ HandlerPart /\ operation' = operation
  BY InvParts DEF WriteSecret, FulfilStep, Step, FulfilPhase, DebitStep
<1>2. /\ HandlerPart' /\ faults' \in 0..MaxFaults
      /\ compute' = compute /\ storage' = storage
      /\ made' \in [Launch -> [Write -> WriteState]]
      /\ \A l \in Launch : l # handler[p].launch => made'[l] = made[l]
  BY <1>1, FabricWriteFits DEF WriteSecret, Write, WriteState, FulfilPhase
<1>3. resourceRow' \in [Launch -> [compute : ProviderState, storage : ProviderState,
                                   attachment : BOOLEAN]]
  BY RestTypedNow DEF WriteSecret, RestTyped, tableVars
<1> QED
  BY <1>1, <1>2, <1>3, WriteStep DEF WriteSecret, tableVars

LEMMA StartRuntimeKeeps ==
  ASSUME LaunchInv, NEW p \in Process, StartRuntime(p) PROVE LaunchInv'
<1>1. handler[p].pc \in FulfilStep /\ HandlerPart /\ operation' = operation
  BY InvParts DEF StartRuntime, FulfilStep, Step, FulfilPhase, DebitStep
<1>2. handler[p].launch \in Launch
  BY <1>1, AtWork DEF FulfilStep
<1>3. /\ HandlerPart' /\ faults' \in 0..MaxFaults
      /\ compute' = compute /\ storage' = storage
      /\ made' \in [Launch -> [Write -> WriteState]]
      /\ \A l \in Launch : l # handler[p].launch => made'[l] = made[l]
  <2>1. CASE FabricWrite(p, "runtime", "failed", "activating")
    BY <1>1, <2>1, FabricWriteFits DEF Write, WriteState, FulfilPhase
  <2>2. CASE /\ Fault /\ Finish(p, Wait(handler[p].op)) /\ UNCHANGED <<compute, storage>>
             /\ made' = [made EXCEPT ![handler[p].launch]["runtime"] = "made"]
    <3>1. HandlerPart'
      BY <1>1, <2>2, StopFits
    <3>2. faults' \in 0..MaxFaults
      BY <2>2, FaultsBounded
    <3>3. made' \in [Launch -> [Write -> WriteState]]
          /\ \A l \in Launch : l # handler[p].launch => made'[l] = made[l]
      BY <1>2, <2>2, WriteTyped DEF Write, WriteState
    <3> QED
      BY <2>2, <3>1, <3>2, <3>3
  <2> QED
    BY <2>1, <2>2 DEF StartRuntime
<1>4. resourceRow' \in [Launch -> [compute : ProviderState, storage : ProviderState,
                                   attachment : BOOLEAN]]
  BY RestTypedNow DEF StartRuntime, RestTyped, tableVars
<1> QED
  BY <1>1, <1>3, <1>4, WriteStep DEF StartRuntime, tableVars

\* The control plane's rows of a launch's resources, when one of them is saved.
RowType == [compute : ProviderState, storage : ProviderState, attachment : BOOLEAN]

LEMMA RowSaved ==
  ASSUME NEW f \in [Launch -> RowType], NEW l, NEW state \in ProviderState
  PROVE  /\ [f EXCEPT ![l].compute = state] \in [Launch -> RowType]
         /\ [f EXCEPT ![l].storage = state] \in [Launch -> RowType]
<1>1. ASSUME NEW m \in Launch
      PROVE  /\ [f[m] EXCEPT !.compute = state] \in RowType
             /\ [f[m] EXCEPT !.storage = state] \in RowType
  <2>1. PICK row \in RowType : row = f[m]
    OBVIOUS
  <2>2. [row EXCEPT !.compute = state] \in RowType /\ [row EXCEPT !.storage = state] \in RowType
    BY DEF RowType
  <2>3. QED
    BY <2>1, <2>2
<1>2. QED
  BY <1>1

LEMMA VerifyProviderKeeps ==
  ASSUME LaunchInv, NEW p \in Process, VerifyProvider(p) PROVE LaunchInv'
<1>1. handler[p].pc \in FulfilStep /\ HandlerPart /\ operation' = operation
  BY InvParts DEF VerifyProvider, FulfilStep, Step, FulfilPhase, DebitStep
<1>2. handler[p].launch \in Launch
  BY <1>1, AtWork DEF FulfilStep
<1>3. faults' \in 0..MaxFaults
  BY FaultsBounded DEF VerifyProvider
<1>4. HandlerPart'
  <2>1. CASE Goto(p, "activate")
    BY <1>1, <2>1, StepOnFits DEF FulfilStep, Step, DebitStep
  <2>2. CASE Finish(p, Review(handler[p].op))
    BY <1>1, <2>2, StopFits
  <2> QED
    BY <2>1, <2>2 DEF VerifyProvider
<1>5. resourceRow' \in [Launch -> [compute : ProviderState, storage : ProviderState,
                                   attachment : BOOLEAN]]
  <2> DEFINE l == handler[p].launch
  <2>1. \/ resourceRow' = [resourceRow EXCEPT ![l].compute = "ready", ![l].storage = "ready"]
        \/ resourceRow' = [resourceRow EXCEPT ![l].compute = "ready"]
        \/ resourceRow' = resourceRow
    BY DEF VerifyProvider
  <2>2. "ready" \in ProviderState
    BY DEF ProviderState
  <2> HIDE DEF l
  <2>3. resourceRow \in [Launch -> RowType]
    BY RestTypedNow DEF RestTyped, RowType
  <2> DEFINE one == [resourceRow EXCEPT ![l].compute = "ready"]
             both == [one EXCEPT ![l].storage = "ready"]
  <2>4. one \in [Launch -> RowType]
    BY <2>2, <2>3, RowSaved
  <2>5. resourceRow' \in {resourceRow, one, both}
    BY <2>1
  <2> HIDE DEF one
  <2>6. both \in [Launch -> RowType]
    BY <2>2, <2>4, RowSaved
  <2> HIDE DEF both
  <2>7. resourceRow' \in [Launch -> RowType]
    BY <2>3, <2>4, <2>5, <2>6
  <2>8. QED
    BY <2>7 DEF RowType
<1> QED
  BY <1>1, <1>3, <1>4, <1>5, TablesStep DEF VerifyProvider

LEMMA ActivateKeeps ==
  ASSUME LaunchInv, NEW p \in Process, Activate(p) PROVE LaunchInv'
<1>1. handler[p].pc \in FulfilStep /\ HandlerPart /\ operation' = operation
  BY InvParts DEF Activate, FulfilStep, Step, DebitStep
<1>2. faults' \in 0..MaxFaults
  BY FaultsBounded DEF Activate
<1>3. HandlerPart'
  <2>1. CASE Save(p, Enter(handler[p].op, "receipt_pending"), "receipt_pending")
    BY <1>1, <2>1, AdvanceFits DEF FulfilPhase
  <2>2. CASE Finish(p, Review(handler[p].op)) \/ Finish(p, Retry(handler[p].op))
    BY <1>1, <2>2, StopFits
  <2> QED
    BY <2>1, <2>2 DEF Activate
<1>4. resourceRow' \in [Launch -> [compute : ProviderState, storage : ProviderState,
                                   attachment : BOOLEAN]]
  BY RestTypedNow DEF Activate, RestTyped
<1>5. workspace' \in {workspace, workspace \cup {handler[p].launch}}
  BY DEF Activate
<1> QED
  BY <1>1, <1>2, <1>3, <1>4, <1>5, TablesStep DEF Activate

\* A receipt settles the operation, or the handler stops.
LEMMA SettledFits ==
  ASSUME HandlerPart, operation' = operation, NEW p \in Process,
         handler[p].pc \in FulfilStep, NEW outcome \in Terminal,
         Finish(p, [handler[p].op EXCEPT !.status = outcome, !.phase = outcome,
                                         !.lease = NoProcess])
  PROVE  HandlerPart'
<1> DEFINE settled == [handler[p].op EXCEPT !.status = outcome, !.phase = outcome,
                                            !.lease = NoProcess]
<1>1. /\ handler[p].pc # "idle" /\ handler[p].op \in OperationType
      /\ ChargeConfirmed(handler[p].op)
  BY AtWork DEF FulfilStep, StepFits
<1>2. settled \in OperationType
  BY <1>1 DEF OperationType, Status, Phase
<1>3. /\ settled.attempted = handler[p].op.attempted /\ settled.pre = handler[p].op.pre
      /\ settled.post = handler[p].op.post /\ settled.confirmed = handler[p].op.confirmed
      /\ settled.status = outcome /\ settled.phase = outcome
      /\ KeepsEvidence(handler[p].op, settled)
  BY <1>1 DEF OperationType, KeepsEvidence
<1>4. ChargeConfirmed(settled)
  BY <1>1, <1>3 DEF ChargeConfirmed
<1>5. OperationFits(settled)
  BY <1>3, <1>4 DEF OperationFits, Early, Terminal, ChargeConfirmed
<1> HIDE DEF settled
<1> QED
  BY <1>1, <1>2, <1>3, <1>5, SaveFits DEF Finish, Step, settled

LEMMA RecordFits ==
  ASSUME LaunchInv, NEW p \in Process, handler[p].pc \in FulfilStep,
         operation' = operation, NEW kind \in {"purchase", "refund"},
         NEW outcome \in Terminal, Record(p, kind, outcome)
  PROVE  /\ HandlerPart'
         /\ faults' \in 0..MaxFaults
         /\ receipts' \in [Launch -> SUBSET {"purchase", "refund"}]
<1>1. HandlerPart /\ handler[p].launch \in Launch
  BY InvParts, AtWork DEF FulfilStep
<1>2. faults' \in 0..MaxFaults
  BY FaultsBounded DEF Record
<1>3. receipts' \in [Launch -> SUBSET {"purchase", "refund"}]
  BY <1>1, RestTypedNow DEF Record, RestTyped
<1>4. HandlerPart'
  BY <1>1, StopFits, SettledFits DEF Record
<1> QED
  BY <1>2, <1>3, <1>4

LEMMA RecordPurchaseKeeps ==
  ASSUME LaunchInv, NEW p \in Process, RecordPurchase(p) PROVE LaunchInv'
<1>1. /\ handler[p].pc \in FulfilStep /\ HandlerPart /\ operation' = operation
      /\ RestTyped
  BY InvParts DEF RecordPurchase, FulfilStep, Step, FulfilPhase, DebitStep
<1>2. /\ HandlerPart' /\ faults' \in 0..MaxFaults
      /\ receipts' \in [Launch -> SUBSET {"purchase", "refund"}]
  <2>1. CASE Record(p, "purchase", "succeeded")
    BY <1>1, <2>1, RecordFits DEF Terminal
  <2>2. CASE Sound /\ UNCHANGED receipts /\ Finish(p, Retry(handler[p].op))
    BY <1>1, <2>2, StopFits, FaultsBounded DEF RestTyped
  <2> QED
    BY <2>1, <2>2 DEF RecordPurchase
<1> QED
  BY <1>1, <1>2, WalletStep DEF RecordPurchase, RestTyped, walletVars

LEMMA RecordRefundKeeps ==
  ASSUME LaunchInv, NEW p \in Process, RecordRefund(p) PROVE LaunchInv'
<1>1. /\ handler[p].pc \in FulfilStep /\ HandlerPart /\ operation' = operation
      /\ RestTyped
  BY InvParts DEF RecordRefund, FulfilStep, Step, DebitStep
<1>2. /\ HandlerPart' /\ faults' \in 0..MaxFaults
      /\ receipts' \in [Launch -> SUBSET {"purchase", "refund"}]
  BY <1>1, RecordFits DEF RecordRefund, Terminal
<1> QED
  BY <1>1, <1>2, WalletStep DEF RecordRefund, RestTyped, walletVars

\* The refund is noted in an operation before and after its call.
LEMMA RefundNotesFit ==
  ASSUME HandlerPart, operation' = operation, NEW p \in Process,
         handler[p].pc \in FulfilStep, handler[p].pc # "persist",
         NEW new, NEW step \in {"refund_call", "refund_receipt"},
         \/ new = [handler[p].op EXCEPT !.refundConfirmed = TRUE]
         \/ new = [handler[p].op EXCEPT !.status = "refund_pending", !.phase = "refund_pending",
                                        !.refundAttempted = TRUE],
         Save(p, new, step)
  PROVE  HandlerPart'
<1>1. /\ handler[p].pc # "idle" /\ handler[p].op \in OperationType
      /\ OperationFits(handler[p].op) /\ ChargeConfirmed(handler[p].op)
      /\ handler[p].op.phase \notin Terminal
  BY AtWork DEF FulfilStep, StepFits
<1>2. new \in OperationType
  <2>1. "refund_pending" \in Status /\ "refund_pending" \in Phase
    BY DEF Status, Phase
  <2>2. QED
    BY <1>1, <2>1 DEF OperationType
<1>3. /\ new.attempted = handler[p].op.attempted /\ new.pre = handler[p].op.pre
      /\ new.post = handler[p].op.post /\ new.confirmed = handler[p].op.confirmed
      /\ \/ new.status = handler[p].op.status /\ new.phase = handler[p].op.phase
         \/ new.status = "refund_pending" /\ new.phase = "refund_pending"
      /\ KeepsEvidence(handler[p].op, new)
  <2>1. PICK op \in OperationType : op = handler[p].op
    BY <1>1
  <2>2. CASE new = [op EXCEPT !.refundConfirmed = TRUE]
    BY <2>1, <2>2 DEF OperationType, KeepsEvidence
  <2>3. CASE new = [op EXCEPT !.status = "refund_pending", !.phase = "refund_pending",
                              !.refundAttempted = TRUE]
    BY <2>1, <2>3 DEF OperationType, KeepsEvidence
  <2>4. QED
    BY <2>1, <2>2, <2>3
<1>4. ChargeConfirmed(new)
  BY <1>1, <1>3 DEF ChargeConfirmed
<1>5. OperationFits(new) /\ new.phase \notin Terminal
  BY <1>1, <1>3, <1>4 DEF OperationFits, Early, Terminal, ExactDelta, ChargeConfirmed
<1>6. step \in Step \ {"persist", "idle"} /\ step \notin DebitStep
  BY DEF Step, DebitStep
<1>7. StepFits(step, new)
  BY <1>4, <1>5, <1>6 DEF StepFits, DebitStep
<1> QED
  BY <1>1, <1>2, <1>3, <1>5, <1>6, <1>7, SaveFits

LEMMA BeginRefundKeeps ==
  ASSUME LaunchInv, NEW p \in Process, BeginRefund(p) PROVE LaunchInv'
<1>1. handler[p].pc \in FulfilStep /\ HandlerPart /\ operation' = operation
      /\ handler[p].pc # "persist"
  BY InvParts DEF BeginRefund, FulfilStep, Step, DebitStep
<1>2. faults' \in 0..MaxFaults
  BY FaultsBounded DEF BeginRefund
<1>3. HandlerPart'
  <2>1. CASE Goto(p, "refund_receipt") \/ Goto(p, "refund_history")
    BY <1>1, <2>1, StepOnFits DEF FulfilStep, Step, DebitStep
  <2>2. CASE Save(p, [handler[p].op EXCEPT !.status = "refund_pending",
                                           !.phase = "refund_pending",
                                           !.refundAttempted = TRUE], "refund_call")
    BY <1>1, <2>2, RefundNotesFit
  <2>3. CASE Finish(p, Review(handler[p].op))
    BY <1>1, <2>3, StopFits
  <2> QED
    BY <2>1, <2>2, <2>3 DEF BeginRefund
<1> QED
  BY <1>2, <1>3, QuietStep DEF BeginRefund

LEMMA RefundHistoryKeeps ==
  ASSUME LaunchInv, NEW p \in Process, RefundHistory(p) PROVE LaunchInv'
<1>1. handler[p].pc \in FulfilStep /\ HandlerPart /\ operation' = operation
      /\ handler[p].pc # "persist"
  BY InvParts DEF RefundHistory, FulfilStep, Step, DebitStep
<1>2. faults' \in 0..MaxFaults
  BY FaultsBounded DEF RefundHistory
<1>3. HandlerPart'
  <2>1. CASE Goto(p, "refund_call")
    BY <1>1, <2>1, StepOnFits DEF FulfilStep, Step, DebitStep
  <2>2. CASE Save(p, [handler[p].op EXCEPT !.refundConfirmed = TRUE], "refund_receipt")
    BY <1>1, <2>2, RefundNotesFit
  <2>3. CASE Finish(p, Review(handler[p].op))
    BY <1>1, <2>3, StopFits
  <2> QED
    BY <2>1, <2>2, <2>3 DEF RefundHistory
<1> QED
  BY <1>2, <1>3, QuietStep DEF RefundHistory

LEMMA RefundCallKeeps ==
  ASSUME LaunchInv, NEW p \in Process, RefundCall(p) PROVE LaunchInv'
<1>1. /\ handler[p].pc \in FulfilStep /\ HandlerPart /\ operation' = operation
      /\ handler[p].pc # "persist" /\ RestTyped
  BY InvParts DEF RefundCall, FulfilStep, Step, DebitStep
<1>2. faults' \in 0..MaxFaults
  BY FaultsBounded DEF RefundCall
<1>3. HandlerPart'
  <2>1. CASE Save(p, [handler[p].op EXCEPT !.refundConfirmed = TRUE], "refund_receipt")
    BY <1>1, <2>1, RefundNotesFit
  <2>2. CASE Finish(p, Retry(handler[p].op))
    BY <1>1, <2>2, StopFits
  <2> QED
    BY <2>1, <2>2 DEF RefundCall
<1>4. handler[p].launch \in Launch
  BY <1>1, AtWork DEF FulfilStep
<1>5. UseRefundCode(handler[p].launch) \/ UNCHANGED walletVars
  BY DEF RefundCall, LostRequest
<1>6. balance' \in Nat /\ charged' \subseteq Launch /\ refunded' \subseteq Launch
  BY <1>4, <1>5, UseCodeTyped
<1>7. inFlight' \subseteq inFlight \cup (Launch \X {"charge", "refund"})
  BY <1>4 DEF RefundCall, LostRequest
<1> QED
  BY <1>1, <1>2, <1>3, <1>6, <1>7, WalletStep DEF RefundCall, RestTyped

\* The recovery goes on, without a lease, where the provider truth allows.
LEMMA ResumeFits ==
  ASSUME HandlerPart, operation' = operation, NEW p \in Process,
         handler[p].pc \in FulfilStep, NEW phase \in FulfilPhase,
         Save(p, [Enter(handler[p].op, phase) EXCEPT !.lease = NoProcess], phase)
  PROVE  HandlerPart'
<1> DEFINE new == [Enter(handler[p].op, phase) EXCEPT !.lease = NoProcess]
<1>1. /\ handler[p].pc # "idle" /\ handler[p].op \in OperationType
      /\ OperationFits(handler[p].op) /\ ChargeConfirmed(handler[p].op)
  BY AtWork DEF FulfilStep, StepFits
<1>2. new \in OperationType
  BY <1>1 DEF OperationType, Enter, Status, Phase
<1>3. /\ new.attempted = handler[p].op.attempted /\ new.pre = handler[p].op.pre
      /\ new.post = handler[p].op.post /\ new.confirmed = handler[p].op.confirmed
      /\ new.status = "preparing" /\ new.phase = phase
      /\ KeepsEvidence(handler[p].op, new)
  BY <1>1 DEF OperationType, Enter, KeepsEvidence
<1>4. ChargeConfirmed(new)
  BY <1>1, <1>3 DEF ChargeConfirmed
<1>5. phase \notin Terminal /\ phase \in Step \ {"persist", "idle"} /\ phase \notin DebitStep
      /\ phase \notin {"none", "key_pending", "debit_pending"}
  BY DEF FulfilPhase, Terminal, Step, DebitStep
<1>6. OperationFits(new)
  BY <1>3, <1>4, <1>5 DEF OperationFits, Early, Terminal, ChargeConfirmed
<1>7. StepFits(phase, new)
  BY <1>3, <1>4, <1>5 DEF StepFits, DebitStep
<1> HIDE DEF new
<1> QED
  BY <1>1, <1>2, <1>3, <1>5, <1>6, <1>7, SaveFits DEF new

LEMMA RecoverTruthKeeps ==
  ASSUME LaunchInv, NEW p \in Process, RecoverTruth(p) PROVE LaunchInv'
<1>1. /\ handler[p].pc \in FulfilStep /\ HandlerPart /\ operation' = operation
      /\ RestTyped
  BY InvParts DEF RecoverTruth, FulfilStep, Step, DebitStep
<1>2. faults' \in 0..MaxFaults
  BY FaultsBounded DEF RecoverTruth
<1>3. handler[p].launch \in Launch
  BY <1>1, AtWork DEF FulfilStep
<1>4. HandlerPart'
  <2>1. CASE Save(p, [Enter(handler[p].op, "attaching") EXCEPT !.lease = NoProcess], "attaching")
    BY <1>1, <2>1, ResumeFits DEF FulfilPhase
  <2>2. CASE Save(p, [Enter(handler[p].op, "storage_fulfilling") EXCEPT !.lease = NoProcess],
                  "storage_fulfilling")
    BY <1>1, <2>2, ResumeFits DEF FulfilPhase
  <2>3. CASE Goto(p, "refund")
    BY <1>1, <2>3, StepOnFits DEF FulfilStep, Step, DebitStep
  <2>4. CASE Return(p)
    BY <1>1, <2>4, ReturnFits
  <2> QED
    BY <2>1, <2>2, <2>3, <2>4 DEF RecoverTruth
<1>5. resourceRow' \in [Launch -> [compute : ProviderState, storage : ProviderState,
                                   attachment : BOOLEAN]]
  <2>1. CASE \E c, s \in ProviderState :
               resourceRow' = [resourceRow EXCEPT ![handler[p].launch].compute = c,
                                                  ![handler[p].launch].storage = s]
    BY <1>1, <1>3, <2>1 DEF RestTyped
  <2>2. CASE UNCHANGED resourceRow
    BY <1>1, <2>2 DEF RestTyped
  <2>3. CASE \E c \in ProviderState :
               \/ resourceRow' = [resourceRow EXCEPT ![handler[p].launch].compute = c]
               \/ resourceRow' = [resourceRow EXCEPT ![handler[p].launch].storage = c]
    BY <1>1, <1>3, <2>3 DEF RestTyped
  <2>4. compute[handler[p].launch] \in ProviderState /\ storage[handler[p].launch] \in ProviderState
    BY <1>1, <1>3 DEF RestTyped
  <2> QED
    BY <2>1, <2>2, <2>3, <2>4, Zenon DEF RecoverTruth
<1> QED
  BY <1>1, <1>2, <1>4, <1>5, TablesStep DEF RecoverTruth
-----------------------------------------------------------------------------
(* The steps that write operations.                                        *)

\* An operation is replaced by one that keeps its proof, if it had one, while a
\* handler becomes one that fits.
LEMMA OperationChanges ==
  ASSUME LaunchInv, NEW l \in Launch, NEW op \in OperationType, OperationFits(op),
         ChargeConfirmed(operation[l]) => ChargeConfirmed(op),
         operation' = [operation EXCEPT ![l] = op],
         NEW p \in Process, NEW h \in HandlerType, HandlerFits(h),
         handler' = [handler EXCEPT ![p] = h],
         h.pc # "idle" /\ ChargeConfirmed(h.base) => ChargeConfirmed(operation'[h.launch]),
         expired' \subseteq Launch,
         UNCHANGED <<tableVars, walletVars, fabricVars, receipts, inFlight, faults, external>>
  PROVE  LaunchInv'
<1>1. /\ operation \in [Launch -> OperationType] /\ HandlerPart /\ RestTyped
      /\ \A m \in Launch : OperationFits(operation[m])
      /\ \A m \in Launch : Provided(m) => ChargeConfirmed(operation[m])
  BY InvParts
<1>2. operation' \in [Launch -> OperationType]
  BY <1>1
<1>3. \A m \in Launch : operation'[m] = IF m = l THEN op ELSE operation[m]
  BY <1>1
<1>4. \A m \in Launch : OperationFits(operation'[m])
  BY <1>1, <1>3
<1>5. \A m \in Launch : ChargeConfirmed(operation[m]) => ChargeConfirmed(operation'[m])
  BY <1>3
<1>6. HandlerPart'
  <2>1. handler' \in [Process -> HandlerType]
    BY <1>1 DEF HandlerPart
  <2>2. \A q \in Process : handler'[q] = IF q = p THEN h ELSE handler[q]
    BY <1>1 DEF HandlerPart
  <2>3. \A q \in Process : HandlerFits(handler'[q])
    BY <1>1, <2>2 DEF HandlerPart
  <2>4. ASSUME NEW q \in Process, handler'[q].pc # "idle", ChargeConfirmed(handler'[q].base)
        PROVE  ChargeConfirmed(operation'[handler'[q].launch])
    BY <1>1, <1>5, <2>2, <2>4, AtWork DEF HandlerPart, ProofKept
  <2> QED
    BY <2>1, <2>3, <2>4 DEF HandlerPart, ProofKept
<1>7. RestTyped'
  BY <1>1 DEF RestTyped, tableVars, walletVars, fabricVars
<1>8. \A m \in Launch : Provided(m)' => ChargeConfirmed(operation'[m])
  BY <1>1, <1>5 DEF Provided, tableVars, fabricVars
<1> QED
  BY <1>2, <1>4, <1>6, <1>7, <1>8, InvPartsNext

LEMMA PersistKeeps ==
  ASSUME LaunchInv, NEW p \in Process, Persist(p) PROVE LaunchInv'
<1> DEFINE h == handler[p]
           on == [h EXCEPT !.pc = h.then, !.base = h.op]
<1>1. /\ h.pc = "persist" /\ HandlerPart /\ RestTyped
      /\ h \in HandlerType /\ h.launch \in Launch /\ h.op \in OperationType
      /\ OperationFits(h.op)
  BY InvParts, AtWork DEF Persist
<1>2. HandlerFits(h) /\ h # Idle
  BY <1>1, IdleFits DEF HandlerPart
<1>3. /\ ChargeConfirmed(h.base) => ChargeConfirmed(h.op)
      /\ h.then # "idle" => h.then # "persist" /\ StepFits(h.then, h.op)
  BY <1>1, <1>2, AtWork, EvidenceKeepsProof DEF HandlerFits
<1>4. CASE ~Current(h)
  <2>1. HandlerPart' /\ faults' \in 0..MaxFaults
    BY <1>1, <1>4, ReturnFits DEF Persist, RestTyped
  <2> QED
    BY <1>4, <2>1, QuietStep DEF Persist
<1>5. CASE Current(h) /\ h.then = "idle"
  <2>1. expired' \subseteq Launch
    BY <1>1 DEF Persist, RestTyped
  <2>2. /\ operation' = [operation EXCEPT ![h.launch] = h.op]
        /\ handler' = [handler EXCEPT ![p] = Idle]
        /\ ChargeConfirmed(operation[h.launch]) => ChargeConfirmed(h.op)
    BY <1>3, <1>5 DEF Persist, Current, Return
  <2> HIDE DEF h
  <2> QED
    BY <1>1, <2>1, <2>2, IdleFits, OperationChanges DEF Persist
<1>6. CASE Current(h) /\ h.then # "idle"
  <2>1. expired' \subseteq Launch
    BY <1>1 DEF Persist, RestTyped
  <2>2. /\ operation' = [operation EXCEPT ![h.launch] = h.op]
        /\ handler' = [handler EXCEPT ![p] = on]
        /\ ChargeConfirmed(operation[h.launch]) => ChargeConfirmed(h.op)
    BY <1>1, <1>3, <1>6 DEF Persist, Current
  <2>3. /\ on \in HandlerType /\ on.pc = h.then /\ on.base = h.op /\ on.op = h.op
        /\ on.launch = h.launch
    BY <1>1 DEF HandlerType
  <2>4. HandlerFits(on)
    BY <1>1, <1>3, <1>6, <2>3, EvidenceKeptBySame DEF HandlerFits, StepFits, OperationFits
  <2>5. operation'[h.launch] = h.op
    BY <1>1, <2>2, InvParts
  <2> HIDE DEF on, h
  <2> QED
    BY <1>1, <2>1, <2>2, <2>3, <2>4, <2>5, OperationChanges DEF Persist
<1> QED
  BY <1>4, <1>5, <1>6

LEMMA AbortKeeps ==
  ASSUME LaunchInv, NEW p \in Process, Abort(p) PROVE LaunchInv'
<1>1. HandlerPart' /\ faults' \in 0..MaxFaults
  BY InvParts, ReturnFits, FaultsBounded DEF Abort
<1> QED
  BY <1>1, QuietStep DEF Abort

\* A new submission, or its key, moves an operation that has proven nothing yet.
LEMMA EarlyMoveKeeps ==
  ASSUME LaunchInv, NEW p \in Process, NEW l \in Launch,
         NEW phase \in {"key_pending", "debit_pending"},
         operation[l].phase \in {"none", "key_pending"},
         operation' = [operation EXCEPT ![l].status = "debit_pending", ![l].phase = phase],
         operation[l].post = Unread,
         UNCHANGED <<expired, handler, tableVars, walletVars, fabricVars, receipts, inFlight,
                     faults, external>>
  PROVE  LaunchInv'
<1> DEFINE op == [operation[l] EXCEPT !.status = "debit_pending", !.phase = phase]
<1>1. /\ operation[l] \in OperationType /\ OperationFits(operation[l]) /\ HandlerPart
      /\ RestTyped
  BY InvParts
<1>2. op \in OperationType
  BY <1>1 DEF OperationType, Status, Phase
<1>3. /\ op.status = "debit_pending" /\ op.phase = phase /\ op.post = Unread
      /\ op.attempted = operation[l].attempted /\ op.pre = operation[l].pre
  BY <1>1 DEF OperationType
<1>4. OperationFits(op)
  BY <1>1, <1>3 DEF OperationFits, Early, Terminal
<1>5. ~ChargeConfirmed(operation[l])
  BY DEF ChargeConfirmed
<1>6. operation' = [operation EXCEPT ![l] = op]
  BY InvParts
<1>7. /\ handler[p] \in HandlerType /\ HandlerFits(handler[p])
      /\ handler' = [handler EXCEPT ![p] = handler[p]]
  BY <1>1 DEF HandlerPart
<1>8. handler[p].pc # "idle" /\ ChargeConfirmed(handler[p].base)
        => ChargeConfirmed(operation'[handler[p].launch])
  BY <1>1, <1>5, <1>6, InvParts, AtWork
<1>9. expired' \subseteq Launch
  BY <1>1 DEF RestTyped
<1> HIDE DEF op
<1> QED
  BY <1>2, <1>4, <1>5, <1>6, <1>7, <1>8, <1>9, OperationChanges

LEMMA SubmitKeeps ==
  ASSUME LaunchInv, NEW p \in Process, NEW l \in Launch, Submit(p, l) PROVE LaunchInv'
<1>1. operation[l].phase = "none" /\ operation[l].post = Unread
  BY DEF Submit, Blank
<1> QED
  BY <1>1, EarlyMoveKeeps DEF Submit

LEMMA ConvergeKeyKeeps ==
  ASSUME LaunchInv, NEW p \in Process, NEW l \in Launch, ConvergeKey(p, l) PROVE LaunchInv'
<1>1. operation[l].phase = "key_pending" /\ OperationFits(operation[l])
  BY InvParts DEF ConvergeKey
<1>2. operation[l].post = Unread
  BY <1>1 DEF OperationFits, Early
<1> QED
  BY <1>1, <1>2, EarlyMoveKeeps DEF ConvergeKey

LEMMA ClaimKeeps ==
  ASSUME LaunchInv, NEW p \in Process, NEW l \in Launch, Claim(p, l) PROVE LaunchInv'
<1> DEFINE op == [operation[l] EXCEPT !.lease = p]
           h == [Idle EXCEPT !.pc = ResumeAt(op), !.launch = l, !.op = op, !.base = op]
<1>1. /\ operation[l] \in OperationType /\ OperationFits(operation[l]) /\ RestTyped
      /\ operation \in [Launch -> OperationType]
  BY InvParts
<1>2. op \in OperationType
  BY <1>1 DEF OperationType
<1>3. /\ op.status = operation[l].status /\ op.phase = operation[l].phase
      /\ op.attempted = operation[l].attempted /\ op.pre = operation[l].pre
      /\ op.post = operation[l].post /\ op.confirmed = operation[l].confirmed
  BY <1>1 DEF OperationType
<1>4. OperationFits(op) /\ (ChargeConfirmed(operation[l]) => ChargeConfirmed(op))
  BY <1>1, <1>3 DEF OperationFits, ChargeConfirmed, Early
<1>5. /\ op.phase \in FulfilPhase \cup {"debit_pending", "refund_pending"}
      /\ op.status \notin Terminal /\ op.status # "manual_review"
  BY <1>1, <1>3 DEF Claim, Runnable, OperationFits, OperationType, Phase
<1> HIDE DEF op
<1>6. /\ ResumeAt(op) \in Step \ {"idle", "persist"}
      /\ StepFits(ResumeAt(op), op)
      /\ ResumeAt(op) \in DebitStep => op.post = Unread
      /\ ResumeAt(op) \in FulfilStep => ChargeConfirmed(op)
  <2>1. CASE op.phase = "debit_pending"
    <3>1. ResumeAt(op) = "debit_guard" /\ op.post = Unread
      BY <1>4, <1>5, <2>1 DEF ResumeAt, OperationFits, Early
    <3> QED
      BY <2>1, <3>1 DEF StepFits, Step, DebitStep, FulfilStep, Terminal
  <2>2. CASE op.phase \in FulfilPhase \cup {"refund_pending"}
    <3>1. ChargeConfirmed(op)
      BY <1>4, <2>2 DEF OperationFits, Early, FulfilPhase
    <3>2. ResumeAt(op) \in FulfilPhase \cup {"refund"} /\ op.phase \notin Terminal
      BY <2>2 DEF ResumeAt, FulfilPhase, Terminal
    <3> QED
      BY <3>1, <3>2 DEF StepFits, Step, DebitStep, FulfilPhase
  <2> QED
    BY <1>5, <2>1, <2>2
<1>7. h \in HandlerType /\ h.pc = ResumeAt(op) /\ h.launch = l /\ h.op = op /\ h.base = op
  BY <1>2, <1>6, IdleFits DEF HandlerType, Idle
<1> HIDE DEF h
<1>8. HandlerFits(h)
  BY <1>2, <1>4, <1>5, <1>6, <1>7, EvidenceKeptBySame DEF HandlerFits
<1>9. /\ operation' = [operation EXCEPT ![l] = op] /\ handler' = [handler EXCEPT ![p] = h]
      /\ expired' \subseteq Launch
  BY <1>1 DEF Claim, RestTyped, op, h
<1>10. ChargeConfirmed(h.base) => ChargeConfirmed(operation'[h.launch])
  BY <1>1, <1>7, <1>9
<1> QED
  BY <1>2, <1>4, <1>7, <1>8, <1>9, <1>10, OperationChanges DEF Claim

LEMMA RecoverKeeps ==
  ASSUME LaunchInv, NEW p \in Process, NEW l \in Launch, Recover(p, l) PROVE LaunchInv'
<1> DEFINE op == operation[l]
           h == [Idle EXCEPT !.pc = RecoverAt(op), !.launch = l, !.op = op, !.base = op]
<1>1. /\ op \in OperationType /\ OperationFits(op) /\ RestTyped /\ HandlerPart
      /\ op.status = "manual_review" /\ op.phase \notin Terminal
  BY InvParts DEF Recover, OperationFits, Terminal
<1>2. RecoverAt(op) \in {"receipt_pending", "refund_receipt", "recover_truth"}
  BY DEF RecoverAt
<1>3. ChargeConfirmed(op)
  BY <1>1 DEF Recover, RecoverAt, OperationFits, Early
<1>4. /\ RecoverAt(op) \in Step \ {"idle", "persist"} /\ RecoverAt(op) \notin DebitStep
      /\ StepFits(RecoverAt(op), op)
  BY <1>1, <1>2, <1>3 DEF StepFits, Step, DebitStep, FulfilPhase
<1>5. /\ h \in HandlerType /\ h.pc = RecoverAt(op) /\ h.launch = l /\ h.op = op
      /\ h.base = op
  BY <1>1, <1>4, IdleFits DEF HandlerType, Idle
<1>6. handler' = [handler EXCEPT ![p] = h] /\ operation' = operation
  BY DEF Recover
<1> HIDE DEF h
<1>7. HandlerFits(h)
  BY <1>1, <1>3, <1>4, <1>5, EvidenceKeptBySame DEF HandlerFits, Terminal
<1>8. HandlerPart'
  BY <1>1, <1>3, <1>5, <1>6, <1>7, HandlerChanges
<1>9. faults' \in 0..MaxFaults
  BY <1>1 DEF Recover, RestTyped
<1> QED
  BY <1>8, <1>9, QuietStep DEF Recover
-----------------------------------------------------------------------------
(* The steps of the outside world.                                         *)

\* No handler moves, and no launch gets more than it has.
LEMMA OutsideStep ==
  ASSUME LaunchInv, UNCHANGED <<operation, handler>>, RestTyped',
         \A l \in Launch : Provided(l)' => Provided(l)
  PROVE  LaunchInv'
<1>1. HandlerPart'
  BY InvParts DEF HandlerPart, ProofKept
<1> QED
  BY <1>1, OperationsStay

LEMMA LeaseExpiresKeeps ==
  ASSUME LaunchInv, NEW l \in Launch, LeaseExpires(l) PROVE LaunchInv'
<1>1. RestTyped'
  BY RestTypedNow DEF LeaseExpires, RestTyped, tableVars, walletVars, fabricVars
<1>2. \A m \in Launch : Provided(m)' => Provided(m)
  BY DEF LeaseExpires, Provided, tableVars, fabricVars
<1> QED
  BY <1>1, <1>2, OutsideStep DEF LeaseExpires

LEMMA DeliverKeeps ==
  ASSUME LaunchInv, NEW l \in Launch, Deliver(l) PROVE LaunchInv'
<1>1. inFlight' \subseteq inFlight
  BY DEF Deliver
<1>2. balance' \in Nat /\ charged' \subseteq Launch /\ refunded' \subseteq Launch
  BY UseCodeTyped DEF Deliver
<1>3. /\ compute' \in [Launch -> ProviderState]
      /\ storage' \in [Launch -> ProviderState]
      /\ made' \in [Launch -> [Write -> WriteState]]
      /\ \A m \in Launch : m # l => /\ compute'[m] = compute[m]
                                    /\ storage'[m] = storage[m]
                                    /\ made'[m] = made[m]
  BY CreateTyped DEF Deliver
<1>4. RestTyped'
  BY <1>1, <1>2, <1>3, RestTypedNow DEF RestTyped, Deliver, tableVars
<1>5. \A m \in Launch : Provided(m)' => Provided(m)
  <2>1. CASE UNCHANGED fabricVars
    BY <1>1, <2>1 DEF Provided, Deliver, tableVars, fabricVars
  <2>2. CASE Provided(l)
    BY <1>1, <1>3, <2>2 DEF Provided, Deliver, tableVars
  <2> QED
    BY <2>1, <2>2 DEF Deliver, Provided
<1> QED
  BY <1>4, <1>5, OutsideStep DEF Deliver

LEMMA ProvisionKeeps ==
  ASSUME LaunchInv, NEW l \in Launch, ProvisionCompute(l) \/ ProvisionStorage(l)
  PROVE  LaunchInv'
<1>1. faults' \in 0..MaxFaults
  BY FaultsBounded DEF ProvisionCompute, ProvisionStorage
<1>2. RestTyped'
  <2>1. {"ready", "quarantined"} \subseteq ProviderState
    BY DEF ProviderState
  <2>2. CASE ProvisionCompute(l)
    <3>1. compute' \in [Launch -> ProviderState]
      BY <2>1, <2>2, RestTypedNow DEF ProvisionCompute, RestTyped
    <3>2. QED
      BY <1>1, <2>2, <3>1, RestTypedNow
         DEF ProvisionCompute, RestTyped, tableVars, walletVars
  <2>3. CASE ProvisionStorage(l)
    <3>1. storage' \in [Launch -> ProviderState]
      BY <2>1, <2>3, RestTypedNow DEF ProvisionStorage, RestTyped
    <3>2. QED
      BY <1>1, <2>3, <3>1, RestTypedNow
         DEF ProvisionStorage, RestTyped, tableVars, walletVars
  <2>4. QED
    BY <2>2, <2>3
<1>3. \A m \in Launch : Provided(m)' => Provided(m)
  BY RestTypedNow DEF ProvisionCompute, ProvisionStorage, RestTyped, Provided, tableVars
<1> QED
  BY <1>2, <1>3, OutsideStep DEF ProvisionCompute, ProvisionStorage

LEMMA ProviderMovesKeeps ==
  ASSUME LaunchInv, NEW l \in Launch, ProviderMoves(l) PROVE LaunchInv'
<1>1. external' \in 0..MaxExternal
  BY RestTypedNow, BoundAssumption DEF ProviderMoves, Outside, RestTyped
<1>2. RestTyped'
  <2>1. {"ready", "gone"} \subseteq ProviderState
    BY DEF ProviderState
  <2>2. compute' \in [Launch -> ProviderState] /\ storage' \in [Launch -> ProviderState]
    BY <2>1, RestTypedNow DEF ProviderMoves, RestTyped
  <2>3. QED
    BY <1>1, <2>2, RestTypedNow DEF ProviderMoves, RestTyped, tableVars, walletVars
<1>3. \A m \in Launch : Provided(m)' => Provided(m)
  BY RestTypedNow DEF ProviderMoves, RestTyped, Provided, tableVars
<1> QED
  BY <1>2, <1>3, OutsideStep DEF ProviderMoves

LEMMA BalanceMovesKeeps ==
  ASSUME LaunchInv, BalanceMoves PROVE LaunchInv'
<1>1. external' \in 0..MaxExternal /\ balance' \in Nat
  BY RestTypedNow, BoundAssumption, BalanceAssumption DEF BalanceMoves, Outside, RestTyped
<1>2. RestTyped'
  BY <1>1, RestTypedNow DEF BalanceMoves, RestTyped, tableVars, fabricVars
<1>3. \A m \in Launch : Provided(m)' => Provided(m)
  BY DEF BalanceMoves, Provided, tableVars, fabricVars
<1> QED
  BY <1>2, <1>3, OutsideStep DEF BalanceMoves
-----------------------------------------------------------------------------
(* The invariant and what follows from it.                                 *)

LEMMA InitKeeps == Init => LaunchInv
<1> SUFFICES ASSUME Init PROVE LaunchInv
  OBVIOUS
<1>1. operation \in [Launch -> OperationType] /\ \A l \in Launch : OperationFits(operation[l])
  BY BlankFits DEF Init
<1>2. HandlerPart
  BY IdleFits DEF Init, HandlerPart, ProofKept
<1>3. RestTyped
  BY BalanceAssumption, BoundAssumption DEF Init, RestTyped, ProviderState, Write, WriteState
<1>4. \A l \in Launch : ~Provided(l)
  BY DEF Init, Provided
<1> QED
  BY <1>1, <1>2, <1>3, <1>4, InvParts

LEMMA StutterKeeps ==
  ASSUME LaunchInv, UNCHANGED vars PROVE LaunchInv'
<1>1. faults' \in 0..MaxFaults /\ HandlerPart'
  BY InvParts DEF HandlerPart, ProofKept, RestTyped, vars
<1> QED
  BY <1>1, QuietStep DEF vars

LEMMA HandlerStepKeeps ==
  ASSUME LaunchInv, NEW p \in Process, HandlerStep(p) PROVE LaunchInv'
BY DebitGuardKeeps, ChargeHistoryKeeps, ReadBalanceKeeps, ChargeKeeps, ConfirmChargeKeeps,
   BeginFulfilmentKeeps, PrepareComputeKeeps, ReadbackComputeKeeps, StorageAbsenceKeeps,
   PrepareStorageKeeps, ReadbackStorageKeeps, AttachKeeps, WriteSecretKeeps, StartRuntimeKeeps,
   VerifyProviderKeeps, ActivateKeeps, RecordPurchaseKeeps, BeginRefundKeeps,
   RefundHistoryKeeps, RefundCallKeeps, RecordRefundKeeps, RecoverTruthKeeps, PersistKeeps
   DEF HandlerStep

\* LaunchInv is inductive: no call, write, crash, late request or second handler
\* of the saga breaks it.
THEOREM LaunchInvInductive == LaunchInv /\ [Next]_vars => LaunchInv'
<1> SUFFICES ASSUME LaunchInv, [Next]_vars PROVE LaunchInv'
  OBVIOUS
<1>1. CASE \E p \in Process : HandlerStep(p) \/ Abort(p)
  BY <1>1, HandlerStepKeeps, AbortKeeps
<1>2. CASE \E p \in Process, l \in Launch :
             Submit(p, l) \/ ConvergeKey(p, l) \/ Claim(p, l) \/ Recover(p, l)
  BY <1>2, SubmitKeeps, ConvergeKeyKeeps, ClaimKeeps, RecoverKeeps
<1>3. CASE \E l \in Launch : LeaseExpires(l) \/ Deliver(l) \/ ProvisionCompute(l)
                               \/ ProvisionStorage(l) \/ ProviderMoves(l)
  BY <1>3, LeaseExpiresKeeps, DeliverKeeps, ProvisionKeeps, ProviderMovesKeeps
<1>4. CASE BalanceMoves
  BY <1>4, BalanceMovesKeeps
<1>5. CASE UNCHANGED vars
  BY <1>5, StutterKeeps
<1> QED
  BY <1>1, <1>2, <1>3, <1>4, <1>5 DEF Next

\* The saga keeps LaunchInv: operations carry their financial proof from the debit
\* on, and handlers with older copies cannot take it back.
THEOREM LaunchInvariant == Spec => []LaunchInv
BY InitKeeps, LaunchInvInductive, PTL DEF Spec

\* Every variable of the saga keeps its type.
THEOREM TypeCorrect == Spec => []TypeOK
<1>1. LaunchInv => TypeOK
  BY DEF LaunchInv
<1> QED
  BY <1>1, LaunchInvariant, PTL

\* Fabric holds nothing for a launch, and no Workspace row is active, before the
\* persisted operation proves the exact debit.
THEOREM ProviderAfterProof == Spec => []ProviderOnlyAfterProof
<1>1. LaunchInv => ProviderOnlyAfterProof
  BY DEF LaunchInv
<1> QED
  BY <1>1, LaunchInvariant, PTL
-----------------------------------------------------------------------------
(* What a step may do to an operation.                                     *)

WriteAllowed(l) ==
  /\ KeepsEvidence(operation[l], operation'[l])
  /\ operation[l].status \in Terminal => operation'[l] = operation[l]

\* Only four actions write an operation.
LEMMA OtherStepsWriteNothing ==
  ASSUME LaunchInv, [Next]_vars,
         ~\E p \in Process : Persist(p),
         ~\E p \in Process, l \in Launch : Submit(p, l) \/ ConvergeKey(p, l) \/ Claim(p, l)
  PROVE  operation' = operation
<1>1. CASE \E p \in Process : HandlerStep(p)
  <2> PICK p \in Process : HandlerStep(p)
    BY <1>1
  <2>1. ASSUME DebitGuard(p) \/ ChargeHistory(p) \/ ReadBalance(p) \/ Charge(p)
                 \/ ConfirmCharge(p)
        PROVE  operation' = operation
    BY <2>1 DEF DebitGuard, ChargeHistory, ReadBalance, Charge, ConfirmCharge
  <2>2. ASSUME BeginFulfilment(p) \/ PrepareCompute(p) \/ ReadbackCompute(p)
                 \/ StorageAbsence(p) \/ PrepareStorage(p) \/ ReadbackStorage(p)
        PROVE  operation' = operation
    BY <2>2 DEF BeginFulfilment, PrepareCompute, Prepare, ReadbackCompute, StorageAbsence,
                PrepareStorage, ReadbackStorage
  <2>3. ASSUME Attach(p) \/ WriteSecret(p) \/ StartRuntime(p) \/ VerifyProvider(p)
                 \/ Activate(p) \/ RecordPurchase(p)
        PROVE  operation' = operation
    BY <2>3 DEF Attach, WriteSecret, StartRuntime, VerifyProvider, Activate, RecordPurchase
  <2>4. ASSUME BeginRefund(p) \/ RefundHistory(p) \/ RefundCall(p) \/ RecordRefund(p)
                 \/ RecoverTruth(p)
        PROVE  operation' = operation
    BY <2>4 DEF BeginRefund, RefundHistory, RefundCall, RecordRefund, RecoverTruth
  <2>5. QED
    BY <2>1, <2>2, <2>3, <2>4 DEF HandlerStep
<1>2. CASE \E p \in Process : Abort(p)
  BY <1>2 DEF Abort
<1>3. CASE \E p \in Process, l \in Launch : Recover(p, l)
  BY <1>3 DEF Recover
<1>4. CASE \E l \in Launch : LeaseExpires(l) \/ Deliver(l) \/ ProvisionCompute(l)
                               \/ ProvisionStorage(l) \/ ProviderMoves(l)
  BY <1>4 DEF LeaseExpires, Deliver, ProvisionCompute, ProvisionStorage, ProviderMoves
<1>5. CASE BalanceMoves
  BY <1>5 DEF BalanceMoves
<1>6. CASE UNCHANGED vars
  BY <1>6 DEF vars
<1> QED
  BY <1>1, <1>2, <1>3, <1>4, <1>5, <1>6 DEF Next

LEMMA WritesAllowed ==
  ASSUME LaunchInv, [Next]_vars
  PROVE  \A l \in Launch : WriteAllowed(l)
<1>1. /\ operation \in [Launch -> OperationType] /\ HandlerPart
      /\ \A l \in Launch : OperationFits(operation[l])
  BY InvParts
<1>2. CASE operation' = operation
  BY <1>1, <1>2, EvidenceKeptBySame DEF WriteAllowed
<1>3. CASE \E p \in Process : Persist(p)
  <2>1. PICK p \in Process : Persist(p)
    BY <1>3
  <2> DEFINE h == handler[p]
  <2>2. /\ h.launch \in Launch /\ KeepsEvidence(h.base, h.op) /\ h.base.status \notin Terminal
    BY <1>1, <2>1, AtWork DEF Persist
  <2>3. CASE ~Current(h)
    BY <1>2, <2>1, <2>3 DEF Persist
  <2>4. CASE Current(h)
    <3>1. operation' = [operation EXCEPT ![h.launch] = h.op] /\ operation[h.launch] = h.base
      BY <2>1, <2>4 DEF Persist, Current
    <3> HIDE DEF h
    <3>2. \A l \in Launch : operation'[l] = IF l = h.launch THEN h.op ELSE operation[l]
      BY <1>1, <3>1
    <3> QED
      BY <1>1, <2>2, <3>1, <3>2, EvidenceKeptBySame DEF WriteAllowed
  <2> QED
    BY <2>3, <2>4
<1>4. ASSUME NEW p \in Process, NEW l \in Launch,
             Submit(p, l) \/ ConvergeKey(p, l) \/ Claim(p, l)
      PROVE  \A m \in Launch : WriteAllowed(m)
  <2>1. \A m \in Launch : m # l => operation'[m] = operation[m]
    BY <1>1, <1>4 DEF Submit, ConvergeKey, Claim
  <2>2. operation[l].status \notin Terminal
    BY <1>1, <1>4 DEF Submit, ConvergeKey, Claim, Runnable, Blank, OperationFits, Terminal
  <2>3. KeepsEvidence(operation[l], operation'[l])
    <3>1. operation[l] \in OperationType
      BY <1>1
    <3> QED
      BY <1>1, <1>4, <3>1 DEF Submit, ConvergeKey, Claim, KeepsEvidence, OperationType
  <2> QED
    BY <1>1, <2>1, <2>2, <2>3, EvidenceKeptBySame DEF WriteAllowed
<1> QED
  BY <1>2, <1>3, <1>4, OtherStepsWriteNothing

\* No step loses or rewrites what an operation has recorded of its debit and
\* refund, with any number of processes and whatever leases expire.
THEOREM EvidenceDurable == Spec => EvidenceIsDurable
<1>1. LaunchInv /\ [Next]_vars
        => [\A l \in Launch : KeepsEvidence(operation[l], operation'[l])]_vars
  BY WritesAllowed DEF WriteAllowed
<1> QED
  BY <1>1, LaunchInvariant, PTL DEF Spec, EvidenceIsDurable

\* A settled operation is never written again.
THEOREM TerminalFinal == Spec => TerminalIsFinal
<1>1. LaunchInv /\ [Next]_vars
        => [\A l \in Launch : operation[l].status \in Terminal
                                => operation'[l] = operation[l]]_vars
  BY WritesAllowed DEF WriteAllowed
<1> QED
  BY <1>1, LaunchInvariant, PTL DEF Spec, TerminalIsFinal
-----------------------------------------------------------------------------
(* Money, resources and receipts: SagaInv is inductive too.               *)

\* What the world holds only grows: codes stay used, rows stay active, what
\* was ready or gone does not become anything else, receipts stay.
Grows ==
  /\ charged \subseteq charged' /\ refunded \subseteq refunded' /\ workspace \subseteq workspace'
  /\ \A l \in Launch :
       /\ compute[l] = "gone" => compute'[l] = "gone"
       /\ compute[l] = "ready" => compute'[l] \in {"ready", "gone"}
       /\ storage[l] = "gone" => storage'[l] = "gone"
       /\ storage[l] = "ready" => storage'[l] \in {"ready", "gone"}
       /\ receipts[l] \subseteq receipts'[l]

LEMMA RowStaysTrue ==
  ASSUME Grows, NEW l \in Launch, NEW op, RowTrue(l, op)
  PROVE  RowTrue(l, op)'
BY DEF Grows, RowTrue, Past, Stored, Served, Early

LEMMA StepStaysTrue ==
  ASSUME Grows, NEW l \in Launch, NEW op, NEW step, StepTrue(step, l, op)
  PROVE  StepTrue(step, l, op)'
BY DEF Grows, StepTrue, MayRefund, Served

LEMMA MayRefundStays ==
  ASSUME Grows, NEW l \in Launch, NEW op, MayRefund(l, op)
  PROVE  MayRefund(l, op)'
BY DEF Grows, MayRefund, Served

LEMMA FollowsSame ==
  ASSUME NEW op \in OperationType
  PROVE  Follows(op, op)
BY EvidenceKeptBySame DEF Follows

LEMMA FollowsTwice ==
  ASSUME NEW a \in OperationType, NEW b \in OperationType, NEW c \in OperationType,
         Follows(a, b), Follows(b, c)
  PROVE  Follows(a, c)
BY EvidenceKeptTwice DEF Follows

\* A write that only changes status and lease.
LEMMA Remarked ==
  ASSUME NEW l, NEW op \in OperationType, NEW new \in OperationType, KeepsEvidence(op, new),
         new.phase = op.phase, new.status # "none",
         new.status = op.status \/ new.status \notin Terminal, new.confirmed = op.confirmed,
         new.refundAttempted = op.refundAttempted, new.refundConfirmed = op.refundConfirmed
  PROVE  Follows(op, new) /\ (RowTrue(l, op) => RowTrue(l, new))
BY DEF Follows, RowTrue, Past, Stored, Served, Early

\* What no handler's step changes of the accounts of a launch, unless its
\* operation allows for it.
Accounts(l) ==
  /\ l \in charged' \/ <<l, "charge">> \in inFlight' =>
       l \in charged \/ <<l, "charge">> \in inFlight \/ operation[l].status # "none"
  /\ l \in refunded' \/ <<l, "refund">> \in inFlight' =>
       l \in refunded \/ <<l, "refund">> \in inFlight \/ operation[l].refundAttempted
  /\ storage'[l] # "none" \/ <<l, "storage">> \in inFlight' =>
       storage[l] # "none" \/ <<l, "storage">> \in inFlight \/ Past(operation[l])
  /\ operation[l].refundAttempted =>
       \/ storage'[l] = "gone"
       \/ storage'[l] = storage[l]
            /\ (<<l, "storage">> \in inFlight' => StorageWanted(l))
  /\ "purchase" \in receipts'[l] => "purchase" \in receipts[l] \/ Served(operation[l])
  /\ "refund" \in receipts'[l] => "refund" \in receipts[l] \/ l \in refunded'

LEMMA NothingAccounted ==
  ASSUME UNCHANGED <<charged, refunded, storage, receipts, inFlight>>
  PROVE  \A l \in Launch : Accounts(l)
BY DEF Accounts, StorageWanted

LEMMA CopyKept ==
  ASSUME Grows, NEW h, h.launch \in Launch, CopyTrue(h), Follows(h.base, operation'[h.launch])
  PROVE  CopyTrue(h)'
<1>1. PICK l, op, base, then, pc :
        /\ l \in Launch /\ l = h.launch /\ op = h.op /\ base = h.base
        /\ then = h.then /\ pc = h.pc
  OBVIOUS
<1>2. RowTrue(l, op)'
  BY <1>1, RowStaysTrue DEF CopyTrue
<1>3. pc # "persist" => StepTrue(pc, l, op)'
  BY <1>1, StepStaysTrue DEF CopyTrue
<1>4. pc = "persist" /\ then # "idle" => StepTrue(then, l, op)'
  BY <1>1, StepStaysTrue DEF CopyTrue
<1>5. pc = "persist" /\ op.refundAttempted /\ ~base.refundAttempted => MayRefund(l, base)'
  BY <1>1, MayRefundStays DEF CopyTrue
<1>6. Follows(base, operation'[l])
  BY <1>1
<1> QED BY <1>1, <1>2, <1>3, <1>4, <1>5, <1>6 DEF CopyTrue

LEMMA CopyStaysTrue ==
  ASSUME Grows, NEW h, h.launch \in Launch, CopyTrue(h),
         operation'[h.launch] = operation[h.launch]
  PROVE  CopyTrue(h)'
<1>1. Follows(h.base, operation'[h.launch])
  BY DEF CopyTrue
<1> QED BY <1>1, CopyKept

\* What is known of a handler at work.
LEMMA AtWorkTrue ==
  ASSUME SagaInv, NEW p \in Process, NEW h, h = handler[p], h.pc # "idle"
  PROVE  /\ h.launch \in Launch /\ h.op \in OperationType /\ h.base \in OperationType
         /\ operation[h.launch] \in OperationType
         /\ handler \in [Process -> HandlerType] /\ h \in HandlerType
         /\ CopyTrue(h) /\ WorldFits(h.launch)
         /\ OperationFits(h.op) /\ OperationFits(operation[h.launch])
         /\ h.pc # "persist" => StepFits(h.pc, h.op)
<1>1. /\ HandlerPart /\ operation \in [Launch -> OperationType]
      /\ \A l \in Launch : OperationFits(operation[l])
  BY InvParts DEF SagaInv
<1> QED BY <1>1, AtWork DEF SagaInv, HandlerPart

\* A step that writes no operation.
LEMMA OperationsSame ==
  ASSUME SagaInv, LaunchInv', Grows, operation' = operation,
         \A l \in Launch : Accounts(l),
         \A l \in Launch : StorageWanted(l)' => <<l, "storage">> \in inFlight' \/ StorageWanted(l),
         (\A q \in Process : handler[q].pc # "idle" => CopyTrue(handler[q]))'
  PROVE  SagaInv'
<1>1. ASSUME NEW l \in Launch
      PROVE  WorldFits(l)'
  <2>1. WorldFits(l) /\ Accounts(l)
    BY DEF SagaInv
  <2>2. PICK op : op = operation[l]
    OBVIOUS
  <2>3. RowTrue(l, op)'
    BY <2>1, <2>2, RowStaysTrue DEF WorldFits
  <2>4. StorageWanted(l)' => <<l, "storage">> \in inFlight' \/ StorageWanted(l)
    OBVIOUS
  <2>5. op.refundAttempted =>
          storage'[l] = "gone" \/ (storage'[l] = "none" /\ ~StorageWanted(l)')
    BY <2>1, <2>2, <2>4 DEF WorldFits, Accounts
  <2>6. op = operation'[l]
    BY <2>2
  <2>7. "refund" \in receipts'[l] => l \in refunded'
    BY <2>1 DEF WorldFits, Accounts, Grows
  <2> QED BY <2>1, <2>2, <2>3, <2>5, <2>6, <2>7 DEF WorldFits, Accounts
<1>2. (\A l, m \in Launch : InProgress(l) /\ InProgress(m) => l = m)'
  BY DEF SagaInv, InProgress
<1> QED BY <1>1, <1>2 DEF SagaInv

\* One handler moves.
LEMMA HandlerMoves ==
  ASSUME SagaInv, LaunchInv', Grows, operation' = operation,
         NEW p \in Process, NEW h, handler' = [handler EXCEPT ![p] = h],
         h.pc # "storage_fulfilling", h.pc # "idle" => CopyTrue(h)',
         \A l \in Launch : Accounts(l)
  PROVE  SagaInv'
<1>1. handler \in [Process -> HandlerType]
  BY InvParts DEF SagaInv, HandlerPart
<1>2. \A q \in Process : handler'[q] = IF q = p THEN h ELSE handler[q]
  BY <1>1
<1>3. ASSUME NEW q \in Process, handler'[q].pc # "idle"
      PROVE  CopyTrue(handler[q])'
  <2>1. CASE q = p
    <3>1. h = handler'[q] /\ CopyTrue(h)'
      BY <1>2, <1>3, <2>1
    <3> QED BY <3>1
  <2>2. CASE q # p
    <3>1. PICK g : g = handler[q]
      OBVIOUS
    <3>2. handler'[q] = g /\ g.pc # "idle" /\ g.launch \in Launch /\ CopyTrue(g)
      BY <1>2, <1>3, <2>2, <3>1, AtWorkTrue
    <3>3. CopyTrue(g)'
      BY <3>2, CopyStaysTrue
    <3> QED BY <3>2, <3>3
  <2> QED BY <2>1, <2>2
<1>4. \A l \in Launch : StorageWanted(l)' => <<l, "storage">> \in inFlight' \/ StorageWanted(l)
  BY <1>2 DEF StorageWanted
<1>5. (\A q \in Process : handler[q].pc # "idle" => CopyTrue(handler[q]))'
  BY <1>3
<1> QED BY <1>4, <1>5, OperationsSame

\* None does.
LEMMA WorldMoves ==
  ASSUME SagaInv, LaunchInv', Grows, operation' = operation, handler' = handler,
         \A l \in Launch : Accounts(l)
  PROVE  SagaInv'
<1>1. ASSUME NEW q \in Process, handler'[q].pc # "idle"
      PROVE  CopyTrue(handler[q])'
  <2>1. PICK g : g = handler[q]
    OBVIOUS
  <2>2. handler'[q] = g /\ g.pc # "idle" /\ g.launch \in Launch /\ CopyTrue(g)
    BY <1>1, <2>1, AtWorkTrue
  <2>3. CopyTrue(g)'
    BY <2>2, CopyStaysTrue
  <2> QED BY <2>2, <2>3
<1>2. \A l \in Launch : StorageWanted(l)' => <<l, "storage">> \in inFlight' \/ StorageWanted(l)
  BY DEF StorageWanted
<1>3. (\A q \in Process : handler[q].pc # "idle" => CopyTrue(handler[q]))'
  BY <1>1
<1> QED BY <1>2, <1>3, OperationsSame

LEMMA ReturnSaga ==
  ASSUME SagaInv, LaunchInv', Grows, operation' = operation, NEW p \in Process, Return(p),
         \A l \in Launch : Accounts(l)
  PROVE  SagaInv'
<1>1. PICK h : h = Idle
  OBVIOUS
<1>2. h.pc = "idle"
  BY <1>1 DEF Idle
<1> QED BY <1>1, <1>2, HandlerMoves DEF Return

LEMMA GotoSaga ==
  ASSUME SagaInv, LaunchInv', Grows, operation' = operation,
         NEW p \in Process, NEW h, h = handler[p], h.pc \notin {"idle", "persist"},
         NEW step, step \notin {"idle", "persist", "storage_fulfilling"},
         NEW g, g = [h EXCEPT !.pc = step] \/ (\E f : g = [h EXCEPT !.pc = step, !.prepareFailed = f]),
         handler' = [handler EXCEPT ![p] = g],
         StepTrue(step, h.launch, h.op)', \A l \in Launch : Accounts(l)
  PROVE  SagaInv'
<1>1. h \in HandlerType /\ h.launch \in Launch /\ CopyTrue(h)
  BY AtWorkTrue
<1>2. g.pc = step /\ g.op = h.op /\ g.base = h.base /\ g.launch = h.launch
  BY <1>1 DEF HandlerType
<1>3. CopyTrue(h)'
  BY <1>1, CopyStaysTrue
<1>4. CopyTrue(g)'
  BY <1>2, <1>3 DEF CopyTrue
<1> QED BY <1>2, <1>4, HandlerMoves

LEMMA SaveSaga ==
  ASSUME SagaInv, LaunchInv', Grows, operation' = operation,
         NEW p \in Process, NEW h, h = handler[p], h.pc \notin {"idle", "persist"},
         NEW op \in OperationType, NEW next, Save(p, op, next),
         RowTrue(h.launch, op)', Follows(h.op, op),
         next # "idle" => StepTrue(next, h.launch, op)',
         op.refundAttempted /\ ~h.op.refundAttempted => MayRefund(h.launch, h.op)',
         \A l \in Launch : Accounts(l)
  PROVE  SagaInv'
<1>1. h \in HandlerType /\ h.launch \in Launch /\ CopyTrue(h) /\ h.op \in OperationType
      /\ h.base \in OperationType
  BY AtWorkTrue
<1>2. PICK g : g = [h EXCEPT !.op = op, !.pc = "persist", !.then = next]
  OBVIOUS
<1>3. g.pc = "persist" /\ g.then = next /\ g.op = op /\ g.base = h.base /\ g.launch = h.launch
  BY <1>1, <1>2 DEF HandlerType
<1>4. handler' = [handler EXCEPT ![p] = g]
  BY <1>2 DEF Save
<1>5. CopyTrue(h)'
  BY <1>1, CopyStaysTrue
<1>6. h.op = h.base
  BY <1>1 DEF CopyTrue
<1>7. CopyTrue(g)'
  BY <1>1, <1>3, <1>5, <1>6, FollowsTwice DEF CopyTrue
<1> QED BY <1>3, <1>4, <1>7, HandlerMoves

\* Leaving without a change of what is recorded.
LEMMA LeaveSaga ==
  ASSUME SagaInv, LaunchInv', Grows, operation' = operation,
         NEW p \in Process, NEW h, h = handler[p], h.pc \notin {"idle", "persist"},
         NEW op, Finish(p, op),
         \/ op \in {Retry(h.op), Wait(h.op), Review(h.op)}
         \/ op = RetryDebit(h.op) /\ h.op.phase = "debit_pending",
         \A l \in Launch : Accounts(l)
  PROVE  SagaInv'
<1>1. PICK old, l : old = h.op /\ l = h.launch
  OBVIOUS
<1>2. l \in Launch /\ old \in OperationType /\ RowTrue(l, old)
  BY <1>1, AtWorkTrue DEF CopyTrue
<1>3. {"retryable", "waiting", "manual_review", "unknown"} \subseteq Status
      /\ "debit_pending" \in Phase
  BY DEF Status, Phase
<1>4. /\ op \in OperationType /\ op.phase = old.phase
      /\ op.status # "none" /\ op.status \notin Terminal
      /\ op.attempted = old.attempted /\ op.pre = old.pre /\ op.post = old.post
      /\ op.confirmed = old.confirmed /\ op.refundAttempted = old.refundAttempted
      /\ op.refundConfirmed = old.refundConfirmed
  <2>1. CASE op = Retry(old)
    BY <1>2, <1>3, <2>1 DEF Retry, OperationType, Terminal
  <2>2. CASE op = Wait(old)
    BY <1>2, <1>3, <2>2 DEF Wait, OperationType, Terminal
  <2>3. CASE op = Review(old)
    BY <1>2, <1>3, <2>3 DEF Review, OperationType, Terminal
  <2>4. CASE op = RetryDebit(old) /\ old.phase = "debit_pending"
    BY <1>2, <1>3, <2>4 DEF RetryDebit, OperationType, Terminal
  <2> QED BY <1>1, <2>1, <2>2, <2>3, <2>4
<1>5. KeepsEvidence(old, op)
  BY <1>4 DEF KeepsEvidence
<1>6. Follows(old, op) /\ RowTrue(l, op)
  BY <1>2, <1>4, <1>5, Remarked
<1>7. RowTrue(l, op)'
  BY <1>2, <1>6, RowStaysTrue
<1> QED BY <1>1, <1>4, <1>6, <1>7, SaveSaga DEF Finish

\* Going on to a later phase of the fulfilment.
LEMMA AdvanceSaga ==
  ASSUME SagaInv, LaunchInv', Grows, operation' = operation,
         NEW p \in Process, NEW h, h = handler[p], h.pc \notin {"idle", "persist"},
         NEW phase \in FulfilPhase, Save(p, Enter(h.op, phase), phase),
         ~h.op.refundAttempted, ~Served(h.op) \/ phase = "receipt_pending",
         Past(h.op) => phase \notin {"debited", "compute_fulfilling"},
         phase \notin {"debited", "compute_fulfilling"} => compute'[h.launch] \in {"ready", "gone"},
         phase \notin {"debited", "compute_fulfilling", "storage_fulfilling"}
           => storage'[h.launch] \in {"ready", "gone"},
         phase = "receipt_pending" => h.launch \in workspace',
         ChargeConfirmed(h.op), \A l \in Launch : Accounts(l)
  PROVE  SagaInv'
<1>1. PICK old, l : old = h.op /\ l = h.launch
  OBVIOUS
<1>2. l \in Launch /\ old \in OperationType /\ RowTrue(l, old) /\ OperationFits(old)
  BY <1>1, AtWorkTrue DEF CopyTrue
<1>3. PICK op : op = Enter(old, phase)
  OBVIOUS
<1>4. op \in OperationType /\ KeepsEvidence(old, op) /\ op.phase = phase
  BY <1>1, <1>2, <1>3, EnteringKeepsProof
<1>5. /\ op.confirmed = old.confirmed /\ op.refundAttempted = old.refundAttempted
      /\ op.refundConfirmed = old.refundConfirmed /\ op.status = "preparing"
  BY <1>2, <1>3 DEF Enter, OperationType
<1>6. phase \notin Terminal \cup {"none", "key_pending", "debit_pending", "refund_pending"}
  BY DEF FulfilPhase, Terminal
<1>7. ~Early(op) /\ (Past(op) <=> phase \notin {"debited", "compute_fulfilling"})
      /\ (Served(op) <=> phase = "receipt_pending")
      /\ (Stored(op) => phase \notin {"debited", "compute_fulfilling", "storage_fulfilling"})
  BY <1>4, <1>6 DEF Early, Past, Served, Stored, Terminal
<1>8. RowTrue(l, old)'
  BY <1>2, RowStaysTrue
<1>9. RowTrue(l, op)'
  BY <1>1, <1>4, <1>5, <1>6, <1>7, <1>8 DEF RowTrue, Terminal
<1>10. Follows(old, op)
  BY <1>1, <1>4, <1>5, <1>7 DEF Follows
<1>11. StepTrue(phase, l, op)'
  BY <1>4 DEF StepTrue, FulfilPhase
<1> QED BY <1>1, <1>3, <1>4, <1>5, <1>9, <1>10, <1>11, SaveSaga
-----------------------------------------------------------------------------
(* The debit keeps them.                                                   *)

\* Nothing of the world moves.
LEMMA WorldRests ==
  ASSUME UNCHANGED <<charged, refunded, workspace, compute, storage, receipts, inFlight>>
  PROVE  Grows /\ \A l \in Launch : Accounts(l)
BY NothingAccounted DEF Grows

LEMMA GotoQuietly ==
  ASSUME SagaInv, LaunchInv', operation' = operation,
         NEW p \in Process, NEW h, h = handler[p], h.pc \notin {"idle", "persist"},
         NEW step, step \notin {"idle", "persist", "storage_fulfilling"}, Goto(p, step),
         StepTrue(step, h.launch, h.op),
         UNCHANGED <<charged, refunded, workspace, compute, storage, receipts, inFlight>>
  PROVE  SagaInv'
<1>1. PICK g : g = [h EXCEPT !.pc = step]
  OBVIOUS
<1>2. handler' = [handler EXCEPT ![p] = g]
  BY <1>1 DEF Goto
<1>3. PICK l, op : l = h.launch /\ op = h.op
  OBVIOUS
<1>4. l \in Launch
  BY <1>3, AtWorkTrue
<1>5. StepTrue(step, l, op)'
  BY <1>3, <1>4, WorldRests, StepStaysTrue
<1> QED BY <1>1, <1>2, <1>3, <1>5, WorldRests, GotoSaga

\* What is known of a handler in the debit.
LEMMA DebitTrue ==
  ASSUME SagaInv, NEW p \in Process, NEW h, h = handler[p], h.pc \in DebitStep
  PROVE  /\ h.pc \notin {"idle", "persist"} /\ h.launch \in Launch
         /\ h.op \in OperationType /\ OperationFits(h.op) /\ RowTrue(h.launch, h.op)
         /\ h.op.phase = "debit_pending" /\ h.op.post = Unread
         /\ h.op.status # "none" /\ h.op.status \notin Terminal
         /\ h.pc = "read_balance" => ~h.op.attempted
         /\ h.pc = "confirm_charge" => h.op.confirmed
         /\ operation[h.launch].status # "none"
         /\ balance \in Nat
<1>1. h.pc \notin {"idle", "persist"}
  BY DEF DebitStep
<1>2. StepFits(h.pc, h.op) /\ CopyTrue(h) /\ OperationFits(h.op)
  BY <1>1, AtWorkTrue
<1>3. h.op.status # "none" /\ h.op.status \notin Terminal
  BY <1>2 DEF StepFits, OperationFits
<1>4. operation[h.launch].status # "none"
  BY <1>2 DEF CopyTrue, Follows
<1>5. balance \in Nat
  BY InvParts DEF SagaInv, RestTyped
<1> QED BY <1>1, <1>2, <1>3, <1>4, <1>5, AtWorkTrue DEF StepFits, CopyTrue

LEMMA DebitGuardSaga ==
  ASSUME SagaInv, LaunchInv', NEW p \in Process, DebitGuard(p) PROVE SagaInv'
<1>1. PICK h : h = handler[p]
  OBVIOUS
<1>2. h.pc \in DebitStep
  BY <1>1 DEF DebitGuard, DebitStep
<1>3. /\ operation' = operation
      /\ UNCHANGED <<charged, refunded, workspace, compute, storage, receipts, inFlight>>
  BY DEF DebitGuard, walletVars, tableVars, fabricVars
<1>4. ASSUME NEW step \in {"confirm_charge", "charge_history", "read_balance"}, Goto(p, step)
      PROVE  SagaInv'
  <2>1. StepTrue(step, h.launch, h.op)
    BY DEF StepTrue, FulfilPhase
  <2> QED BY <1>1, <1>2, <1>3, <1>4, <2>1, DebitTrue, GotoQuietly
<1>5. ASSUME NEW op, Finish(p, op), op \in {RetryDebit(h.op), Review(h.op)}
      PROVE  SagaInv'
  BY <1>1, <1>2, <1>3, <1>5, DebitTrue, WorldRests, LeaveSaga
<1> QED BY <1>1, <1>4, <1>5 DEF DebitGuard

\* A save in the debit.
LEMMA DebitSaveSaga ==
  ASSUME SagaInv, LaunchInv', Grows, operation' = operation,
         NEW p \in Process, NEW h, h = handler[p], h.pc \in DebitStep,
         NEW op \in OperationType, NEW next \in {"idle", "charge", "confirm_charge"},
         Save(p, op, next), KeepsEvidence(h.op, op), op.phase = "debit_pending",
         op.status # "none", op.status \notin Terminal,
         op.confirmed => h.launch \in charged' \/ h.op.confirmed,
         op.refundAttempted = h.op.refundAttempted, op.refundConfirmed = h.op.refundConfirmed,
         \A l \in Launch : Accounts(l)
  PROVE  SagaInv'
<1>1. PICK l, old : l = h.launch /\ old = h.op
  OBVIOUS
<1>2. l \in Launch /\ old \in OperationType /\ RowTrue(l, old) /\ old.phase = "debit_pending"
      /\ h.pc \notin {"idle", "persist"}
  BY <1>1, DebitTrue
<1>3. RowTrue(l, old)'
  BY <1>2, RowStaysTrue
<1>4. Follows(old, op)
  BY <1>1, <1>2 DEF Follows, Past, Served, Early
<1>5. RowTrue(l, op)'
  BY <1>1, <1>2, <1>3 DEF RowTrue, Past, Stored, Served, Early
<1>6. StepTrue(next, l, op)'
  BY DEF StepTrue, FulfilPhase
<1> QED BY <1>1, <1>2, <1>4, <1>5, <1>6, SaveSaga

LEMMA ChargeHistorySaga ==
  ASSUME SagaInv, LaunchInv', NEW p \in Process, ChargeHistory(p) PROVE SagaInv'
<1>1. PICK h, op : h = handler[p] /\ op = [h.op EXCEPT !.confirmed = TRUE]
  OBVIOUS
<1>2. h.pc \in DebitStep
  BY <1>1 DEF ChargeHistory, DebitStep
<1>3. /\ operation' = operation
      /\ UNCHANGED <<charged, refunded, workspace, compute, storage, receipts, inFlight>>
  BY DEF ChargeHistory, walletVars, tableVars, fabricVars
<1>4. CASE Goto(p, "charge")
  <2>1. StepTrue("charge", h.launch, h.op)
    BY DEF StepTrue, FulfilPhase
  <2> QED BY <1>1, <1>2, <1>3, <1>4, <2>1, DebitTrue, GotoQuietly
<1>5. CASE Finish(p, Review(h.op))
  BY <1>1, <1>2, <1>3, <1>5, DebitTrue, WorldRests, LeaveSaga
<1>6. CASE h.launch \in charged /\ Save(p, op, "confirm_charge")
  <2>1. h.op \in OperationType /\ OperationFits(h.op) /\ h.op.phase = "debit_pending"
        /\ h.op.post = Unread /\ h.op.status # "none" /\ h.op.status \notin Terminal
    BY <1>1, <1>2, DebitTrue
  <2>2. op \in OperationType /\ KeepsEvidence(h.op, op) /\ op.phase = "debit_pending"
    BY <1>1, <2>1, DebitUpdates
  <2>3. op.status = h.op.status /\ op.refundAttempted = h.op.refundAttempted
        /\ op.refundConfirmed = h.op.refundConfirmed
    BY <1>1, <2>1 DEF OperationType
  <2> QED BY <1>1, <1>2, <1>3, <1>6, <2>1, <2>2, <2>3, WorldRests, DebitSaveSaga
<1> QED BY <1>1, <1>4, <1>5, <1>6 DEF ChargeHistory, HistoryShows

LEMMA ReadBalanceSaga ==
  ASSUME SagaInv, LaunchInv', NEW p \in Process, ReadBalance(p) PROVE SagaInv'
<1>1. PICK h, old, b : h = handler[p] /\ old = h.op /\ b = balance
  OBVIOUS
<1>2. h.pc \in DebitStep /\ h.pc = "read_balance"
  BY <1>1 DEF ReadBalance, DebitStep
<1>3. /\ operation' = operation
      /\ UNCHANGED <<charged, refunded, workspace, compute, storage, receipts, inFlight>>
  BY DEF ReadBalance, walletVars, tableVars, fabricVars
<1>4. old \in OperationType /\ OperationFits(old) /\ old.phase = "debit_pending"
      /\ old.post = Unread /\ old.status # "none" /\ old.status \notin Terminal
      /\ ~old.attempted /\ b \in Nat
  BY <1>1, <1>2, DebitTrue
<1>5. CASE Finish(p, RetryDebit(old))
  BY <1>1, <1>2, <1>3, <1>5, DebitTrue, WorldRests, LeaveSaga
<1>6. ASSUME NEW op, op = [old EXCEPT !.pre = b, !.attempted = TRUE], Save(p, op, "charge")
      PROVE  SagaInv'
  <2>1. op \in OperationType /\ KeepsEvidence(old, op) /\ op.phase = "debit_pending"
    BY <1>4, <1>6, DebitUpdates
  <2>2. op.status = old.status /\ op.refundAttempted = old.refundAttempted
        /\ op.refundConfirmed = old.refundConfirmed /\ op.confirmed = old.confirmed
    BY <1>4, <1>6 DEF OperationType
  <2> QED BY <1>1, <1>2, <1>3, <1>4, <1>6, <2>1, <2>2, WorldRests, DebitSaveSaga
<1>7. ASSUME NEW op, op = [old EXCEPT !.status = "insufficient", !.phase = "debit_pending",
                                      !.lease = NoProcess], Finish(p, op)
      PROVE  SagaInv'
  <2>1. "insufficient" \in Status /\ "debit_pending" \in Phase
    BY DEF Status, Phase
  <2>2. op \in OperationType
    BY <1>4, <1>7, <2>1 DEF OperationType
  <2>3. op.status # "none" /\ op.status \notin Terminal /\ op.phase = "debit_pending"
        /\ op.refundAttempted = old.refundAttempted
        /\ op.refundConfirmed = old.refundConfirmed /\ op.confirmed = old.confirmed
        /\ op.attempted = old.attempted /\ op.pre = old.pre /\ op.post = old.post
    BY <1>4, <1>7 DEF OperationType, Terminal
  <2>4. KeepsEvidence(old, op)
    BY <2>3 DEF KeepsEvidence
  <2> QED BY <1>1, <1>2, <1>3, <1>4, <1>7, <2>2, <2>3, <2>4, WorldRests, DebitSaveSaga DEF Finish
<1> QED BY <1>1, <1>5, <1>6, <1>7 DEF ReadBalance

LEMMA ConfirmChargeSaga ==
  ASSUME SagaInv, LaunchInv', NEW p \in Process, ConfirmCharge(p) PROVE SagaInv'
<1>1. PICK h, old, b : h = handler[p] /\ old = h.op /\ b = balance
  OBVIOUS
<1>2. h.pc \in DebitStep /\ h.pc = "confirm_charge"
  BY <1>1 DEF ConfirmCharge, DebitStep
<1>3. /\ operation' = operation
      /\ UNCHANGED <<charged, refunded, workspace, compute, storage, receipts, inFlight>>
  BY DEF ConfirmCharge, walletVars, tableVars, fabricVars
<1>4. old \in OperationType /\ OperationFits(old) /\ old.phase = "debit_pending"
      /\ old.post = Unread /\ old.status # "none" /\ old.status \notin Terminal
      /\ old.confirmed /\ b \in Nat
  BY <1>1, <1>2, DebitTrue
<1>5. CASE Finish(p, RetryDebit(old)) \/ Finish(p, Review(old))
  BY <1>1, <1>2, <1>3, <1>5, DebitTrue, WorldRests, LeaveSaga
<1>6. ASSUME NEW op, op = Review([old EXCEPT !.post = b]), Finish(p, op)
      PROVE  SagaInv'
  <2>1. "manual_review" \in Status
    BY DEF Status
  <2>2. op = [old EXCEPT !.post = b, !.status = "manual_review", !.lease = NoProcess]
    BY <1>4, <1>6 DEF Review
  <2>3. op \in OperationType
    BY <1>4, <2>1, <2>2 DEF OperationType
  <2>4. op.status # "none" /\ op.status \notin Terminal /\ op.phase = "debit_pending"
        /\ op.refundAttempted = old.refundAttempted
        /\ op.refundConfirmed = old.refundConfirmed /\ op.confirmed = old.confirmed
        /\ op.attempted = old.attempted /\ op.pre = old.pre
    BY <1>4, <2>2 DEF OperationType, Terminal
  <2>5. KeepsEvidence(old, op)
    BY <1>4, <2>4 DEF KeepsEvidence
  <2> QED BY <1>1, <1>2, <1>3, <1>4, <1>6, <2>3, <2>4, <2>5, WorldRests, DebitSaveSaga DEF Finish
<1>7. ASSUME NEW op, op = [old EXCEPT !.post = b, !.status = "debited", !.phase = "debited",
                                      !.lease = NoProcess],
             Finish(p, op), ExactDelta(old.pre, b)
      PROVE  SagaInv'
  <2>1. op \in OperationType /\ KeepsEvidence(old, op)
    BY <1>4, <1>7, ProofTaken
  <2>2. op.status = "debited" /\ op.phase = "debited"
        /\ op.refundAttempted = old.refundAttempted
        /\ op.refundConfirmed = old.refundConfirmed /\ op.confirmed = old.confirmed
    BY <1>4, <1>7 DEF OperationType
  <2>3. PICK l : l = h.launch /\ l \in Launch /\ RowTrue(l, old)
    BY <1>1, <1>2, DebitTrue
  <2>4. RowTrue(l, old)'
    BY <1>3, <2>3, WorldRests, RowStaysTrue
  <2>5. RowTrue(l, op)'
    BY <1>4, <2>2, <2>4 DEF RowTrue, Past, Stored, Served, Early
  <2>6. Follows(old, op)
    BY <1>4, <2>1, <2>2 DEF Follows, Past, Served, Early
  <2>7. h.pc \notin {"idle", "persist"}
    BY <1>2
  <2> QED BY <1>1, <1>3, <1>7, <2>1, <2>2, <2>3, <2>5, <2>6, <2>7, WorldRests, SaveSaga DEF Finish
<1>8. Finish(p, RetryDebit(old)) \/ Finish(p, Review(old))
      \/ Finish(p, Review([old EXCEPT !.post = b]))
      \/ /\ ExactDelta(old.pre, b)
         /\ Finish(p, [[old EXCEPT !.post = b] EXCEPT !.status = "debited", !.phase = "debited",
                                                      !.lease = NoProcess])
  BY <1>1 DEF ConfirmCharge
<1>9. [[old EXCEPT !.post = b] EXCEPT !.status = "debited", !.phase = "debited",
                                      !.lease = NoProcess]
      = [old EXCEPT !.post = b, !.status = "debited", !.phase = "debited", !.lease = NoProcess]
  BY <1>4 DEF OperationType
<1> QED BY <1>5, <1>6, <1>7, <1>8, <1>9

\* The wallet's answer to a charge.
LEMMA ChargeUsed ==
  ASSUME NEW l \in Launch, UseChargeCode(l) \/ UNCHANGED walletVars
  PROVE  /\ charged \subseteq charged' /\ charged' \subseteq charged \cup {l}
         /\ refunded' = refunded
         /\ UseChargeCode(l) => l \in charged'
BY DEF UseChargeCode, walletVars

LEMMA ChargeSaga ==
  ASSUME SagaInv, LaunchInv', NEW p \in Process, Charge(p) PROVE SagaInv'
<1>1. PICK h, l, op : h = handler[p] /\ l = h.launch /\ op = [h.op EXCEPT !.confirmed = TRUE]
  OBVIOUS
<1>2. h.pc \in DebitStep
  BY <1>1 DEF Charge, DebitStep
<1>3. operation' = operation /\ UNCHANGED <<workspace, compute, storage, receipts>>
  BY DEF Charge, tableVars, fabricVars
<1>4. l \in Launch /\ operation[l].status # "none"
  BY <1>1, <1>2, DebitTrue
<1>5. (UseChargeCode(l) \/ UNCHANGED walletVars)
      /\ inFlight' \in {inFlight, inFlight \cup {<<l, "charge">>}}
  BY <1>1 DEF Charge, LostRequest
<1>6. Grows
  BY <1>3, <1>4, <1>5, ChargeUsed DEF Grows
<1>7. \A m \in Launch : Accounts(m)
  <2>1. charged' \subseteq charged \cup {l} /\ refunded' = refunded
    BY <1>4, <1>5, ChargeUsed
  <2>2. \A m \in Launch : /\ <<m, "charge">> \in inFlight' => <<m, "charge">> \in inFlight \/ m = l
                          /\ <<m, "refund">> \in inFlight' => <<m, "refund">> \in inFlight
                          /\ <<m, "storage">> \in inFlight' => <<m, "storage">> \in inFlight
    BY <1>5
  <2> QED BY <1>3, <1>4, <2>1, <2>2 DEF Accounts, StorageWanted
<1>8. CASE Finish(p, RetryDebit(h.op)) \/ Finish(p, Review(h.op))
  BY <1>1, <1>2, <1>3, <1>6, <1>7, <1>8, DebitTrue, LeaveSaga
<1>9. CASE UseChargeCode(l) /\ Save(p, op, "confirm_charge")
  <2>1. h.op \in OperationType /\ OperationFits(h.op) /\ h.op.phase = "debit_pending"
        /\ h.op.post = Unread /\ h.op.status # "none" /\ h.op.status \notin Terminal
    BY <1>1, <1>2, DebitTrue
  <2>2. op \in OperationType /\ KeepsEvidence(h.op, op) /\ op.phase = "debit_pending"
    BY <1>1, <2>1, DebitUpdates
  <2>3. op.status = h.op.status /\ op.refundAttempted = h.op.refundAttempted
        /\ op.refundConfirmed = h.op.refundConfirmed
    BY <1>1, <2>1 DEF OperationType
  <2>4. l \in charged'
    BY <1>4, <1>9, ChargeUsed
  <2> QED BY <1>1, <1>2, <1>3, <1>6, <1>7, <1>9, <2>1, <2>2, <2>3, <2>4, DebitSaveSaga
<1> QED BY <1>1, <1>8, <1>9 DEF Charge
-----------------------------------------------------------------------------
(* Fulfilment keeps them.                                                  *)

\* What is known of a handler past the debit.
LEMMA FulfilTrue ==
  ASSUME SagaInv, NEW p \in Process, NEW h, h = handler[p], h.pc \in FulfilStep
  PROVE  /\ h.pc \notin {"idle", "persist"} /\ h.launch \in Launch
         /\ h.op \in OperationType /\ OperationFits(h.op) /\ ChargeConfirmed(h.op)
         /\ h.op.phase \notin Terminal /\ h.op.status # "none"
         /\ RowTrue(h.launch, h.op) /\ StepTrue(h.pc, h.launch, h.op)
         /\ Follows(h.op, operation[h.launch])
         /\ ChargeConfirmed(operation[h.launch])
<1>1. h.pc \notin {"idle", "persist"}
  BY DEF FulfilStep
<1>2. CopyTrue(h) /\ StepFits(h.pc, h.op) /\ OperationFits(h.op)
  BY <1>1, AtWorkTrue
<1>3. h.op = h.base
  BY <1>1, <1>2 DEF CopyTrue
<1>4. ChargeConfirmed(operation[h.launch])
  BY <1>1, AtWork, InvParts DEF SagaInv
<1> QED BY <1>1, <1>2, <1>3, <1>4, AtWorkTrue DEF CopyTrue, StepFits

LEMMA FulfilSteps ==
  FulfilPhase \cup {"compute_readback", "storage_readback", "storage_absence", "activate",
                    "refund", "refund_history", "refund_call", "refund_receipt",
                    "recover_truth"} \subseteq FulfilStep
BY DEF FulfilStep, Step, FulfilPhase, DebitStep

\* In fulfilment no refund was begun and no receipt is due, until the last phase.
LEMMA Fulfilling ==
  ASSUME NEW l, NEW op, OperationFits(op), ChargeConfirmed(op), RowTrue(l, op),
         op.phase \in FulfilPhase
  PROVE  /\ ~op.refundAttempted /\ ~Early(op)
         /\ op.phase # "receipt_pending" => ~Served(op)
         /\ Past(op) <=> op.phase \notin {"debited", "compute_fulfilling"}
         /\ op.phase \notin {"debited", "compute_fulfilling"} => compute[l] \in {"ready", "gone"}
         /\ op.phase \notin {"debited", "compute_fulfilling", "storage_fulfilling"}
              => storage[l] \in {"ready", "gone"}
BY DEF RowTrue, FulfilPhase, Early, Served, Past, Stored

LEMMA BeginFulfilmentSaga ==
  ASSUME SagaInv, LaunchInv', NEW p \in Process, BeginFulfilment(p) PROVE SagaInv'
<1>1. PICK h : h = handler[p]
  OBVIOUS
<1>2. h.pc \in FulfilStep /\ h.pc = "debited" /\ "debited" \in FulfilPhase
      /\ "compute_fulfilling" \in FulfilPhase
  BY <1>1, FulfilSteps DEF BeginFulfilment, FulfilPhase
<1>3. /\ operation' = operation
      /\ UNCHANGED <<charged, refunded, workspace, compute, storage, receipts, inFlight>>
  BY DEF BeginFulfilment, walletVars, tableVars, fabricVars
<1>4. h.op.phase = "debited"
  BY <1>1, <1>2, FulfilTrue DEF StepTrue
<1>5. ~h.op.refundAttempted /\ ~Served(h.op) /\ ~Past(h.op)
  BY <1>1, <1>2, <1>4, FulfilTrue, Fulfilling
<1> QED BY <1>1, <1>2, <1>3, <1>5, FulfilTrue, WorldRests, AdvanceSaga DEF BeginFulfilment

\* A prepare call of either resource.
LEMMA PrepareSaga ==
  ASSUME SagaInv, LaunchInv', Grows, operation' = operation, \A l \in Launch : Accounts(l),
         NEW p \in Process, NEW h, h = handler[p], h.pc \in FulfilStep,
         NEW step \in {"compute_readback", "storage_readback"}, StepTrue(step, h.launch, h.op),
         handler' = [handler EXCEPT ![p].pc = step, ![p].prepareFailed = FALSE]
           \/ handler' = [handler EXCEPT ![p].pc = step, ![p].prepareFailed = TRUE]
           \/ Finish(p, Review(h.op))
  PROVE  SagaInv'
<1>1. CASE Finish(p, Review(h.op))
  BY <1>1, FulfilTrue, LeaveSaga
<1>2. ASSUME NEW f, handler' = [handler EXCEPT ![p].pc = step, ![p].prepareFailed = f]
      PROVE  SagaInv'
  <2>1. PICK g : g = [h EXCEPT !.pc = step, !.prepareFailed = f]
    OBVIOUS
  <2>2. handler' = [handler EXCEPT ![p] = g]
    BY <1>2, <2>1
  <2>3. PICK l, op : l = h.launch /\ op = h.op
    OBVIOUS
  <2>4. StepTrue(step, l, op)'
    BY <2>3, FulfilTrue, StepStaysTrue
  <2> QED BY <2>1, <2>2, <2>3, <2>4, FulfilTrue, GotoSaga
<1> QED BY <1>1, <1>2

LEMMA PrepareComputeSaga ==
  ASSUME SagaInv, LaunchInv', NEW p \in Process, PrepareCompute(p) PROVE SagaInv'
<1>1. PICK h, l : h = handler[p] /\ l = h.launch
  OBVIOUS
<1>2. h.pc \in FulfilStep /\ h.pc = "compute_fulfilling" /\ "compute_fulfilling" \in FulfilPhase
  BY <1>1, FulfilSteps DEF PrepareCompute, FulfilPhase
<1>3. UNCHANGED <<operation, charged, refunded, workspace, receipts>>
  BY DEF PrepareCompute, Prepare, walletVars, tableVars
<1>4. (CreateCompute(l) \/ UNCHANGED fabricVars)
      /\ inFlight' \in {inFlight, inFlight \cup {<<l, "compute">>}}
  BY <1>1 DEF PrepareCompute, Prepare, LostRequest
<1>5. l \in Launch /\ h.op.phase = "compute_fulfilling"
  BY <1>1, <1>2, FulfilTrue DEF StepTrue
<1>6. compute \in [Launch -> ProviderState]
  BY RestTypedNow DEF SagaInv, RestTyped
<1>7. Grows
  BY <1>3, <1>4, <1>5, <1>6 DEF Grows, CreateCompute, fabricVars
<1>8. \A m \in Launch : Accounts(m)
  <2>1. \A m \in Launch, k \in {"charge", "refund", "storage"} :
          <<m, k>> \in inFlight' => <<m, k>> \in inFlight
    BY <1>4
  <2>2. storage' = storage
    BY <1>4 DEF CreateCompute, fabricVars
  <2> QED BY <1>3, <2>1, <2>2 DEF Accounts, StorageWanted
<1>9. StepTrue("compute_readback", l, h.op)
  BY <1>5 DEF StepTrue, FulfilPhase
<1> QED BY <1>1, <1>2, <1>3, <1>7, <1>8, <1>9, PrepareSaga DEF PrepareCompute, Prepare

LEMMA PrepareStorageSaga ==
  ASSUME SagaInv, LaunchInv', NEW p \in Process, PrepareStorage(p) PROVE SagaInv'
<1>1. PICK h, l : h = handler[p] /\ l = h.launch
  OBVIOUS
<1>2. h.pc \in FulfilStep /\ h.pc = "storage_fulfilling" /\ "storage_fulfilling" \in FulfilPhase
  BY <1>1, FulfilSteps DEF PrepareStorage, FulfilPhase
<1>3. UNCHANGED <<operation, charged, refunded, workspace, receipts>>
  BY DEF PrepareStorage, Prepare, walletVars, tableVars
<1>4. (CreateStorage(l) \/ UNCHANGED fabricVars)
      /\ inFlight' \in {inFlight, inFlight \cup {<<l, "storage">>}}
  BY <1>1 DEF PrepareStorage, Prepare, LostRequest
<1>5. l \in Launch /\ h.op.phase = "storage_fulfilling" /\ WorldFits(l)
  BY <1>1, <1>2, FulfilTrue DEF StepTrue, SagaInv
<1>6. storage \in [Launch -> ProviderState]
  BY RestTypedNow DEF SagaInv, RestTyped
<1>7. /\ compute' = compute
      /\ \A m \in Launch : m # l => storage'[m] = storage[m]
      /\ storage[l] \in {"gone", "ready"} => storage'[l] = storage[l]
  BY <1>4, <1>5, <1>6 DEF CreateStorage, fabricVars
<1>8. Grows
  BY <1>3, <1>5, <1>7 DEF Grows
<1>9. Past(operation[l])
  <2>1. Past(h.op) /\ Follows(h.op, operation[l])
    BY <1>1, <1>2, <1>5, FulfilTrue, Fulfilling
  <2> QED BY <2>1 DEF Follows
<1>10. operation[l].refundAttempted => storage'[l] = "gone"
  <2>1. StorageWanted(l)
    BY <1>1, <1>2 DEF StorageWanted
  <2> QED BY <1>5, <1>7, <2>1 DEF WorldFits
<1>11. \A m \in Launch : Accounts(m)
  <2>1. \A m \in Launch : /\ <<m, "charge">> \in inFlight' => <<m, "charge">> \in inFlight
                          /\ <<m, "refund">> \in inFlight' => <<m, "refund">> \in inFlight
                          /\ <<m, "storage">> \in inFlight' /\ m # l => <<m, "storage">> \in inFlight
    BY <1>4
  <2> QED BY <1>3, <1>7, <1>9, <1>10, <2>1 DEF Accounts, StorageWanted
<1>12. StepTrue("storage_readback", l, h.op)
  BY <1>5 DEF StepTrue, FulfilPhase
<1> QED BY <1>1, <1>2, <1>3, <1>8, <1>11, <1>12, PrepareSaga DEF PrepareStorage, Prepare

\* Reading a resource back: the handler leaves, or goes where the fact allows.
LEMMA ReadbackComputeSaga ==
  ASSUME SagaInv, LaunchInv', NEW p \in Process, ReadbackCompute(p) PROVE SagaInv'
<1>1. PICK h, l : h = handler[p] /\ l = h.launch
  OBVIOUS
<1>2. h.pc \in FulfilStep /\ h.pc = "compute_readback"
      /\ {"compute_fulfilling", "storage_fulfilling"} \subseteq FulfilPhase
  BY <1>1, FulfilSteps DEF ReadbackCompute, FulfilPhase
<1>3. /\ operation' = operation
      /\ UNCHANGED <<charged, refunded, workspace, compute, storage, receipts, inFlight>>
  BY DEF ReadbackCompute, walletVars, fabricVars
<1>4. h.op.phase = "compute_fulfilling"
  BY <1>1, <1>2, FulfilTrue DEF StepTrue
<1>5. ~h.op.refundAttempted /\ ~Served(h.op) /\ ~Past(h.op)
  BY <1>1, <1>2, <1>4, FulfilTrue, Fulfilling
<1>6. CASE compute[l] = "ready" /\ Save(p, Enter(h.op, "storage_fulfilling"), "storage_fulfilling")
  BY <1>1, <1>2, <1>3, <1>5, <1>6, FulfilTrue, WorldRests, AdvanceSaga
<1>7. CASE compute[l] = "gone" /\ Goto(p, "storage_absence")
  <2>1. StepTrue("storage_absence", l, h.op)
    BY <1>4, <1>7 DEF StepTrue, FulfilPhase
  <2> QED BY <1>1, <1>2, <1>3, <1>7, <2>1, FulfilTrue, GotoQuietly
<1>8. CASE Finish(p, Wait(h.op)) \/ Finish(p, Review(h.op))
  BY <1>1, <1>2, <1>3, <1>8, FulfilTrue, WorldRests, LeaveSaga
<1> QED BY <1>1, <1>6, <1>7, <1>8 DEF ReadbackCompute, Readback

LEMMA ReadbackStorageSaga ==
  ASSUME SagaInv, LaunchInv', NEW p \in Process, ReadbackStorage(p) PROVE SagaInv'
<1>1. PICK h, l : h = handler[p] /\ l = h.launch
  OBVIOUS
<1>2. h.pc \in FulfilStep /\ h.pc = "storage_readback"
      /\ {"storage_fulfilling", "attaching"} \subseteq FulfilPhase
  BY <1>1, FulfilSteps DEF ReadbackStorage, FulfilPhase
<1>3. /\ operation' = operation
      /\ UNCHANGED <<charged, refunded, workspace, compute, storage, receipts, inFlight>>
  BY DEF ReadbackStorage, walletVars, fabricVars
<1>4. h.op.phase = "storage_fulfilling"
  BY <1>1, <1>2, FulfilTrue DEF StepTrue
<1>5. ~h.op.refundAttempted /\ ~Served(h.op) /\ compute[l] \in {"ready", "gone"}
  BY <1>1, <1>2, <1>4, FulfilTrue, Fulfilling
<1>6. CASE storage[l] = "ready" /\ Save(p, Enter(h.op, "attaching"), "attaching")
  BY <1>1, <1>2, <1>3, <1>5, <1>6, FulfilTrue, WorldRests, AdvanceSaga
<1>7. CASE Finish(p, Wait(h.op)) \/ Finish(p, Review(h.op))
  BY <1>1, <1>2, <1>3, <1>7, FulfilTrue, WorldRests, LeaveSaga
<1> QED BY <1>1, <1>6, <1>7 DEF ReadbackStorage, Readback

LEMMA StorageAbsenceSaga ==
  ASSUME SagaInv, LaunchInv', NEW p \in Process, StorageAbsence(p) PROVE SagaInv'
<1>1. PICK h, l : h = handler[p] /\ l = h.launch
  OBVIOUS
<1>2. h.pc \in FulfilStep /\ h.pc = "storage_absence" /\ "compute_fulfilling" \in FulfilPhase
  BY <1>1, FulfilSteps DEF StorageAbsence, FulfilPhase
<1>3. /\ operation' = operation
      /\ UNCHANGED <<charged, refunded, workspace, compute, storage, receipts, inFlight>>
  BY DEF StorageAbsence, walletVars, tableVars, fabricVars
<1>4. h.op.phase = "compute_fulfilling" /\ compute[l] = "gone"
  BY <1>1, <1>2, FulfilTrue DEF StepTrue
<1>5. CASE Goto(p, "refund")
  <2>1. StepTrue("refund", l, h.op)
    BY <1>4 DEF StepTrue, FulfilPhase, MayRefund, Served
  <2> QED BY <1>1, <1>2, <1>3, <1>5, <2>1, FulfilTrue, GotoQuietly
<1>6. CASE Finish(p, Review(h.op))
  BY <1>1, <1>2, <1>3, <1>6, FulfilTrue, WorldRests, LeaveSaga
<1> QED BY <1>1, <1>5, <1>6 DEF StorageAbsence

\* A Fabric write touches neither resource, whatever becomes of its claim.
LEMMA WriteSaga ==
  ASSUME SagaInv, LaunchInv', NEW p \in Process, NEW h, h = handler[p],
         NEW phase \in {"attaching", "secret_writing", "runtime_starting"}, h.pc = phase,
         NEW next \in {"secret_writing", "runtime_starting", "activating"},
         UNCHANGED <<operation, charged, refunded, workspace, compute, storage, receipts, inFlight>>,
         \/ Save(p, Enter(h.op, next), next)
         \/ \E op \in {Retry(h.op), Wait(h.op), Review(h.op)} : Finish(p, op)
  PROVE  SagaInv'
<1>1. {phase, next} \subseteq FulfilPhase /\ h.pc \in FulfilStep
  BY FulfilSteps DEF FulfilPhase
<1>2. h.op.phase = phase
  BY <1>1, FulfilTrue DEF StepTrue
<1>3. PICK l : l = h.launch
  OBVIOUS
<1>4. ~h.op.refundAttempted /\ ~Served(h.op) /\ compute[l] \in {"ready", "gone"}
      /\ storage[l] \in {"ready", "gone"}
  BY <1>1, <1>2, <1>3, FulfilTrue, Fulfilling
<1>5. CASE Save(p, Enter(h.op, next), next)
  BY <1>1, <1>3, <1>4, <1>5, FulfilTrue, WorldRests, AdvanceSaga
<1>6. ASSUME NEW op \in {Retry(h.op), Wait(h.op), Review(h.op)}, Finish(p, op)
      PROVE  SagaInv'
  BY <1>1, <1>6, FulfilTrue, WorldRests, LeaveSaga
<1> QED BY <1>5, <1>6

LEMMA AttachSaga ==
  ASSUME SagaInv, LaunchInv', NEW p \in Process, Attach(p) PROVE SagaInv'
<1>1. PICK h : h = handler[p] /\ h.pc = "attaching"
  BY DEF Attach
<1>2. UNCHANGED <<operation, charged, refunded, workspace, compute, storage, receipts, inFlight>>
  BY DEF Attach, FabricWrite, walletVars, fabricVars
<1>3. \/ Save(p, Enter(h.op, "secret_writing"), "secret_writing")
      \/ Finish(p, Retry(h.op)) \/ Finish(p, Review(h.op))
  BY <1>1 DEF Attach, FabricWrite
<1> QED BY <1>1, <1>2, <1>3, WriteSaga

LEMMA WriteSecretSaga ==
  ASSUME SagaInv, LaunchInv', NEW p \in Process, WriteSecret(p) PROVE SagaInv'
<1>1. PICK h : h = handler[p] /\ h.pc = "secret_writing"
  BY DEF WriteSecret
<1>2. UNCHANGED <<operation, charged, refunded, workspace, compute, storage, receipts, inFlight>>
  BY DEF WriteSecret, FabricWrite, walletVars, tableVars, fabricVars
<1>3. \/ Save(p, Enter(h.op, "runtime_starting"), "runtime_starting")
      \/ Finish(p, Retry(h.op)) \/ Finish(p, Review(h.op))
  BY <1>1 DEF WriteSecret, FabricWrite
<1> QED BY <1>1, <1>2, <1>3, WriteSaga

LEMMA StartRuntimeSaga ==
  ASSUME SagaInv, LaunchInv', NEW p \in Process, StartRuntime(p) PROVE SagaInv'
<1>1. PICK h : h = handler[p] /\ h.pc = "runtime_starting"
  BY DEF StartRuntime
<1>2. UNCHANGED <<operation, charged, refunded, workspace, compute, storage, receipts, inFlight>>
  BY DEF StartRuntime, FabricWrite, walletVars, tableVars, fabricVars
<1>3. \/ Save(p, Enter(h.op, "activating"), "activating")
      \/ Finish(p, Retry(h.op)) \/ Finish(p, Review(h.op)) \/ Finish(p, Wait(h.op))
  BY <1>1 DEF StartRuntime, FabricWrite
<1> QED BY <1>1, <1>2, <1>3, WriteSaga

LEMMA VerifyProviderSaga ==
  ASSUME SagaInv, LaunchInv', NEW p \in Process, VerifyProvider(p) PROVE SagaInv'
<1>1. PICK h : h = handler[p] /\ h.pc = "activating"
  BY DEF VerifyProvider
<1>2. h.pc \in FulfilStep /\ "activating" \in FulfilPhase
  BY <1>1, FulfilSteps DEF FulfilPhase
<1>3. /\ operation' = operation
      /\ UNCHANGED <<charged, refunded, workspace, compute, storage, receipts, inFlight>>
  BY DEF VerifyProvider, walletVars, fabricVars
<1>4. CASE Goto(p, "activate")
  <2>1. StepTrue("activate", h.launch, h.op)
    BY <1>1, <1>2, FulfilTrue DEF StepTrue, FulfilPhase
  <2> QED BY <1>1, <1>2, <1>3, <1>4, <2>1, FulfilTrue, GotoQuietly
<1>5. CASE Finish(p, Review(h.op))
  BY <1>1, <1>2, <1>3, <1>5, FulfilTrue, WorldRests, LeaveSaga
<1> QED BY <1>1, <1>4, <1>5 DEF VerifyProvider

LEMMA ActivateSaga ==
  ASSUME SagaInv, LaunchInv', NEW p \in Process, Activate(p) PROVE SagaInv'
<1>1. PICK h, l : h = handler[p] /\ h.pc = "activate" /\ l = h.launch
  BY DEF Activate
<1>2. h.pc \in FulfilStep /\ {"activating", "receipt_pending"} \subseteq FulfilPhase
  BY <1>1, FulfilSteps DEF FulfilPhase
<1>3. UNCHANGED <<operation, charged, refunded, compute, storage, receipts, inFlight>>
      /\ workspace \subseteq workspace'
  BY DEF Activate, walletVars, fabricVars
<1>4. Grows /\ \A m \in Launch : Accounts(m)
  BY <1>3, NothingAccounted DEF Grows
<1>5. h.op.phase = "activating"
  BY <1>1, <1>2, FulfilTrue DEF StepTrue
<1>6. ~h.op.refundAttempted /\ compute[l] \in {"ready", "gone"} /\ storage[l] \in {"ready", "gone"}
  BY <1>1, <1>2, <1>5, FulfilTrue, Fulfilling
<1>7. CASE Finish(p, Retry(h.op)) \/ Finish(p, Review(h.op))
  BY <1>1, <1>2, <1>3, <1>4, <1>7, FulfilTrue, LeaveSaga
<1>8. CASE l \in workspace' /\ Save(p, Enter(h.op, "receipt_pending"), "receipt_pending")
  BY <1>1, <1>2, <1>3, <1>4, <1>6, <1>8, FulfilTrue, AdvanceSaga
<1> QED BY <1>1, <1>7, <1>8 DEF Activate

\* A receipt is recorded and the operation settles, or the handler leaves.
LEMMA RecordSaga ==
  ASSUME SagaInv, LaunchInv', NEW p \in Process, NEW h, h = handler[p], h.pc \in FulfilStep,
         NEW l, l = h.launch, NEW kind, NEW outcome, Record(p, kind, outcome),
         UNCHANGED <<operation, charged, refunded, workspace, compute, storage, inFlight>>,
         \/ /\ kind = "purchase" /\ outcome = "succeeded" /\ h.op.phase = "receipt_pending"
         \/ /\ kind = "refund" /\ outcome = "refunded" /\ h.op.refundConfirmed
  PROVE  SagaInv'
<1>1. PICK old : old = h.op
  OBVIOUS
<1>2. /\ l \in Launch /\ old \in OperationType /\ OperationFits(old) /\ ChargeConfirmed(old)
      /\ RowTrue(l, old) /\ Follows(old, operation[l])
  BY <1>1, FulfilTrue
<1>3. receipts \in [Launch -> SUBSET {"purchase", "refund"}]
  BY RestTypedNow DEF SagaInv, RestTyped
<1>4. receipts' \in {receipts, [receipts EXCEPT ![l] = @ \cup {kind}]}
  BY DEF Record
<1>5. \A m \in Launch : receipts[m] \subseteq receipts'[m]
        /\ \A k \in receipts'[m] : k \in receipts[m] \/ (k = kind /\ m = l)
  BY <1>2, <1>3, <1>4
<1>6. Grows
  BY <1>5 DEF Grows
<1>7. /\ kind = "purchase" => Served(operation[l])
      /\ kind = "refund" => l \in refunded'
  BY <1>1, <1>2 DEF Served, Follows, RowTrue
<1>8. \A m \in Launch : Accounts(m)
  BY <1>5, <1>7 DEF Accounts, StorageWanted
<1>9. CASE Finish(p, Retry(h.op)) \/ Finish(p, Review(h.op))
  BY <1>6, <1>8, <1>9, FulfilTrue, LeaveSaga
<1>10. ASSUME NEW op, op = [old EXCEPT !.status = outcome, !.phase = outcome, !.lease = NoProcess],
              Finish(p, op), receipts' = [receipts EXCEPT ![l] = @ \cup {kind}]
       PROVE  SagaInv'
  <2>1. outcome \in Status /\ outcome \in Phase /\ outcome \in Terminal
    BY DEF Status, Phase, Terminal
  <2>2. op \in OperationType
    BY <1>2, <1>10, <2>1 DEF OperationType
  <2>3. /\ op.phase = outcome /\ op.status = outcome
        /\ op.attempted = old.attempted /\ op.pre = old.pre /\ op.post = old.post
        /\ op.confirmed = old.confirmed /\ op.refundAttempted = old.refundAttempted
        /\ op.refundConfirmed = old.refundConfirmed
    BY <1>2, <1>10 DEF OperationType
  <2>4. RowTrue(l, old)'
    BY <1>2, <1>6, RowStaysTrue
  <2>5. kind \in receipts'[l]
    BY <1>2, <1>3, <1>10
  <2>6. ~Early(op) /\ Past(op)
    BY <2>1, <2>3 DEF Early, Past, Terminal
  <2>7. CASE kind = "purchase" /\ outcome = "succeeded" /\ old.phase = "receipt_pending"
    <3>1. Past(old) /\ Stored(old) /\ Served(old)
      BY <2>7 DEF Past, Stored, Served, Early
    <3>2. RowTrue(l, op)'
      BY <2>3, <2>4, <2>5, <2>6, <2>7, <3>1 DEF RowTrue
    <3>3. Follows(old, op)
      BY <2>3, <2>6, <2>7 DEF Follows, Served, KeepsEvidence
    <3> QED BY <1>1, <1>6, <1>8, <1>10, <2>2, <2>3, <3>2, <3>3, FulfilTrue, SaveSaga DEF Finish
  <2>8. CASE kind = "refund" /\ outcome = "refunded" /\ old.refundConfirmed
    <3>1. old.refundAttempted /\ ~Served(old)
      BY <1>2, <2>8 DEF RowTrue, Served
    <3>2. RowTrue(l, op)'
      BY <2>3, <2>4, <2>5, <2>6, <2>8, <3>1 DEF RowTrue, Stored, Served
    <3>3. Follows(old, op)
      BY <2>3, <2>6, <2>8, <3>1 DEF Follows, KeepsEvidence
    <3> QED BY <1>1, <1>6, <1>8, <1>10, <2>2, <2>3, <3>2, <3>3, FulfilTrue, SaveSaga DEF Finish
  <2> QED BY <1>1, <2>7, <2>8
<1> QED BY <1>1, <1>9, <1>10 DEF Record

LEMMA RecordPurchaseSaga ==
  ASSUME SagaInv, LaunchInv', NEW p \in Process, RecordPurchase(p) PROVE SagaInv'
<1>1. PICK h : h = handler[p] /\ h.pc = "receipt_pending"
  BY DEF RecordPurchase
<1>2. h.pc \in FulfilStep /\ "receipt_pending" \in FulfilPhase
  BY <1>1, FulfilSteps DEF FulfilPhase
<1>3. UNCHANGED <<operation, charged, refunded, workspace, compute, storage, inFlight>>
  BY DEF RecordPurchase, walletVars, tableVars, fabricVars
<1>4. h.op.phase = "receipt_pending"
  BY <1>1, <1>2, FulfilTrue DEF StepTrue
<1>5. CASE Record(p, "purchase", "succeeded")
  BY <1>1, <1>2, <1>3, <1>4, <1>5, RecordSaga
<1>6. CASE receipts' = receipts /\ Finish(p, Retry(h.op))
  BY <1>1, <1>2, <1>3, <1>6, FulfilTrue, WorldRests, LeaveSaga
<1> QED BY <1>1, <1>5, <1>6 DEF RecordPurchase

LEMMA RecordRefundSaga ==
  ASSUME SagaInv, LaunchInv', NEW p \in Process, RecordRefund(p) PROVE SagaInv'
<1>1. PICK h : h = handler[p] /\ h.pc = "refund_receipt"
  BY DEF RecordRefund
<1>2. h.pc \in FulfilStep
  BY <1>1, FulfilSteps
<1>3. UNCHANGED <<operation, charged, refunded, workspace, compute, storage, inFlight>>
  BY DEF RecordRefund, walletVars, tableVars, fabricVars
<1>4. h.op.refundConfirmed
  BY <1>1, <1>2, FulfilTrue DEF StepTrue
<1> QED BY <1>1, <1>2, <1>3, <1>4, RecordSaga DEF RecordRefund
-----------------------------------------------------------------------------
(* Refund and recovery keep them.                                          *)

LEMMA BeginRefundSaga ==
  ASSUME SagaInv, LaunchInv', NEW p \in Process, BeginRefund(p) PROVE SagaInv'
<1>1. PICK h, l, old : h = handler[p] /\ h.pc = "refund" /\ l = h.launch /\ old = h.op
  BY DEF BeginRefund
<1>2. h.pc \in FulfilStep /\ "refund" \notin FulfilPhase
  BY <1>1, FulfilSteps DEF FulfilPhase
<1>3. /\ operation' = operation
      /\ UNCHANGED <<charged, refunded, workspace, compute, storage, receipts, inFlight>>
  BY DEF BeginRefund, walletVars, tableVars, fabricVars
<1>4. /\ l \in Launch /\ old \in OperationType /\ OperationFits(old) /\ ChargeConfirmed(old)
      /\ RowTrue(l, old) /\ (old.refundAttempted \/ MayRefund(l, old))
  BY <1>1, <1>2, FulfilTrue DEF StepTrue
<1>5. ASSUME NEW step \in {"refund_receipt", "refund_history"}, Goto(p, step),
             old.refundConfirmed \/ (step = "refund_history" /\ old.refundAttempted)
      PROVE  SagaInv'
  <2>1. StepTrue(step, l, old)
    BY <1>4, <1>5 DEF StepTrue, FulfilPhase, RowTrue
  <2> QED BY <1>1, <1>2, <1>3, <1>5, <2>1, FulfilTrue, GotoQuietly
<1>6. CASE Finish(p, Review(old))
  BY <1>1, <1>2, <1>3, <1>6, FulfilTrue, WorldRests, LeaveSaga
<1>7. ASSUME NEW op, op = [old EXCEPT !.status = "refund_pending", !.phase = "refund_pending",
                                      !.refundAttempted = TRUE],
             Save(p, op, "refund_call"), ~old.refundAttempted
      PROVE  SagaInv'
  <2>1. "refund_pending" \in Status /\ "refund_pending" \in Phase
    BY DEF Status, Phase
  <2>2. op \in OperationType
    BY <1>4, <1>7, <2>1 DEF OperationType
  <2>3. /\ op.phase = "refund_pending" /\ op.status = "refund_pending" /\ op.refundAttempted
        /\ op.attempted = old.attempted /\ op.pre = old.pre /\ op.post = old.post
        /\ op.confirmed = old.confirmed /\ op.refundConfirmed = old.refundConfirmed
    BY <1>4, <1>7 DEF OperationType
  <2>4. ~Early(op) /\ Past(op) /\ ~Stored(op) /\ ~Served(op)
    BY <2>3 DEF Early, Past, Stored, Served
  <2>5. RowTrue(l, old)' /\ MayRefund(l, old)'
    BY <1>3, <1>4, <1>7, WorldRests, RowStaysTrue, MayRefundStays
  <2>6. RowTrue(l, op)'
    BY <1>7, <2>3, <2>4, <2>5 DEF RowTrue, MayRefund
  <2>7. Follows(old, op)
    BY <1>4, <1>7, <2>3, <2>4 DEF Follows, KeepsEvidence, MayRefund
  <2>8. StepTrue("refund_call", l, op)'
    BY <2>3 DEF StepTrue, FulfilPhase
  <2> QED BY <1>1, <1>2, <1>3, <1>7, <2>2, <2>5, <2>6, <2>7, <2>8, FulfilTrue, WorldRests, SaveSaga
<1>8. \/ old.refundConfirmed /\ Goto(p, "refund_receipt")
      \/ old.refundAttempted /\ Goto(p, "refund_history")
      \/ ~old.refundAttempted
           /\ Save(p, [old EXCEPT !.status = "refund_pending", !.phase = "refund_pending",
                                  !.refundAttempted = TRUE], "refund_call")
      \/ Finish(p, Review(old))
  BY <1>1 DEF BeginRefund
<1> QED BY <1>5, <1>6, <1>7, <1>8

\* The confirmation of a refund is saved.
LEMMA RefundNoted ==
  ASSUME SagaInv, LaunchInv', Grows, operation' = operation, \A l \in Launch : Accounts(l),
         NEW p \in Process, NEW h, h = handler[p], h.pc \in {"refund_history", "refund_call"},
         NEW op, op = [h.op EXCEPT !.refundConfirmed = TRUE], Save(p, op, "refund_receipt"),
         h.launch \in refunded'
  PROVE  SagaInv'
<1>1. PICK l, old : l = h.launch /\ old = h.op
  OBVIOUS
<1>2. h.pc \in FulfilStep
  BY FulfilSteps
<1>3. /\ l \in Launch /\ old \in OperationType /\ OperationFits(old) /\ RowTrue(l, old)
      /\ old.refundAttempted /\ old.status # "none"
  BY <1>1, <1>2, FulfilTrue DEF StepTrue
<1>4. op \in OperationType
  BY <1>1, <1>3 DEF OperationType
<1>5. /\ op.phase = old.phase /\ op.status = old.status /\ op.refundConfirmed
      /\ op.refundAttempted = old.refundAttempted
      /\ op.attempted = old.attempted /\ op.pre = old.pre /\ op.post = old.post
      /\ op.confirmed = old.confirmed
  BY <1>1, <1>3 DEF OperationType
<1>6. RowTrue(l, old)'
  BY <1>3, RowStaysTrue
<1>7. RowTrue(l, op)'
  BY <1>1, <1>3, <1>5, <1>6 DEF RowTrue, Past, Stored, Served, Early
<1>8. Follows(old, op)
  BY <1>3, <1>5 DEF Follows, KeepsEvidence, Past, Served, Early
<1>9. StepTrue("refund_receipt", l, op)'
  BY <1>5 DEF StepTrue, FulfilPhase
<1> QED BY <1>1, <1>2, <1>3, <1>4, <1>5, <1>7, <1>8, <1>9, FulfilTrue, SaveSaga

LEMMA RefundHistorySaga ==
  ASSUME SagaInv, LaunchInv', NEW p \in Process, RefundHistory(p) PROVE SagaInv'
<1>1. PICK h : h = handler[p] /\ h.pc = "refund_history"
  BY DEF RefundHistory
<1>2. h.pc \in FulfilStep
  BY <1>1, FulfilSteps
<1>3. /\ operation' = operation
      /\ UNCHANGED <<charged, refunded, workspace, compute, storage, receipts, inFlight>>
  BY DEF RefundHistory, walletVars, tableVars, fabricVars
<1>4. CASE Goto(p, "refund_call")
  <2>1. StepTrue("refund_call", h.launch, h.op)
    BY <1>1, <1>2, FulfilTrue DEF StepTrue, FulfilPhase
  <2> QED BY <1>1, <1>2, <1>3, <1>4, <2>1, FulfilTrue, GotoQuietly
<1>5. CASE Finish(p, Review(h.op))
  BY <1>1, <1>2, <1>3, <1>5, FulfilTrue, WorldRests, LeaveSaga
<1>6. ASSUME NEW op, op = [h.op EXCEPT !.refundConfirmed = TRUE], Save(p, op, "refund_receipt"),
             h.launch \in refunded
      PROVE  SagaInv'
  BY <1>1, <1>3, <1>6, WorldRests, RefundNoted
<1> QED BY <1>1, <1>4, <1>5, <1>6 DEF RefundHistory

LEMMA RefundUsed ==
  ASSUME NEW l \in Launch, UseRefundCode(l) \/ UNCHANGED walletVars
  PROVE  /\ refunded \subseteq refunded' /\ refunded' \subseteq refunded \cup {l}
         /\ charged' = charged
         /\ UseRefundCode(l) => l \in refunded'
BY DEF UseRefundCode, walletVars

LEMMA RefundCallSaga ==
  ASSUME SagaInv, LaunchInv', NEW p \in Process, RefundCall(p) PROVE SagaInv'
<1>1. PICK h, l : h = handler[p] /\ h.pc = "refund_call" /\ l = h.launch
  BY DEF RefundCall
<1>2. h.pc \in FulfilStep
  BY <1>1, FulfilSteps
<1>3. operation' = operation /\ UNCHANGED <<workspace, compute, storage, receipts>>
  BY DEF RefundCall, tableVars, fabricVars
<1>4. l \in Launch /\ operation[l].refundAttempted
  BY <1>1, <1>2, FulfilTrue DEF StepTrue, Follows, KeepsEvidence
<1>5. (UseRefundCode(l) \/ UNCHANGED walletVars)
      /\ inFlight' \in {inFlight, inFlight \cup {<<l, "refund">>}}
  BY <1>1 DEF RefundCall, LostRequest
<1>6. Grows
  BY <1>3, <1>4, <1>5, RefundUsed DEF Grows
<1>7. \A m \in Launch : Accounts(m)
  <2>1. refunded' \subseteq refunded \cup {l} /\ charged' = charged
    BY <1>4, <1>5, RefundUsed
  <2>2. \A m \in Launch : /\ <<m, "refund">> \in inFlight' => <<m, "refund">> \in inFlight \/ m = l
                          /\ <<m, "charge">> \in inFlight' => <<m, "charge">> \in inFlight
                          /\ <<m, "storage">> \in inFlight' => <<m, "storage">> \in inFlight
    BY <1>5
  <2> QED BY <1>3, <1>4, <2>1, <2>2 DEF Accounts, StorageWanted
<1>8. CASE Finish(p, Retry(h.op))
  BY <1>1, <1>2, <1>3, <1>6, <1>7, <1>8, FulfilTrue, LeaveSaga
<1>9. ASSUME NEW op, op = [h.op EXCEPT !.refundConfirmed = TRUE], UseRefundCode(l),
             Save(p, op, "refund_receipt")
      PROVE  SagaInv'
  <2>1. l \in refunded'
    BY <1>4, <1>9, RefundUsed
  <2> QED BY <1>1, <1>3, <1>6, <1>7, <1>9, <2>1, RefundNoted
<1> QED BY <1>1, <1>8, <1>9 DEF RefundCall

LEMMA RecoverTruthSaga ==
  ASSUME SagaInv, LaunchInv', NEW p \in Process, RecoverTruth(p) PROVE SagaInv'
<1>1. PICK h, l : h = handler[p] /\ h.pc = "recover_truth" /\ l = h.launch
  BY DEF RecoverTruth
<1>2. h.pc \in FulfilStep /\ {"attaching", "storage_fulfilling"} \subseteq FulfilPhase
      /\ "recover_truth" \notin FulfilPhase
  BY <1>1, FulfilSteps DEF FulfilPhase
<1>3. /\ operation' = operation
      /\ UNCHANGED <<charged, refunded, workspace, compute, storage, receipts, inFlight>>
  BY DEF RecoverTruth, walletVars, fabricVars
<1>4. /\ l \in Launch /\ h.op \in OperationType /\ ChargeConfirmed(h.op)
      /\ RowTrue(l, h.op) /\ ~Served(h.op)
  BY <1>1, <1>2, FulfilTrue DEF StepTrue
<1>5. CASE Return(p)
  BY <1>3, <1>5, WorldRests, ReturnSaga
<1>6. CASE BothAbsent(l) /\ Goto(p, "refund")
  <2>1. StepTrue("refund", l, h.op)
    BY <1>4, <1>6 DEF StepTrue, FulfilPhase, MayRefund, BothAbsent
  <2> QED BY <1>1, <1>2, <1>3, <1>6, <2>1, FulfilTrue, GotoQuietly
<1>7. ASSUME NEW resume \in {"attaching", "storage_fulfilling"}, compute[l] = "ready",
             resume = "attaching" => storage[l] = "ready",
             NEW op, op = [Enter(h.op, resume) EXCEPT !.lease = NoProcess],
             Save(p, op, resume)
      PROVE  SagaInv'
  <2>1. PICK old : old = h.op
    OBVIOUS
  <2>2. resume \in Phase /\ "preparing" \in Status
    BY DEF Phase, Status, FulfilPhase
  <2>3. op = [old EXCEPT !.status = "preparing", !.phase = resume, !.lease = NoProcess]
    BY <1>4, <1>7, <2>1 DEF Enter
  <2>4. op \in OperationType
    BY <1>4, <2>1, <2>2, <2>3 DEF OperationType
  <2>5. /\ op.phase = resume /\ op.status = "preparing"
        /\ op.attempted = old.attempted /\ op.pre = old.pre /\ op.post = old.post
        /\ op.confirmed = old.confirmed /\ op.refundAttempted = old.refundAttempted
        /\ op.refundConfirmed = old.refundConfirmed
    BY <1>4, <2>1, <2>3 DEF OperationType
  <2>6. ~old.refundAttempted
    BY <1>4, <1>7, <2>1 DEF RowTrue
  <2>7. Past(op) /\ ~Early(op) /\ ~Served(op) /\ (Stored(op) => resume = "attaching")
    BY <2>5 DEF Past, Early, Served, Stored
  <2>8. RowTrue(l, old)'
    BY <1>3, <1>4, <2>1, WorldRests, RowStaysTrue
  <2>9. RowTrue(l, op)'
    BY <1>3, <1>7, <2>5, <2>6, <2>7, <2>8 DEF RowTrue, Terminal
  <2>10. Follows(old, op)
    BY <1>4, <2>1, <2>5, <2>7 DEF Follows, KeepsEvidence
  <2>11. StepTrue(resume, l, op)'
    BY <2>5 DEF StepTrue
  <2> QED BY <1>1, <1>2, <1>3, <1>7, <2>1, <2>4, <2>5, <2>6, <2>9, <2>10, <2>11,
             FulfilTrue, WorldRests, SaveSaga
<1>8. \/ Return(p)
      \/ BothAbsent(l) /\ Goto(p, "refund")
      \/ /\ compute[l] = "ready"
         /\ LET resume == IF storage[l] = "ready" THEN "attaching" ELSE "storage_fulfilling"
            IN Save(p, [Enter(h.op, resume) EXCEPT !.lease = NoProcess], resume)
  BY <1>1 DEF RecoverTruth
<1> QED BY <1>5, <1>6, <1>7, <1>8
-----------------------------------------------------------------------------
(* The steps that write operations keep them.                              *)

\* An operation is replaced by one that follows it, while a handler moves.
LEMMA OperationMoves ==
  ASSUME SagaInv, LaunchInv', NEW l \in Launch, NEW old, old = operation[l],
         NEW op \in OperationType, operation' = [operation EXCEPT ![l] = op],
         RowTrue(l, op), Follows(old, op),
         op.refundAttempted => old.refundAttempted \/ MayRefund(l, old),
         op.status \notin Terminal \cup {"none"} => InProgress(l) \/ NoneInProgress,
         NEW p \in Process, NEW h, handler' = [handler EXCEPT ![p] = h],
         h.pc # "idle" => CopyTrue(h)',
         h.pc = "storage_fulfilling" => h = handler[p]
                                        \/ (h.launch = l /\ op.phase = "storage_fulfilling"),
         UNCHANGED <<charged, refunded, workspace, compute, storage, receipts, inFlight>>
  PROVE  SagaInv'
<1>1. /\ handler \in [Process -> HandlerType] /\ operation \in [Launch -> OperationType]
      /\ old \in OperationType /\ WorldFits(l)
  BY InvParts DEF SagaInv, HandlerPart
<1>2. /\ \A q \in Process : handler'[q] = IF q = p THEN h ELSE handler[q]
      /\ \A m \in Launch : operation'[m] = IF m = l THEN op ELSE operation[m]
  BY <1>1
<1>3. Grows
  BY WorldRests
<1>4. ASSUME NEW q \in Process, handler'[q].pc # "idle"
      PROVE  CopyTrue(handler[q])'
  <2>1. CASE q = p
    <3>1. h = handler'[q] /\ CopyTrue(h)'
      BY <1>2, <1>4, <2>1
    <3> QED BY <3>1
  <2>2. CASE q # p
    <3>1. PICK g, base, m : g = handler[q] /\ base = g.base /\ m = g.launch
      OBVIOUS
    <3>2. handler'[q] = g /\ g.pc # "idle" /\ m \in Launch /\ CopyTrue(g)
          /\ base \in OperationType /\ Follows(base, operation[m])
      BY <1>2, <1>4, <2>2, <3>1, AtWorkTrue DEF CopyTrue
    <3>3. Follows(base, operation'[m])
      BY <1>1, <1>2, <3>2, FollowsTwice
    <3>4. CopyTrue(g)'
      BY <1>3, <3>1, <3>2, <3>3, CopyKept
    <3> QED BY <3>2, <3>4
  <2> QED BY <2>1, <2>2
<1>5. \A m \in Launch : m # l => (StorageWanted(m)' => StorageWanted(m))
  BY <1>2 DEF StorageWanted
<1>6. ASSUME NEW m \in Launch, m # l PROVE WorldFits(m)'
  <2>1. WorldFits(m) /\ operation'[m] = operation[m]
    BY <1>2, <1>6 DEF SagaInv
  <2>2. PICK row : row = operation[m]
    OBVIOUS
  <2>3. RowTrue(m, row)'
    BY <1>3, <2>1, <2>2, RowStaysTrue DEF WorldFits
  <2> QED BY <1>5, <1>6, <2>1, <2>2, <2>3 DEF WorldFits
<1>7. WorldFits(l)'
  <2>1. RowTrue(l, op)' /\ operation'[l] = op
    BY <1>2, <1>3, RowStaysTrue
  <2>2. ASSUME op.refundAttempted
        PROVE  storage[l] = "gone" \/ (storage[l] = "none" /\ ~StorageWanted(l)')
    <3>1. op.phase # "storage_fulfilling"
      BY <2>2 DEF RowTrue
    <3>2. StorageWanted(l)' => StorageWanted(l)
      BY <1>2, <3>1 DEF StorageWanted
    <3>3. CASE old.refundAttempted
      BY <1>1, <3>2, <3>3 DEF WorldFits
    <3>4. CASE MayRefund(l, old) /\ storage[l] # "gone"
      <4>1. ~Past(old)
        BY <3>4 DEF MayRefund, Past
      <4>2. storage[l] = "none" /\ <<l, "storage">> \notin inFlight
        BY <1>1, <4>1 DEF WorldFits
      <4>3. ASSUME NEW q \in Process, handler[q].launch = l, handler[q].pc = "storage_fulfilling"
            PROVE  FALSE
        <5>1. PICK g, base : g = handler[q] /\ base = g.base
          OBVIOUS
        <5>2. CopyTrue(g) /\ g.op = base
          BY <4>3, <5>1, AtWorkTrue DEF CopyTrue
        <5>3. base.phase = "storage_fulfilling" /\ Follows(base, old)
          BY <4>3, <5>1, <5>2 DEF CopyTrue, StepTrue, FulfilPhase
        <5>4. Past(base)
          BY <5>3 DEF Past, Early
        <5> QED BY <4>1, <5>3, <5>4 DEF Follows
      <4> QED BY <3>2, <4>2, <4>3 DEF StorageWanted
    <3> QED BY <2>2, <3>3, <3>4
  <2> QED BY <1>1, <2>1, <2>2 DEF WorldFits, Follows, KeepsEvidence
<1>8. (\A a, b \in Launch : InProgress(a) /\ InProgress(b) => a = b)'
  <2>1. \A m \in Launch : m # l => (InProgress(m)' <=> InProgress(m))
    BY <1>2 DEF InProgress
  <2>2. InProgress(l)' => InProgress(l) \/ (\A m \in Launch : ~InProgress(m))
    BY <1>2 DEF InProgress, NoneInProgress
  <2> QED BY <2>1, <2>2 DEF SagaInv
<1> QED BY <1>4, <1>6, <1>7, <1>8 DEF SagaInv

\* A handler that starts, or goes on after its write, with the operation as it is.
LEMMA FreshCopy ==
  ASSUME NEW l \in Launch, NEW op \in OperationType, operation'[l] = op, Grows,
         RowTrue(l, op), op.status # "none",
         NEW g, g.launch = l, g.op = op, g.base = op, g.pc # "persist",
         StepTrue(g.pc, l, op)
  PROVE  CopyTrue(g)'
<1>1. PICK step : step = g.pc
  OBVIOUS
<1>2. RowTrue(l, op)' /\ StepTrue(step, l, op)'
  BY <1>1, RowStaysTrue, StepStaysTrue
<1>3. Follows(op, op)
  BY FollowsSame
<1> QED BY <1>1, <1>2, <1>3 DEF CopyTrue

LEMMA PersistSaga ==
  ASSUME SagaInv, LaunchInv', NEW p \in Process, Persist(p) PROVE SagaInv'
<1>1. PICK h, l, op, base : h = handler[p] /\ l = h.launch /\ op = h.op /\ base = h.base
                            /\ h.pc = "persist"
  BY DEF Persist
<1>2. /\ l \in Launch /\ op \in OperationType /\ base \in OperationType /\ CopyTrue(h)
      /\ h \in HandlerType /\ base.status \notin Terminal
      /\ operation \in [Launch -> OperationType]
  <2>1. h.pc # "idle" /\ HandlerPart
    BY <1>1, InvParts DEF SagaInv
  <2> QED BY <1>1, <2>1, AtWorkTrue, AtWork, InvParts DEF SagaInv
<1>3. /\ RowTrue(l, op) /\ Follows(base, op) /\ base.status # "none"
      /\ h.then # "idle" => StepTrue(h.then, l, op)
      /\ op.refundAttempted => base.refundAttempted \/ MayRefund(l, base)
  BY <1>1, <1>2 DEF CopyTrue
<1>4. UNCHANGED <<charged, refunded, workspace, compute, storage, receipts, inFlight>>
  BY DEF Persist, tableVars, walletVars, fabricVars
<1>5. CASE ~Current(h)
  <2>1. operation' = operation /\ Return(p)
    BY <1>1, <1>5 DEF Persist
  <2> QED BY <1>4, <2>1, WorldRests, ReturnSaga
<1>6. CASE Current(h)
  <2>1. operation[l] = base /\ operation' = [operation EXCEPT ![l] = op]
    BY <1>1, <1>6 DEF Persist, Current
  <2>2. InProgress(l) /\ op.status # "none"
    BY <1>2, <1>3, <2>1 DEF InProgress, Follows
  <2>3. CASE h.then = "idle"
    <3>1. PICK g : g = Idle
      OBVIOUS
    <3>2. handler' = [handler EXCEPT ![p] = g] /\ g.pc = "idle"
      BY <1>1, <1>6, <2>3, <3>1, IdleFits DEF Persist, Return
    <3> QED BY <1>2, <1>3, <1>4, <2>1, <2>2, <3>1, <3>2, OperationMoves
  <2>4. CASE h.then # "idle"
    <3>1. PICK g : g = [h EXCEPT !.pc = h.then, !.base = h.op]
      OBVIOUS
    <3>2. handler' = [handler EXCEPT ![p] = g]
      BY <1>1, <1>6, <2>4, <3>1 DEF Persist
    <3>3. g.pc = h.then /\ g.launch = l /\ g.op = op /\ g.base = op
      BY <1>1, <1>2, <3>1 DEF HandlerType
    <3>4. h.then # "persist"
      <4>1. HandlerFits(h) /\ h # Idle
        BY <1>1, InvParts, IdleFits DEF SagaInv, HandlerPart
      <4> QED BY <1>1, <2>4, <4>1 DEF HandlerFits
    <3>5. operation'[l] = op
      BY <1>2, <2>1
    <3>6. CopyTrue(g)'
      BY <1>2, <1>3, <1>4, <2>2, <2>4, <3>3, <3>4, <3>5, WorldRests, FreshCopy
    <3>7. g.pc = "storage_fulfilling" => g.launch = l /\ op.phase = "storage_fulfilling"
      BY <1>3, <2>4, <3>3 DEF StepTrue, FulfilPhase
    <3> QED BY <1>2, <1>3, <1>4, <2>1, <2>2, <3>2, <3>6, <3>7, OperationMoves
  <2> QED BY <2>3, <2>4
<1> QED BY <1>5, <1>6

LEMMA AbortSaga ==
  ASSUME SagaInv, LaunchInv', NEW p \in Process, Abort(p) PROVE SagaInv'
<1>1. operation' = operation /\ Return(p)
      /\ UNCHANGED <<charged, refunded, workspace, compute, storage, receipts, inFlight>>
  BY DEF Abort, tableVars, walletVars, fabricVars
<1> QED BY <1>1, WorldRests, ReturnSaga

\* What is known of an operation.
LEMMA RowKnown ==
  ASSUME SagaInv, NEW l \in Launch
  PROVE  /\ operation \in [Launch -> OperationType] /\ operation[l] \in OperationType
         /\ handler \in [Process -> HandlerType]
         /\ OperationFits(operation[l]) /\ WorldFits(l) /\ RowTrue(l, operation[l])
BY InvParts DEF SagaInv, HandlerPart, WorldFits

LEMMA SubmitSaga ==
  ASSUME SagaInv, LaunchInv', NEW p \in Process, NEW l \in Launch,
         Submit(p, l) \/ ConvergeKey(p, l)
  PROVE  SagaInv'
<1>1. PICK old, h : old = operation[l] /\ h = handler[p]
  OBVIOUS
<1>2. /\ old \in OperationType /\ OperationFits(old) /\ RowTrue(l, old)
      /\ operation \in [Launch -> OperationType] /\ handler \in [Process -> HandlerType]
  BY <1>1, RowKnown
<1>3. UNCHANGED <<charged, refunded, workspace, compute, storage, receipts, inFlight>>
      /\ h.pc = "idle" /\ handler' = handler
  BY <1>1 DEF Submit, ConvergeKey, tableVars, walletVars, fabricVars
<1>4. handler' = [handler EXCEPT ![p] = h]
  BY <1>1, <1>2, <1>3
<1>5. PICK phase \in {"key_pending", "debit_pending"} :
        operation' = [operation EXCEPT ![l].status = "debit_pending", ![l].phase = phase]
  BY DEF Submit, ConvergeKey
<1>6. PICK op : op = [old EXCEPT !.status = "debit_pending", !.phase = phase]
  OBVIOUS
<1>7. operation' = [operation EXCEPT ![l] = op]
  BY <1>1, <1>2, <1>5, <1>6
<1>8. op \in OperationType
  BY <1>2, <1>6 DEF OperationType, Status, Phase
<1>9. /\ op.status = "debit_pending" /\ op.phase = phase
      /\ op.attempted = old.attempted /\ op.pre = old.pre /\ op.post = old.post
      /\ op.confirmed = old.confirmed /\ op.refundAttempted = old.refundAttempted
      /\ op.refundConfirmed = old.refundConfirmed
  BY <1>2, <1>6 DEF OperationType
<1>10. old.phase \in {"none", "key_pending"} /\ (InProgress(l) \/ NoneInProgress)
  <2>1. CASE Submit(p, l)
    BY <1>1, <2>1 DEF Submit, Blank
  <2>2. CASE ConvergeKey(p, l)
    <3>1. old.status = "debit_pending"
      BY <1>1, <1>2, <2>2 DEF ConvergeKey, OperationFits
    <3> QED BY <1>1, <2>2, <3>1 DEF ConvergeKey, InProgress, Terminal
  <2> QED BY <2>1, <2>2
<1>11. Follows(old, op) /\ RowTrue(l, op)
  BY <1>2, <1>9, <1>10 DEF Follows, RowTrue, KeepsEvidence, Past, Stored, Served, Early, Terminal
<1> QED BY <1>1, <1>3, <1>4, <1>7, <1>8, <1>9, <1>10, <1>11, OperationMoves

\* Where a claimed operation resumes.
LEMMA ResumeTrue ==
  ASSUME NEW l \in Launch, NEW op \in OperationType, OperationFits(op), RowTrue(l, op),
         op.status \notin Terminal \cup {"none"}, op.phase # "key_pending"
  PROVE  StepTrue(ResumeAt(op), l, op) /\ ResumeAt(op) \notin {"idle", "persist"}
<1>1. op.phase \in FulfilPhase \cup {"debit_pending", "refund_pending"}
  BY DEF OperationFits, OperationType, Phase
<1>2. CASE op.phase = "debit_pending"
  BY <1>2 DEF ResumeAt, StepTrue, FulfilPhase
<1>3. CASE op.phase = "refund_pending"
  BY <1>3 DEF ResumeAt, StepTrue, FulfilPhase, RowTrue
<1>4. CASE op.phase \in FulfilPhase
  BY <1>4 DEF ResumeAt, StepTrue, FulfilPhase
<1> QED BY <1>1, <1>2, <1>3, <1>4

LEMMA ClaimSaga ==
  ASSUME SagaInv, LaunchInv', NEW p \in Process, NEW l \in Launch, Claim(p, l) PROVE SagaInv'
<1>1. PICK old, op, g : /\ old = operation[l] /\ op = [old EXCEPT !.lease = p]
                        /\ g = [Idle EXCEPT !.pc = ResumeAt(op), !.launch = l, !.op = op,
                                            !.base = op]
  OBVIOUS
<1>2. /\ old \in OperationType /\ OperationFits(old) /\ RowTrue(l, old)
      /\ operation \in [Launch -> OperationType]
  BY <1>1, RowKnown
<1>3. /\ operation' = [operation EXCEPT ![l] = op] /\ handler' = [handler EXCEPT ![p] = g]
      /\ Runnable(old)
      /\ UNCHANGED <<charged, refunded, workspace, compute, storage, receipts, inFlight>>
  BY <1>1 DEF Claim, tableVars, walletVars, fabricVars
<1>4. op \in OperationType
  BY <1>1, <1>2 DEF OperationType
<1>5. /\ op.status = old.status /\ op.phase = old.phase
      /\ op.attempted = old.attempted /\ op.pre = old.pre /\ op.post = old.post
      /\ op.confirmed = old.confirmed /\ op.refundAttempted = old.refundAttempted
      /\ op.refundConfirmed = old.refundConfirmed
  BY <1>1, <1>2 DEF OperationType
<1>6. op.status \notin Terminal \cup {"none"} /\ op.phase # "key_pending" /\ InProgress(l)
  BY <1>1, <1>3, <1>5 DEF Runnable, InProgress
<1>7. KeepsEvidence(old, op) /\ OperationFits(op)
  BY <1>2, <1>5 DEF KeepsEvidence, OperationFits, Early, ChargeConfirmed
<1>8. Follows(old, op) /\ RowTrue(l, op)
  BY <1>2, <1>4, <1>5, <1>6, <1>7, Remarked
<1>9. StepTrue(ResumeAt(op), l, op) /\ ResumeAt(op) \notin {"idle", "persist"}
  BY <1>4, <1>6, <1>7, <1>8, ResumeTrue
<1>10. g.pc = ResumeAt(op) /\ g.launch = l /\ g.op = op /\ g.base = op
  BY <1>1 DEF Idle
<1>11. operation'[l] = op
  BY <1>2, <1>3
<1>12. CopyTrue(g)'
  BY <1>3, <1>4, <1>6, <1>8, <1>9, <1>10, <1>11, WorldRests, FreshCopy
<1>13. g.pc = "storage_fulfilling" => g.launch = l /\ op.phase = "storage_fulfilling"
  BY <1>9, <1>10 DEF StepTrue, FulfilPhase
<1>14. (op.refundAttempted => old.refundAttempted) /\ old = operation[l]
  BY <1>1, <1>5
<1> QED BY <1>3, <1>4, <1>6, <1>8, <1>12, <1>13, <1>14, OperationMoves

LEMMA RecoverSaga ==
  ASSUME SagaInv, LaunchInv', NEW p \in Process, NEW l \in Launch, Recover(p, l) PROVE SagaInv'
<1>1. PICK op, step, g :
        /\ op = operation[l] /\ step = RecoverAt(op)
        /\ g = [Idle EXCEPT !.pc = step, !.launch = l, !.op = op, !.base = op]
  OBVIOUS
<1>2. /\ op \in OperationType /\ OperationFits(op) /\ RowTrue(l, op)
  BY <1>1, RowKnown
<1>3. /\ operation' = operation /\ handler' = [handler EXCEPT ![p] = g]
      /\ op.status = "manual_review"
      /\ UNCHANGED <<charged, refunded, workspace, compute, storage, receipts, inFlight>>
  BY <1>1 DEF Recover, tableVars, walletVars, fabricVars
<1>4. op.phase # "succeeded"
  BY <1>2, <1>3 DEF OperationFits, Terminal
<1>5. step \in {"receipt_pending", "refund_receipt", "recover_truth"} /\ StepTrue(step, l, op)
  BY <1>1, <1>4 DEF RecoverAt, StepTrue, FulfilPhase, Served
<1>6. g.pc = step /\ g.launch = l /\ g.op = op /\ g.base = op
  BY <1>1 DEF Idle
<1>7. CopyTrue(g)'
  <2>1. operation'[l] = op /\ op.status # "none" /\ Grows
    BY <1>1, <1>3, WorldRests
  <2>2. g.pc # "persist" /\ StepTrue(g.pc, l, op)
    BY <1>5, <1>6
  <2> QED BY <1>2, <1>6, <2>1, <2>2, FreshCopy
<1> QED BY <1>3, <1>5, <1>6, <1>7, WorldRests, HandlerMoves
-----------------------------------------------------------------------------
(* The outside world keeps them.                                           *)

\* A request that takes effect late finds what was true when it was sent.
LEMMA DeliverSaga ==
  ASSUME SagaInv, LaunchInv', NEW l \in Launch, Deliver(l) PROVE SagaInv'
<1>1. /\ operation' = operation /\ handler' = handler
      /\ UNCHANGED <<workspace, receipts>>
  BY DEF Deliver, tableVars
<1>2. inFlight' \subseteq inFlight
  BY DEF Deliver
<1>3. compute \in [Launch -> ProviderState] /\ storage \in [Launch -> ProviderState]
  BY RestTypedNow DEF SagaInv, RestTyped
<1>4. WorldFits(l)
  BY DEF SagaInv
<1>5. CASE UseChargeCode(l) /\ <<l, "charge">> \in inFlight /\ UNCHANGED fabricVars
  <2>1. /\ charged \subseteq charged' /\ charged' \subseteq charged \cup {l}
        /\ refunded' = refunded /\ compute' = compute /\ storage' = storage
    BY <1>5, ChargeUsed DEF fabricVars
  <2>2. Grows
    BY <1>1, <2>1 DEF Grows
  <2>3. \A m \in Launch : Accounts(m)
    BY <1>1, <1>2, <1>5, <2>1 DEF Accounts, StorageWanted
  <2> QED BY <1>1, <2>2, <2>3, WorldMoves
<1>6. CASE UseRefundCode(l) /\ <<l, "refund">> \in inFlight /\ UNCHANGED fabricVars
  <2>1. /\ refunded \subseteq refunded' /\ refunded' \subseteq refunded \cup {l}
        /\ charged' = charged /\ compute' = compute /\ storage' = storage
    BY <1>6, RefundUsed DEF fabricVars
  <2>2. Grows
    BY <1>1, <2>1 DEF Grows
  <2>3. \A m \in Launch : Accounts(m)
    BY <1>1, <1>2, <1>6, <2>1 DEF Accounts, StorageWanted
  <2> QED BY <1>1, <2>2, <2>3, WorldMoves
<1>7. CASE CreateCompute(l) /\ UNCHANGED walletVars
  <2>1. /\ charged' = charged /\ refunded' = refunded /\ storage' = storage
        /\ \A m \in Launch : compute[m] # "none" => compute'[m] = compute[m]
    BY <1>3, <1>7 DEF CreateCompute, walletVars
  <2>2. Grows
    BY <1>1, <1>3, <2>1 DEF Grows
  <2>3. \A m \in Launch : Accounts(m)
    BY <1>1, <1>2, <2>1 DEF Accounts, StorageWanted
  <2> QED BY <1>1, <2>2, <2>3, WorldMoves
<1>8. CASE CreateStorage(l) /\ UNCHANGED walletVars /\ <<l, "storage">> \in inFlight
  <2>1. /\ charged' = charged /\ refunded' = refunded /\ compute' = compute
        /\ \A m \in Launch : m # l => storage'[m] = storage[m]
        /\ \A m \in Launch : storage[m] \in {"ready", "gone"} => storage'[m] = storage[m]
    BY <1>3, <1>8 DEF CreateStorage, walletVars
  <2>2. Grows
    BY <1>1, <1>3, <2>1 DEF Grows
  <2>3. operation[l].refundAttempted => storage[l] = "gone"
    BY <1>4, <1>8 DEF WorldFits, StorageWanted
  <2>4. \A m \in Launch : Accounts(m)
    BY <1>1, <1>2, <1>8, <2>1, <2>3 DEF Accounts, StorageWanted
  <2> QED BY <1>1, <2>2, <2>4, WorldMoves
<1> QED BY <1>5, <1>6, <1>7, <1>8 DEF Deliver

\* The provider finishes, verifies or deletes what it holds.
LEMMA ProviderSaga ==
  ASSUME SagaInv, LaunchInv', NEW l \in Launch,
         ProvisionCompute(l) \/ ProvisionStorage(l) \/ ProviderMoves(l)
  PROVE  SagaInv'
<1>1. /\ operation' = operation /\ handler' = handler
      /\ UNCHANGED <<charged, refunded, workspace, receipts, inFlight>>
  BY DEF ProvisionCompute, ProvisionStorage, ProviderMoves, tableVars, walletVars
<1>2. compute \in [Launch -> ProviderState] /\ storage \in [Launch -> ProviderState]
  BY RestTypedNow DEF SagaInv, RestTyped
<1>3. \A m \in Launch :
        /\ compute[m] = "gone" => compute'[m] = "gone"
        /\ compute[m] = "ready" => compute'[m] \in {"ready", "gone"}
  BY <1>2 DEF ProvisionCompute, ProvisionStorage, ProviderMoves
<1>4. \A m \in Launch :
        /\ storage[m] \in {"none", "gone"} => storage'[m] = storage[m]
        /\ storage[m] = "ready" => storage'[m] \in {"ready", "gone"}
  BY <1>2 DEF ProvisionCompute, ProvisionStorage, ProviderMoves
<1>5. Grows
  BY <1>1, <1>3, <1>4 DEF Grows
<1>6. ASSUME NEW m \in Launch PROVE Accounts(m)
  <2>1. WorldFits(m)
    BY DEF SagaInv
  <2>2. operation[m].refundAttempted => storage'[m] = storage[m]
    BY <1>4, <2>1 DEF WorldFits
  <2> QED BY <1>1, <1>4, <2>2 DEF Accounts, StorageWanted
<1> QED BY <1>1, <1>5, <1>6, WorldMoves

LEMMA RestSaga ==
  ASSUME SagaInv, LaunchInv',
         BalanceMoves \/ (\E l \in Launch : LeaseExpires(l)) \/ UNCHANGED vars
  PROVE  SagaInv'
<1>1. /\ operation' = operation /\ handler' = handler
      /\ UNCHANGED <<charged, refunded, workspace, compute, storage, receipts, inFlight>>
  BY DEF BalanceMoves, LeaseExpires, vars, tableVars, walletVars, fabricVars
<1> QED BY <1>1, WorldRests, WorldMoves
-----------------------------------------------------------------------------
LEMMA InitSaga == Init => SagaInv
<1> SUFFICES ASSUME Init PROVE SagaInv
  OBVIOUS
<1>1. LaunchInv
  BY InitKeeps
<1>2. /\ ~Blank.confirmed /\ ~Blank.refundConfirmed /\ ~Blank.refundAttempted
      /\ Blank.phase = "none" /\ Blank.status = "none" /\ Idle.pc = "idle"
  BY DEF Blank, Idle
<1>3. /\ \A l \in Launch : /\ operation[l] = Blank /\ receipts[l] = {} /\ storage[l] = "none"
      /\ charged = {} /\ refunded = {} /\ inFlight = {}
      /\ \A p \in Process : handler[p] = Idle
  BY DEF Init
<1> HIDE DEF Init
<1>4. ASSUME NEW l \in Launch PROVE WorldFits(l)
  <2>1. RowTrue(l, Blank)
    BY <1>2 DEF RowTrue, Past, Stored, Served, Early
  <2> QED BY <1>2, <1>3, <2>1 DEF WorldFits
<1>5. \A l \in Launch : ~InProgress(l)
  BY <1>2, <1>3 DEF InProgress
<1> QED BY <1>1, <1>2, <1>3, <1>4, <1>5 DEF SagaInv

LEMMA HandlerStepSaga ==
  ASSUME SagaInv, LaunchInv', NEW p \in Process, HandlerStep(p) PROVE SagaInv'
BY DebitGuardSaga, ChargeHistorySaga, ReadBalanceSaga, ChargeSaga, ConfirmChargeSaga,
   BeginFulfilmentSaga, PrepareComputeSaga, ReadbackComputeSaga, StorageAbsenceSaga,
   PrepareStorageSaga, ReadbackStorageSaga, AttachSaga, WriteSecretSaga, StartRuntimeSaga,
   VerifyProviderSaga, ActivateSaga, RecordPurchaseSaga, BeginRefundSaga, RefundHistorySaga,
   RefundCallSaga, RecordRefundSaga, RecoverTruthSaga, PersistSaga DEF HandlerStep

\* SagaInv is inductive: no answer lost, request delivered late, crash, second
\* process or recovery makes an operation say what is not so.
THEOREM SagaInvInductive == SagaInv /\ [Next]_vars => SagaInv'
<1> SUFFICES ASSUME SagaInv, [Next]_vars PROVE SagaInv'
  OBVIOUS
<1>1. LaunchInv'
  BY LaunchInvInductive DEF SagaInv
<1>2. CASE \E p \in Process : HandlerStep(p) \/ Abort(p)
  BY <1>1, <1>2, HandlerStepSaga, AbortSaga
<1>3. CASE \E p \in Process, l \in Launch :
             Submit(p, l) \/ ConvergeKey(p, l) \/ Claim(p, l) \/ Recover(p, l)
  BY <1>1, <1>3, SubmitSaga, ClaimSaga, RecoverSaga
<1>4. CASE \E l \in Launch : Deliver(l) \/ ProvisionCompute(l) \/ ProvisionStorage(l)
                               \/ ProviderMoves(l)
  BY <1>1, <1>4, DeliverSaga, ProviderSaga
<1>5. CASE BalanceMoves \/ (\E l \in Launch : LeaseExpires(l)) \/ UNCHANGED vars
  BY <1>1, <1>5, RestSaga
<1> QED BY <1>2, <1>3, <1>4, <1>5 DEF Next

\* What the operations say of the wallet, the provider, the Workspace rows and the
\* Ledger is true in every state of the saga.
THEOREM SagaInvariant == Spec => []SagaInv
BY InitSaga, SagaInvInductive, PTL DEF Spec

\* An operation that confirms its charge was charged at Sub2API, and one that
\* confirms its refund was refunded.
THEOREM ProofTrue == Spec => []ProofIsTrue
<1>1. SagaInv => ProofIsTrue
  BY DEF SagaInv, WorldFits, RowTrue, ProofIsTrue
<1> QED BY <1>1, SagaInvariant, PTL

\* Money goes back only for a charge that was made, and once it is gone back, or
\* on its way, neither resource exists or appears, whatever request is late.
THEOREM RefundsLeaveNothing == Spec => []RefundOnlyWithoutResources
<1>1. ASSUME SagaInv PROVE RefundOnlyWithoutResources
  <2>1. ASSUME NEW l \in refunded
        PROVE  l \in charged /\ {compute[l], storage[l]} \subseteq {"none", "gone"}
    <3>1. l \in Launch
      BY <1>1, RestTypedNow DEF SagaInv, RestTyped
    <3>2. PICK op : op = operation[l]
      OBVIOUS
    <3>3. WorldFits(l) /\ RowTrue(l, op) /\ OperationFits(op)
      BY <1>1, <3>1, <3>2, RowKnown
    <3>4. op.refundAttempted
      BY <3>2, <3>3 DEF WorldFits
    <3>5. op.confirmed
      BY <3>3, <3>4 DEF RowTrue, OperationFits, Early, ChargeConfirmed
    <3> QED BY <3>2, <3>3, <3>4, <3>5 DEF WorldFits, RowTrue
  <2> QED BY <2>1 DEF RefundOnlyWithoutResources
<1> QED BY <1>1, SagaInvariant, PTL

\* A receipt states what the wallet did, and no launch has both.
THEOREM ReceiptsTrue == Spec => []ReceiptsMatchWallet
<1>1. ASSUME SagaInv PROVE ReceiptsMatchWallet
  <2>1. ASSUME NEW l \in Launch
        PROVE  /\ "purchase" \in receipts[l] => l \in (charged \cap workspace) \ refunded
               /\ "refund" \in receipts[l] => l \in charged \cap refunded
    <3>1. PICK op : op = operation[l]
      OBVIOUS
    <3>2. WorldFits(l) /\ RowTrue(l, op) /\ OperationFits(op)
      BY <1>1, <3>1, RowKnown
    <3>3. ASSUME "purchase" \in receipts[l]
          PROVE  l \in (charged \cap workspace) \ refunded
      <4>1. Served(op)
        BY <3>1, <3>2, <3>3 DEF WorldFits
      <4>2. ~op.refundAttempted /\ op.confirmed
        BY <3>2, <4>1 DEF Served, RowTrue, OperationFits, Early, ChargeConfirmed
      <4> QED BY <3>1, <3>2, <4>1, <4>2 DEF WorldFits, RowTrue
    <3>4. ASSUME "refund" \in receipts[l]
          PROVE  l \in charged \cap refunded
      <4>1. l \in refunded /\ op.refundAttempted
        BY <3>1, <3>2, <3>4 DEF WorldFits
      <4>2. op.confirmed
        BY <3>2, <4>1 DEF RowTrue, OperationFits, Early, ChargeConfirmed
      <4> QED BY <3>2, <4>1, <4>2 DEF RowTrue
    <3> QED BY <3>3, <3>4
  <2> QED BY <2>1 DEF ReceiptsMatchWallet
<1> QED BY <1>1, SagaInvariant, PTL

\* The launches of an account that are paid for and not settled are at most one.
THEOREM UnsettledOnce == Spec => []OneUnsettledPurchase
<1>1. ASSUME SagaInv PROVE OneUnsettledPurchase
  <2>1. PICK S : S = {l \in charged \ refunded : operation[l].status # "succeeded"}
    OBVIOUS
  <2>2. ASSUME NEW l \in S PROVE l \in Launch /\ InProgress(l)
    <3>1. l \in Launch /\ l \in charged /\ l \notin refunded
      BY <1>1, <2>1, RestTypedNow DEF SagaInv, RestTyped
    <3>2. PICK op : op = operation[l] /\ op.status # "succeeded"
      BY <2>1
    <3>3. WorldFits(l) /\ RowTrue(l, op) /\ op.status # "none"
      BY <1>1, <3>1, <3>2, RowKnown DEF WorldFits
    <3>4. op.status # "refunded"
      BY <3>1, <3>3 DEF RowTrue, Terminal
    <3> QED BY <3>1, <3>2, <3>3, <3>4 DEF InProgress, Terminal
  <2>3. \A a, b \in S : a = b
    BY <1>1, <2>2 DEF SagaInv
  <2>4. CASE S = {}
    <3>1. Cardinality(S) = 0
      BY <2>4, FS_EmptySet
    <3> QED BY <2>1, <3>1 DEF OneUnsettledPurchase
  <2>5. ASSUME NEW a \in S PROVE OneUnsettledPurchase
    <3>1. S = {a}
      BY <2>3
    <3>2. Cardinality(S) = 1
      BY <3>1, FS_Singleton
    <3> QED BY <2>1, <3>2 DEF OneUnsettledPurchase
  <2> QED BY <2>4, <2>5
<1> QED BY <1>1, SagaInvariant, PTL

\* A settled operation says what the Ledger says.
THEOREM SettledBothWays == Spec => []TerminalIsSettled
<1>1. ASSUME SagaInv PROVE TerminalIsSettled
  <2>1. ASSUME NEW l \in Launch
        PROVE  /\ operation[l].status = "succeeded" => receipts[l] = {"purchase"}
               /\ operation[l].status = "refunded" => receipts[l] = {"refund"}
    <3>1. PICK op : op = operation[l]
      OBVIOUS
    <3>2. WorldFits(l) /\ RowTrue(l, op)
      BY <1>1, <3>1, RowKnown
    <3>3. receipts[l] \in SUBSET {"purchase", "refund"}
      BY <1>1, RestTypedNow DEF SagaInv, RestTyped
    <3>4. ASSUME op.status = "succeeded" PROVE receipts[l] = {"purchase"}
      <4>1. "purchase" \in receipts[l] /\ ~op.refundAttempted
        BY <3>2, <3>4 DEF RowTrue, Terminal
      <4>2. "refund" \notin receipts[l]
        BY <3>1, <3>2, <4>1 DEF WorldFits
      <4> QED BY <3>3, <4>1, <4>2
    <3>5. ASSUME op.status = "refunded" PROVE receipts[l] = {"refund"}
      <4>1. "refund" \in receipts[l] /\ op.phase = "refunded"
        BY <3>2, <3>5 DEF RowTrue, Terminal
      <4>2. "purchase" \notin receipts[l]
        BY <3>1, <3>2, <4>1 DEF WorldFits, Served
      <4> QED BY <3>3, <4>1, <4>2
    <3> QED BY <3>1, <3>4, <3>5
  <2> QED BY <2>1 DEF TerminalIsSettled
<1> QED BY <1>1, SagaInvariant, PTL
-----------------------------------------------------------------------------
(* Every step of the saga is a step of the purchase contract, or none.     *)

Funds ==
  [l \in Launch |-> IF l \in refunded THEN "returned"
                    ELSE IF l \in charged THEN "held" ELSE "none"]
Live ==
  {l \in Launch : {compute[l], storage[l]} \cap {"pending", "ready", "quarantined"} # {}}
Outcome ==
  [l \in Launch |-> IF operation[l].status \in Terminal THEN operation[l].status ELSE "open"]

Unsettled(l) == Funds[l] = "held" /\ Outcome[l] = "open"

ContractStep(l) ==
  \/ /\ Funds[l] = "none" /\ Outcome[l] = "open" /\ \A other \in Launch : ~Unsettled(other)
     /\ Funds' = [Funds EXCEPT ![l] = "held"] /\ Live' = Live /\ Outcome' = Outcome
  \/ /\ Unsettled(l) /\ Live' = Live \cup {l} /\ Funds' = Funds /\ Outcome' = Outcome
  \/ /\ Live' = Live \ {l} /\ Funds' = Funds /\ Outcome' = Outcome
  \/ /\ Unsettled(l) /\ l \notin Live
     /\ Funds' = [Funds EXCEPT ![l] = "returned"] /\ Live' = Live /\ Outcome' = Outcome
  \/ /\ Outcome[l] = "open" /\ Funds[l] = "held"
     /\ Outcome' = [Outcome EXCEPT ![l] = "succeeded"] /\ Funds' = Funds /\ Live' = Live
  \/ /\ Outcome[l] = "open" /\ Funds[l] = "returned"
     /\ Outcome' = [Outcome EXCEPT ![l] = "refunded"] /\ Funds' = Funds /\ Live' = Live

ContractRests == Funds' = Funds /\ Live' = Live /\ Outcome' = Outcome

LEMMA ContractMoves ==
  ASSUME ContractRests \/ \E l \in Launch : ContractStep(l)
  PROVE  [Contract!Next]_Contract!contractVars
<1>1. CASE ContractRests
  BY <1>1 DEF ContractRests, Contract!contractVars, Funds, Live, Outcome
<1>2. ASSUME NEW l \in Launch, ContractStep(l) PROVE Contract!Next
  <2>1. Contract!Debit(l) \/ Contract!Provision(l) \/ Contract!Lose(l) \/ Contract!Return(l)
          \/ Contract!Close(l)
    BY <1>2 DEF ContractStep, Unsettled, Contract!Debit, Contract!Provision, Contract!Lose,
         Contract!Return, Contract!Close, Contract!Open, Funds, Live, Outcome
  <2> QED BY <2>1 DEF Contract!Next
<1> QED BY <1>1, <1>2

\* What a step does to the wallet, the provider and the operations.
Touches(l) ==
  \/ /\ UNCHANGED <<charged, refunded, compute, storage>>
     /\ \A m \in Launch : m # l => operation'[m] = operation[m]
  \/ /\ UNCHANGED <<operation, refunded, compute, storage>>
     /\ charged' = charged \cup {l} /\ operation[l].status # "none"
  \/ /\ UNCHANGED <<operation, charged, compute, storage>>
     /\ refunded' = refunded \cup {l} /\ operation[l].refundAttempted
  \/ /\ UNCHANGED <<operation, charged, refunded>>
     /\ CreateCompute(l) \/ CreateStorage(l) \/ ProvisionCompute(l) \/ ProvisionStorage(l)
          \/ ProviderMoves(l)

LEMMA WalletTouched ==
  ASSUME NEW l \in Launch, UNCHANGED <<operation, compute, storage>>,
         \/ (UseChargeCode(l) \/ UNCHANGED walletVars) /\ operation[l].status # "none"
         \/ (UseRefundCode(l) \/ UNCHANGED walletVars) /\ operation[l].refundAttempted
  PROVE  Touches(l)
<1>1. CASE UNCHANGED walletVars
  BY <1>1 DEF Touches, walletVars
<1>2. CASE UseChargeCode(l) /\ operation[l].status # "none"
  BY <1>2 DEF Touches, UseChargeCode, walletVars
<1>3. CASE UseRefundCode(l) /\ operation[l].refundAttempted
  BY <1>3 DEF Touches, UseRefundCode, walletVars
<1> QED BY <1>1, <1>2, <1>3

LEMMA HandlerTouches ==
  ASSUME SagaInv, NEW p \in Process, HandlerStep(p)
  PROVE  \/ UNCHANGED <<operation, charged, refunded, compute, storage>>
         \/ \E l \in Launch : Touches(l)
<1>1. PICK h, l : h = handler[p] /\ l = h.launch
  OBVIOUS
<1>2. ASSUME DebitGuard(p) \/ ChargeHistory(p) \/ ReadBalance(p) \/ ConfirmCharge(p)
             \/ BeginFulfilment(p) \/ ReadbackCompute(p) \/ StorageAbsence(p)
             \/ ReadbackStorage(p) \/ VerifyProvider(p) \/ Activate(p) \/ RecordPurchase(p)
             \/ BeginRefund(p) \/ RefundHistory(p) \/ RecordRefund(p) \/ RecoverTruth(p)
      PROVE  UNCHANGED <<operation, charged, refunded, compute, storage>>
  BY <1>2 DEF DebitGuard, ChargeHistory, ReadBalance, ConfirmCharge, BeginFulfilment,
       ReadbackCompute, StorageAbsence, ReadbackStorage, VerifyProvider, Activate,
       RecordPurchase, BeginRefund, RefundHistory, RecordRefund, RecoverTruth, walletVars,
       fabricVars
<1>3. ASSUME Attach(p) \/ WriteSecret(p) \/ StartRuntime(p)
      PROVE  UNCHANGED <<operation, charged, refunded, compute, storage>>
  BY <1>3 DEF Attach, WriteSecret, StartRuntime, FabricWrite, walletVars, fabricVars
<1>4. CASE Charge(p)
  <2>1. h.pc \in DebitStep
    BY <1>1, <1>4 DEF Charge, DebitStep
  <2>2. l \in Launch /\ operation[l].status # "none"
    BY <1>1, <2>1, DebitTrue
  <2>3. UseChargeCode(l) \/ UNCHANGED walletVars
    BY <1>1, <1>4 DEF Charge, LostRequest
  <2>4. UNCHANGED <<operation, compute, storage>>
    BY <1>4 DEF Charge, fabricVars
  <2> QED BY <2>2, <2>3, <2>4, WalletTouched
<1>5. CASE RefundCall(p)
  <2>1. h.pc = "refund_call" /\ h.pc \in FulfilStep
    BY <1>1, <1>5, FulfilSteps DEF RefundCall
  <2>2. l \in Launch /\ operation[l].refundAttempted
    BY <1>1, <2>1, FulfilTrue DEF StepTrue, Follows, KeepsEvidence
  <2>3. UseRefundCode(l) \/ UNCHANGED walletVars
    BY <1>1, <1>5 DEF RefundCall, LostRequest
  <2>4. UNCHANGED <<operation, compute, storage>>
    BY <1>5 DEF RefundCall, fabricVars
  <2> QED BY <2>2, <2>3, <2>4, WalletTouched
<1>6. CASE PrepareCompute(p) \/ PrepareStorage(p)
  <2>1. h.pc # "idle"
    BY <1>1, <1>6 DEF PrepareCompute, PrepareStorage
  <2>2. l \in Launch
    BY <1>1, <2>1, AtWorkTrue
  <2>3. UNCHANGED <<operation, charged, refunded>>
    BY <1>6 DEF PrepareCompute, PrepareStorage, Prepare, walletVars
  <2>4. CreateCompute(l) \/ CreateStorage(l) \/ UNCHANGED fabricVars
    BY <1>1, <1>6 DEF PrepareCompute, PrepareStorage, Prepare, LostRequest
  <2> QED BY <2>2, <2>3, <2>4 DEF Touches, fabricVars
<1>7. CASE Persist(p)
  <2>1. h.pc # "idle"
    BY <1>1, <1>7 DEF Persist
  <2>2. l \in Launch /\ operation \in [Launch -> OperationType]
    BY <1>1, <2>1, AtWorkTrue, RowKnown
  <2>3. UNCHANGED <<charged, refunded, compute, storage>>
    BY <1>7 DEF Persist, walletVars, fabricVars
  <2>4. operation' = operation \/ \E op : operation' = [operation EXCEPT ![l] = op]
    BY <1>1, <1>7 DEF Persist
  <2>5. \A m \in Launch : m # l => operation'[m] = operation[m]
    BY <2>2, <2>4
  <2> QED BY <2>2, <2>3, <2>5 DEF Touches
<1> QED BY <1>2, <1>3, <1>4, <1>5, <1>6, <1>7 DEF HandlerStep

LEMMA StepTouches ==
  ASSUME SagaInv, [Next]_vars
  PROVE  \/ UNCHANGED <<operation, charged, refunded, compute, storage>>
         \/ \E l \in Launch : Touches(l)
<1>1. CASE \E p \in Process : HandlerStep(p)
  BY <1>1, HandlerTouches
<1>2. CASE (\E p \in Process : Abort(p)) \/ BalanceMoves \/ UNCHANGED vars
           \/ (\E l \in Launch : LeaseExpires(l))
           \/ (\E p \in Process, l \in Launch : Recover(p, l))
  BY <1>2 DEF Abort, BalanceMoves, LeaseExpires, Recover, vars, walletVars, fabricVars
<1>3. ASSUME NEW p \in Process, NEW l \in Launch, Submit(p, l) \/ ConvergeKey(p, l) \/ Claim(p, l)
      PROVE  Touches(l)
  <2>1. operation \in [Launch -> OperationType]
    BY RowKnown
  <2>2. \A m \in Launch : m # l => operation'[m] = operation[m]
    BY <1>3, <2>1 DEF Submit, ConvergeKey, Claim
  <2>3. UNCHANGED <<charged, refunded, compute, storage>>
    BY <1>3 DEF Submit, ConvergeKey, Claim, walletVars, fabricVars
  <2> QED BY <2>2, <2>3 DEF Touches
<1>4. ASSUME NEW l \in Launch, Deliver(l) PROVE Touches(l)
  <2>1. WorldFits(l) /\ operation' = operation
    BY <1>4, RowKnown DEF Deliver
  <2>2. CASE <<l, "charge">> \in inFlight /\ UseChargeCode(l) /\ UNCHANGED fabricVars
    <3>1. operation[l].status # "none"
      BY <2>1, <2>2 DEF WorldFits
    <3> QED BY <2>1, <2>2, <3>1, WalletTouched DEF fabricVars
  <2>3. CASE <<l, "refund">> \in inFlight /\ UseRefundCode(l) /\ UNCHANGED fabricVars
    <3>1. operation[l].refundAttempted
      BY <2>1, <2>3 DEF WorldFits
    <3> QED BY <2>1, <2>3, <3>1, WalletTouched DEF fabricVars
  <2>4. CASE (CreateCompute(l) \/ CreateStorage(l)) /\ UNCHANGED walletVars
    BY <2>1, <2>4 DEF Touches, walletVars
  <2> QED BY <1>4, <2>2, <2>3, <2>4 DEF Deliver
<1>5. ASSUME NEW l \in Launch, ProvisionCompute(l) \/ ProvisionStorage(l) \/ ProviderMoves(l)
      PROVE  Touches(l)
  <2>1. UNCHANGED <<operation, charged, refunded>>
    BY <1>5 DEF ProvisionCompute, ProvisionStorage, ProviderMoves, walletVars
  <2> QED BY <1>5, <2>1 DEF Touches
<1> QED BY <1>1, <1>2, <1>3, <1>4, <1>5 DEF Next

\* What the invariant says of a launch in the terms of the contract.
Accounted(l) ==
  /\ l \in refunded => l \in charged /\ l \notin Live
  /\ l \in Live => l \in charged
  /\ l \in charged => operation[l].status # "none"
  /\ operation[l].status = "succeeded" =>
       l \in charged /\ l \notin refunded /\ {compute[l], storage[l]} \subseteq {"ready", "gone"}
  /\ operation[l].status = "refunded" => l \in refunded
  /\ operation[l].refundAttempted => l \in charged /\ l \notin Live

LEMMA IsAccounted ==
  ASSUME SagaInv, NEW l \in Launch PROVE Accounted(l)
<1>1. PICK op : op = operation[l]
  OBVIOUS
<1>2. WorldFits(l) /\ RowTrue(l, op) /\ OperationFits(op)
  BY <1>1, RowKnown
<1>3. ASSUME op.refundAttempted PROVE l \in charged /\ l \notin Live
  <2>1. op.confirmed
    BY <1>2, <1>3 DEF RowTrue, OperationFits, Early, ChargeConfirmed
  <2>2. compute[l] = "gone" /\ storage[l] \in {"none", "gone"}
    BY <1>1, <1>2, <1>3 DEF RowTrue, WorldFits
  <2> QED BY <1>2, <2>1, <2>2 DEF RowTrue, Live
<1>4. l \in refunded => op.refundAttempted
  BY <1>1, <1>2 DEF WorldFits
<1>5. ASSUME l \in Live PROVE l \in charged
  <2>1. compute[l] # "none" \/ storage[l] # "none"
    BY <1>5 DEF Live
  <2>2. ChargeConfirmed(op)
    BY <1>1, <2>1 DEF SagaInv, LaunchInv, ProviderOnlyAfterProof
  <2> QED BY <1>2, <2>2 DEF RowTrue, ChargeConfirmed
<1>6. ASSUME op.status = "succeeded"
      PROVE  l \in charged /\ l \notin refunded /\ {compute[l], storage[l]} \subseteq {"ready", "gone"}
  <2>1. op.phase = "succeeded"
    BY <1>2, <1>6 DEF RowTrue, Terminal
  <2>2. ~op.refundAttempted /\ op.confirmed
    BY <1>2, <2>1 DEF RowTrue, OperationFits, Early, ChargeConfirmed
  <2>3. Past(op) /\ Stored(op)
    BY <2>1 DEF Past, Stored, Early
  <2> QED BY <1>2, <1>4, <2>2, <2>3 DEF RowTrue
<1>7. op.status = "refunded" => l \in refunded
  BY <1>2 DEF RowTrue, Terminal
<1>8. l \in charged => op.status # "none"
  BY <1>1, <1>2 DEF WorldFits
<1> QED BY <1>1, <1>3, <1>4, <1>5, <1>6, <1>7, <1>8 DEF Accounted

AllAccounted == \A l \in Launch : Accounted(l)

LEMMA AccountedNow == SagaInv => AllAccounted
BY IsAccounted DEF AllAccounted

LEMMA AccountedNext == SagaInv' => AllAccounted'
BY AccountedNow, PTL

\* The three functions of the contract, point by point.
LEMMA ContractValues ==
  /\ \A l \in Launch :
       /\ Funds[l] = (IF l \in refunded THEN "returned"
                      ELSE IF l \in charged THEN "held" ELSE "none")
       /\ Outcome[l] = (IF operation[l].status \in Terminal
                        THEN operation[l].status ELSE "open")
  /\ charged' = charged /\ refunded' = refunded => Funds' = Funds
  /\ compute' = compute /\ storage' = storage => Live' = Live
  /\ operation' = operation => Outcome' = Outcome
BY DEF Funds, Live, Outcome

LEMMA DebitActs ==
  ASSUME SagaInv, NEW l \in Launch, UNCHANGED <<operation, refunded, compute, storage>>,
         charged' = charged \cup {l}, operation[l].status # "none"
  PROVE  ContractRests \/ ContractStep(l)
<1>1. Live' = Live /\ Outcome' = Outcome
  BY ContractValues
<1>2. CASE l \in charged
  <2>1. charged' = charged
    BY <1>2
  <2> QED BY <1>1, <2>1, ContractValues DEF ContractRests
<1>3. CASE l \notin charged
  <2>1. Accounted(l)
    BY IsAccounted
  <2>2. l \notin refunded /\ operation[l].status \notin Terminal
    BY <1>3, <2>1 DEF Accounted, Terminal
  <2>3. Funds[l] = "none" /\ Outcome[l] = "open" /\ InProgress(l)
    BY <1>3, <2>2, ContractValues DEF InProgress
  <2>4. ASSUME NEW other \in Launch, Unsettled(other) PROVE FALSE
    <3>1. other \in charged /\ operation[other].status \notin Terminal
      BY <2>4, ContractValues DEF Unsettled, Terminal
    <3>2. operation[other].status # "none"
      BY <3>1, IsAccounted DEF Accounted
    <3> QED BY <1>3, <2>3, <3>1, <3>2 DEF SagaInv, InProgress
  <2>5. Funds' = [Funds EXCEPT ![l] = "held"]
    BY <1>3, <2>2 DEF Funds
  <2> QED BY <1>1, <2>3, <2>4, <2>5 DEF ContractStep
<1> QED BY <1>2, <1>3

LEMMA ReturnActs ==
  ASSUME SagaInv, NEW l \in Launch, UNCHANGED <<operation, charged, compute, storage>>,
         refunded' = refunded \cup {l}, operation[l].refundAttempted
  PROVE  ContractRests \/ ContractStep(l)
<1>1. Live' = Live /\ Outcome' = Outcome
  BY ContractValues
<1>2. CASE l \in refunded
  <2>1. refunded' = refunded
    BY <1>2
  <2> QED BY <1>1, <2>1, ContractValues DEF ContractRests
<1>3. CASE l \notin refunded
  <2>1. Accounted(l)
    BY IsAccounted
  <2>2. l \in charged /\ l \notin Live /\ operation[l].status # "refunded"
    BY <1>3, <2>1 DEF Accounted
  <2>3. operation[l].status # "succeeded"
    <3>1. PICK op : op = operation[l]
      OBVIOUS
    <3>2. RowTrue(l, op)
      BY <3>1, RowKnown
    <3> QED BY <3>1, <3>2 DEF RowTrue, Terminal
  <2>4. Unsettled(l)
    BY <1>3, <2>2, <2>3, ContractValues DEF Unsettled, Terminal
  <2>5. Funds' = [Funds EXCEPT ![l] = "returned"]
    BY <1>3 DEF Funds
  <2> QED BY <1>1, <2>2, <2>4, <2>5 DEF ContractStep
<1> QED BY <1>2, <1>3

LEMMA ProviderActs ==
  ASSUME SagaInv, SagaInv', NEW l \in Launch, UNCHANGED <<operation, charged, refunded>>,
         \/ CreateCompute(l) \/ CreateStorage(l) \/ ProvisionCompute(l) \/ ProvisionStorage(l)
         \/ ProviderMoves(l)
  PROVE  ContractRests \/ ContractStep(l)
<1>1. Funds' = Funds /\ Outcome' = Outcome
  BY ContractValues
<1>2. compute \in [Launch -> ProviderState] /\ storage \in [Launch -> ProviderState]
  BY RestTypedNow DEF SagaInv, RestTyped
<1>3. \A m \in Launch : m # l => compute'[m] = compute[m] /\ storage'[m] = storage[m]
  BY <1>2 DEF CreateCompute, CreateStorage, ProvisionCompute, ProvisionStorage, ProviderMoves
<1>4. \A m \in Launch : m # l => (m \in Live' <=> m \in Live)
  BY <1>3 DEF Live
<1>5. Live \subseteq Launch /\ Live' \subseteq Launch
  BY DEF Live
<1>6. CASE l \in Live' <=> l \in Live
  <2>1. Live' = Live
    BY <1>4, <1>5, <1>6
  <2> QED BY <1>1, <2>1 DEF ContractRests
<1>7. CASE l \in Live /\ l \notin Live'
  <2>1. Live' = Live \ {l}
    BY <1>4, <1>5, <1>7
  <2> QED BY <1>1, <2>1 DEF ContractStep
<1>8. CASE l \notin Live /\ l \in Live'
  <2>1. Live' = Live \cup {l}
    BY <1>4, <1>5, <1>8
  <2>2. Accounted(l) /\ Accounted(l)'
    BY IsAccounted, AccountedNext DEF AllAccounted
  <2>3. l \in charged /\ l \notin refunded /\ operation[l].status # "refunded"
    BY <1>8, <2>2 DEF Accounted
  <2>4. operation[l].status # "succeeded"
    <3>1. ASSUME {compute[l], storage[l]} \subseteq {"ready", "gone"}
          PROVE  l \in Live' => l \in Live
      BY <1>2, <3>1 DEF Live, CreateCompute, CreateStorage, ProvisionCompute,
           ProvisionStorage, ProviderMoves
    <3> QED BY <1>8, <2>2, <3>1 DEF Accounted
  <2>5. Unsettled(l)
    BY <2>3, <2>4, ContractValues DEF Unsettled, Terminal
  <2> QED BY <1>1, <2>1, <2>5 DEF ContractStep
<1> QED BY <1>6, <1>7, <1>8

LEMMA WriteActs ==
  ASSUME SagaInv, SagaInv', [Next]_vars, NEW l \in Launch,
         UNCHANGED <<charged, refunded, compute, storage>>,
         \A m \in Launch : m # l => operation'[m] = operation[m]
  PROVE  ContractRests \/ ContractStep(l)
<1>1. Funds' = Funds /\ Live' = Live
  BY ContractValues
<1>2. PICK old, op : old = operation[l].status /\ op = operation'[l].status
  OBVIOUS
<1>3. old \in Terminal => op = old
  BY <1>2, WritesAllowed DEF SagaInv, WriteAllowed
<1>4. Accounted(l)'
  BY AccountedNext DEF AllAccounted
<1>5. CASE op \notin Terminal \/ old \in Terminal
  <2>1. \A m \in Launch :
          IF operation'[m].status \in Terminal
          THEN operation[m].status = operation'[m].status
          ELSE operation[m].status \notin Terminal
    BY <1>2, <1>3, <1>5
  <2>2. Outcome' = Outcome
    BY <2>1 DEF Outcome
  <2> QED BY <1>1, <2>2 DEF ContractRests
<1>6. CASE op \in Terminal /\ old \notin Terminal
  <2>1. Outcome' = [Outcome EXCEPT ![l] = op] /\ Outcome[l] = "open"
    BY <1>2, <1>6 DEF Outcome
  <2>2. /\ op = "succeeded" => Funds[l] = "held"
        /\ op = "refunded" => Funds[l] = "returned"
    BY <1>2, <1>4, ContractValues DEF Accounted
  <2> QED BY <1>1, <1>6, <2>1, <2>2 DEF ContractStep, Terminal
<1> QED BY <1>5, <1>6

\* Wallet, provider and operations move together as the customer was promised:
\* every step of the saga is a step of the purchase contract, or none.
THEOREM PurchaseContractKept == Spec => KeepsContract
<1>1. ASSUME Init PROVE Contract!Init
  BY <1>1 DEF Init, Contract!Init, Blank, Terminal
<1>2. ASSUME SagaInv, SagaInv', [Next]_vars
      PROVE  [Contract!Next]_Contract!contractVars
  <2>1. CASE UNCHANGED <<operation, charged, refunded, compute, storage>>
    BY <2>1, ContractValues, ContractMoves DEF ContractRests
  <2>2. ASSUME NEW l \in Launch, Touches(l) PROVE ContractRests \/ ContractStep(l)
    BY <1>2, <2>2, WriteActs, DebitActs, ReturnActs, ProviderActs DEF Touches
  <2> QED BY <1>2, <2>1, <2>2, StepTouches, ContractMoves
<1> QED BY <1>1, <1>2, SagaInvariant, PTL DEF Spec, KeepsContract, Contract!Spec
=============================================================================
