---------------------- MODULE WorkspaceRenewal_proofs ----------------------
(***************************************************************************)
(* What WorkspaceRenewal promises holds for any number of periods,         *)
(* processes, requests and failures, and any price.  RenewalInv is         *)
(* inductive: a row and every handler's copy of one fit their phase and    *)
(* tell the truth, a copy that is about to be written follows the row it   *)
(* was taken from, and the Workspace row follows the rows of its periods.  *)
(***************************************************************************)
EXTENDS WorkspaceRenewal, TLAPS

USE PeriodAssumption, PriceAssumption, BalanceAssumption, BoundAssumption, NameAssumption

(* Money, renewals and time only go one way, and so does a machine's end.  *)
Grows ==
  /\ now' \in Nat /\ now <= now'
  /\ charged \subseteq charged' /\ refunded \subseteq refunded'
  /\ \A r \in Resource : /\ provider[r].deadline <= provider'[r].deadline
                         /\ provider'[r].alive => provider[r].alive

LEMMA CopyStaysFit ==
  ASSUME TypeOK, TypeOK', Grows, NEW k \in Period, NEW op \in OperationType, CopyFits(k, op)
  PROVE  CopyFits(k, op)'
<1>1. MoneyFits(op)' /\ PhaseFits(op)' /\ IsTrue(k, op)'
  BY DEF CopyFits, MoneyFits, PhaseFits, PastRefund, IsTrue, Grows, Resource
<1>2. ExpiryFits(k, op)'
  BY DEF CopyFits, ExpiryFits, Grows, TypeOK, OperationType
<1>3. QED
  BY <1>1, <1>2 DEF CopyFits

LEMMA GrantedStays ==
  ASSUME TypeOK, TypeOK', Grows, NEW k \in Period, Granted(k)
  PROVE  Granted(k)'
BY DEF Granted, Grows, TypeOK, Period

LEMMA FollowsSelf ==
  ASSUME NEW op \in OperationType, op.status # "none"
  PROVE  Follows(op, op)
BY DEF Follows, Preserves

LEMMA FollowsOn ==
  ASSUME NEW a \in OperationType, NEW b \in OperationType, NEW c \in OperationType,
         Follows(a, b), Follows(b, c)
  PROVE  Follows(a, c)
BY DEF Follows, Preserves

(* An expiry that was never written keeps all that a later version keeps.  *)
LEMMA DriftFollows ==
  ASSUME NEW k \in Period, NEW base \in OperationType, NEW op \in OperationType,
         CopyFits(k, base), base.status # "none", Drifted(base, op)
  PROVE  Follows(base, op)
<1>1. /\ op.status = base.status /\ op.phase = base.phase /\ op.attempted = base.attempted
      /\ op.pre = base.pre /\ op.confirmed = base.confirmed
      /\ op.refundAttempted = base.refundAttempted
      /\ op.refundConfirmed = base.refundConfirmed /\ op.committed = base.committed
  BY DEF Drifted, OperationType
<1>2. /\ op.expiryPaid = base.expiryPaid
      /\ op.expiry = base.expiry \/ (base.expiry = "past_due" /\ op.expiry = "expired_unpaid")
      /\ op.expiryPhase = base.expiryPhase \/ base.expiryPhase \notin {"none", "complete"}
  BY DEF Drifted, ExpiryAdvances
<1>3. /\ base.committed => base.expiry # "past_due"
      /\ base.committed <=> base.status = "active" \/ base.phase = "receipt"
      /\ base.phase = "receipt" => base.status = "verifying"
  BY DEF CopyFits, PhaseFits, ExpiryFits
<1>4. base.committed /\ Terminal(base) => Terminal(op)
  BY <1>1, <1>2, <1>3 DEF Terminal, FinanciallyDone
<1>5. QED
  BY <1>1, <1>2, <1>4 DEF Follows, Preserves, PastRefund

LEMMA DriftSelf ==
  ASSUME NEW op \in OperationType
  PROVE  Drifted(op, op)
BY DEF Drifted, ExpiryAdvances, OperationType

LEMMA DriftOn ==
  ASSUME NEW a \in OperationType, NEW b \in OperationType, NEW c \in OperationType,
         Drifted(a, b), Drifted(b, c)
  PROVE  Drifted(a, c)
<1>1. c = [a EXCEPT !.expiry = c.expiry, !.expiryPhase = c.expiryPhase]
  BY DEF Drifted, OperationType
<1>2. ExpiryAdvances(a, c)
  BY DEF Drifted, ExpiryAdvances, OperationType
<1>3. QED
  BY <1>1, <1>2 DEF Drifted

(* What a write does to the Workspace fits the row the copy was read from. *)
LEMMA PatchAfter ==
  ASSUME NEW k \in Period, NEW base \in OperationType, NEW op \in OperationType,
         NEW new \in OperationType, NEW patch \in Patch,
         Drifted(base, op), Follows(op, new), PatchFits(k, op, new, patch)'
  PROVE  PatchFits(k, base, new, patch)'
<1>1. op.status = base.status /\ op.committed = base.committed
  BY DEF Drifted, OperationType
<1>2. op.expiry = "past_due" => base.expiry = "past_due"
  BY DEF Drifted, ExpiryAdvances
<1>3. patch # "extend_running" => ExpiryAdvances(base, new)
  BY <1>1 DEF Drifted, ExpiryAdvances, PatchFits, Follows
<1>4. QED
  BY <1>1, <1>2, <1>3 DEF PatchFits

(* What a copy with an unwritten expiry says of the money, the row says.   *)
LEMMA DriftLeads ==
  ASSUME NEW base \in OperationType, NEW op \in OperationType, NEW row \in OperationType,
         Drifted(base, op), Follows(base, row)
  PROVE  /\ row.status # "none" /\ Preserves(op, row)
         /\ PastRefund(op) => PastRefund(row)
         /\ op.status \in {"active", "refunded", "expired_unpaid"} => row.status = op.status
<1>1. /\ op.status = base.status /\ op.phase = base.phase /\ op.attempted = base.attempted
      /\ op.pre = base.pre /\ op.confirmed = base.confirmed
      /\ op.refundAttempted = base.refundAttempted
      /\ op.refundConfirmed = base.refundConfirmed /\ op.committed = base.committed
  BY DEF Drifted, OperationType
<1>2. QED
  BY <1>1 DEF Follows, Preserves, PastRefund

LEMMA CopyOfStays ==
  ASSUME TypeOK, TypeOK', Grows, NEW k \in Period, NEW op \in OperationType,
         NEW base \in OperationType, CopyOf(k, op, base),
         operation'[k] = operation[k] \/ Follows(operation[k], operation'[k])
  PROVE  CopyOf(k, op, base)'
<1>1. CopyFits(k, op)' /\ CopyFits(k, base)'
  BY CopyStaysFit DEF CopyOf
<1>2. operation[k] \in OperationType /\ operation'[k] \in OperationType
  BY DEF TypeOK
<1>3. Follows(base, operation[k])'
  BY <1>2, FollowsOn DEF CopyOf
<1>4. QED
  BY <1>1, <1>3 DEF CopyOf

(* A handler that does nothing stays fit while rows move on.               *)
LEMMA HandlerStaysFit ==
  ASSUME RenewalInv, TypeOK', Grows, NEW p \in Process, handler'[p] = handler[p],
         \A k \in Period : operation'[k] = operation[k] \/ Follows(operation[k], operation'[k])
  PROVE  HandlerFits(p)'
<1> PICK h \in HandlerType : h = handler[p]
  BY DEF RenewalInv, TypeOK
<1> SUFFICES ASSUME h.pc # "idle" PROVE HandlerFits(p)'
  BY DEF HandlerFits
<1>1. /\ h.period \in Period /\ h.op \in OperationType /\ h.base \in OperationType
      /\ h.kept \in OperationType /\ h.keptBase \in OperationType
  BY DEF HandlerType
<1>2. TypeOK /\ HandlerFits(p)
  BY DEF RenewalInv
<1>3. CopyOf(h.period, h.op, h.base)'
  BY <1>1, <1>2, CopyOfStays DEF HandlerFits
<1>4. h.stage = "run" /\ h.expired => CopyOf(h.period, h.kept, h.keptBase)'
  BY <1>1, <1>2, CopyOfStays DEF HandlerFits
<1>5. h.pc = "persist" => PatchFits(h.period, h.base, h.op, h.patch)'
  BY <1>1, <1>2, GrantedStays DEF HandlerFits, PatchFits
<1>6. /\ h.pc = "verify_storage" => provider'["compute"].deadline > h.period
      /\ h.pc = "commit" => Granted(h.period)'
  <2>1. h.period \in Nat /\ "compute" \in Resource
    BY <1>1 DEF Period, Resource
  <2>2. provider["compute"].deadline \in Nat /\ provider'["compute"].deadline \in Nat
    BY <2>1, <1>2 DEF TypeOK
  <2>3. provider["compute"].deadline <= provider'["compute"].deadline
    BY <2>1 DEF Grows
  <2>4. QED
    BY <1>1, <1>2, <2>1, <2>2, <2>3, GrantedStays DEF HandlerFits
<1>7. QED
  BY <1>2, <1>3, <1>4, <1>5, <1>6 DEF HandlerFits

LEMMA RowStaysFit ==
  ASSUME RenewalInv, TypeOK', Grows, UNCHANGED <<operation, workspace, promised>>,
         NEW k \in Period
  PROVE  RowFits(k)'
<1> PICK row \in OperationType : row = operation[k]
  BY DEF RenewalInv, TypeOK
<1>1. TypeOK /\ RowFits(k)
  BY DEF RenewalInv
<1>2. CopyFits(k, row)
  BY <1>1 DEF RowFits
<1>3. CopyFits(k, row)'
  BY <1>1, <1>2, CopyStaysFit
<1>4. row.committed => Granted(k)'
  BY <1>1, GrantedStays DEF RowFits
<1>5. QED
  BY <1>1, <1>3, <1>4 DEF RowFits

LEMMA WorkspaceStaysFit ==
  ASSUME RenewalInv, Grows, UNCHANGED <<operation, workspace>>
  PROVE  WorkspaceFits'
BY DEF RenewalInv, TypeOK, WorkspaceType, WorkspaceFits, Grows

(* The promises of the invariant that the other parts give.                *)
LEMMA PromisesFollow ==
  ASSUME TypeOK', \A k \in Period : RowFits(k)' /\ EffectsFit(k)', WorkspaceFits'
  PROVE  SuspendedOnlyExpired' /\ RefundOnlyWithoutMachine' /\ EndedOnlyUnpaid'
<1>1. SuspendedOnlyExpired'
  BY DEF WorkspaceFits, SuspendedOnlyExpired
<1>2. ASSUME NEW k \in refunded'
      PROVE  /\ k \in charged' /\ ~ provider'["compute"].alive /\ workspace'.paid = k
             /\ k \notin provider'["storage"].done /\ <<k, "storage">> \notin inFlight'
  <2>1. k \in Period /\ operation'[k] \in OperationType /\ workspace'.paid \in Nat
    BY DEF TypeOK, WorkspaceType
  <2>2. operation'[k].refundAttempted
    BY <2>1 DEF EffectsFit
  <2>3. /\ operation'[k].confirmed /\ ~ PastRefund(operation[k])'
        /\ operation'[k].status \in {"refund_pending", "refunded", "manual_review"}
        /\ k \in charged' /\ ~ provider'["compute"].alive
    BY <2>1, <2>2 DEF RowFits, CopyFits, MoneyFits, PhaseFits, IsTrue
  <2>4. ~ operation'[k].committed
    BY <2>1, <2>3 DEF RowFits, CopyFits, PhaseFits, PastRefund
  <2>5. k <= workspace'.paid /\ ~ k < workspace'.paid
    BY <2>1, <2>3, <2>4 DEF RowFits
  <2>6. workspace'.paid = k
    BY <2>1, <2>5 DEF Period
  <2>7. QED
    BY <2>1, <2>3, <2>6 DEF EffectsFit
<1>3. RefundOnlyWithoutMachine'
  BY <1>2 DEF RefundOnlyWithoutMachine
<1>4. EndedOnlyUnpaid'
  <2> DEFINE k == workspace'.paid
  <2> SUFFICES ASSUME workspace'.status = "expired_unpaid"
               PROVE  /\ k \notin charged' \ refunded'
                      /\ <<k, "charge">> \in inFlight' => k \in charged'
                      /\ ~ workspace'.autoRenew
    BY DEF EndedOnlyUnpaid, Paid
  <2>1. ~ workspace'.autoRenew
    BY DEF WorkspaceFits
  <2>2. CASE k \in Period
    <3>1. operation'[k].status \in {"none", "expired_unpaid", "refunded"}
      BY <2>2 DEF WorkspaceFits
    <3>2. operation'[k].attempted => operation'[k].status = "refunded"
      BY <2>2, <3>1 DEF RowFits, CopyFits, MoneyFits
    <3>3. operation'[k].status = "refunded" => k \in charged' /\ k \in refunded'
      BY <2>2 DEF RowFits, CopyFits, MoneyFits, IsTrue
    <3>4. QED
      BY <2>1, <2>2, <3>2, <3>3 DEF EffectsFit
  <2>3. CASE k \notin Period
    BY <2>1, <2>3 DEF TypeOK
  <2>4. QED
    BY <2>2, <2>3
<1>5. QED
  BY <1>1, <1>3, <1>4

LEMMA CommittedIsKept ==
  ASSUME TypeOK', NEW k \in Period, RowFits(k)', EffectsFit(k)', k < workspace'.paid
  PROVE  k \notin refunded'
<1>1. operation'[k].committed
  BY DEF RowFits
<1>2. PastRefund(operation[k])'
  BY <1>1 DEF RowFits, CopyFits, PhaseFits, PastRefund
<1>3. ~ operation'[k].refundAttempted
  BY <1>2 DEF RowFits, CopyFits, PhaseFits
<1>4. QED
  BY <1>3 DEF EffectsFit

(* An expiry receipt stays with the period it was sent for.                *)
LEMMA ReceiptStaysFit ==
  ASSUME RenewalInv, TypeOK', Grows, NEW e \in receipts, RowFits(e[1])',
         \/ operation'[e[1]] = operation[e[1]]
         \/ Follows(operation[e[1]], operation'[e[1]])
  PROVE  ReceiptFits(e)'
<1> DEFINE k == e[1]
<1> SUFFICES ASSUME e[2] = "expired" PROVE ReceiptFits(e)'
  BY DEF ReceiptFits
<1> PICK row \in OperationType : row = operation[k]
  BY DEF RenewalInv, TypeOK
<1> PICK new \in OperationType : new = operation'[k]
  BY DEF RenewalInv, TypeOK
<1>1. k \in Period /\ k \in Nat /\ workspace.paid \in Nat /\ workspace'.paid \in Nat
  BY DEF RenewalInv, TypeOK, WorkspaceType, Period
<1>2. /\ workspace.paid = e[3] /\ now >= 2 * e[3]
      /\ row.expiry = "expired_unpaid" \/ (row.status = "refunded" /\ k = e[3])
  BY DEF RenewalInv, ReceiptFits
<1>3. now' >= 2 * e[3]
  BY <1>1, <1>2 DEF Grows, RenewalInv, TypeOK
<1>4. CASE row.expiry = "expired_unpaid"
  <2>1. new.expiry = "expired_unpaid" /\ new.expiryPaid = row.expiryPaid
    BY <1>4 DEF Follows
  <2>2. row.expiryPaid = e[3]
    BY <1>1, <1>2, <1>4 DEF RenewalInv, RowFits
  <2>3. workspace'.paid = e[3]
    BY <2>1, <2>2 DEF RowFits
  <2>4. QED
    BY <1>3, <2>1, <2>3 DEF ReceiptFits
<1>5. CASE row.status = "refunded" /\ k = e[3]
  <2>1. new.status = "refunded"
    BY <1>5 DEF Follows
  <2>2. ~ new.committed
    BY <2>1 DEF RowFits, CopyFits, PhaseFits
  <2>3. k <= workspace'.paid /\ ~ k < workspace'.paid
    BY <2>1, <2>2 DEF RowFits
  <2>4. workspace'.paid = e[3]
    BY <1>1, <1>5, <2>3
  <2>5. QED
    BY <1>3, <1>5, <2>1, <2>4 DEF ReceiptFits
<1>6. QED
  BY <1>2, <1>4, <1>5

(* The period of an expiry receipt costs nothing.                          *)
LEMMA ExpiredAfter ==
  ASSUME workspace'.paid \in Nat, operation' \in [Period -> OperationType],
         charged' \subseteq Period, refunded' \subseteq Period,
         inFlight' \subseteq Period \X ({"charge", "refund"} \cup Resource),
         \A k \in Period : RowFits(k)' /\ EffectsFit(k)',
         NEW e, e[1] \in Period, e[2] = "expired", ReceiptFits(e)'
  PROVE  /\ workspace'.paid = e[3] /\ now' >= 2 * e[3] /\ e[3] \notin Paid'
         /\ <<e[3], "charge">> \in inFlight' => e[3] \in charged'
<1> DEFINE k == e[1]
           m == e[3]
<1>1. k \in Period /\ workspace'.paid = m /\ m \in Nat /\ k \in Nat
  BY DEF Period, ReceiptFits
<1> SUFFICES ASSUME m \in Period
             PROVE  m \notin Paid' /\ (<<m, "charge">> \in inFlight' => m \in charged')
  BY <1>1 DEF ReceiptFits, Paid
<1> PICK row \in OperationType : row = operation'[k]
  BY <1>1
<1> PICK current \in OperationType : current = operation'[m]
  OBVIOUS
<1>2. \/ row.expiry = "expired_unpaid"
      \/ row.status = "refunded" /\ k = m
  BY DEF ReceiptFits
<1>3. row.status \in {"expired_unpaid", "refunded"} \/ row.committed
  BY <1>1, <1>2 DEF RowFits, CopyFits, ExpiryFits
<1>4. current.status \in {"none", "expired_unpaid", "refunded"}
  <2>1. CASE row.committed
    <3>1. row.expiry # "none" /\ m > k
      BY <1>1, <1>2, <2>1 DEF RowFits, CopyFits, PhaseFits
    <3>2. QED
      BY <1>1, <2>1, <3>1 DEF RowFits
  <2>2. CASE ~ row.committed
    <3>1. k <= m /\ ~ k < m
      BY <1>1, <1>3, <2>2 DEF RowFits
    <3>2. QED
      BY <1>1, <1>3, <2>2, <3>1
  <2>3. QED
    BY <2>1, <2>2
<1>5. current.attempted => current.status = "refunded"
  BY <1>4 DEF RowFits, CopyFits, MoneyFits
<1>6. current.status = "refunded" => m \in charged' /\ m \in refunded'
  BY DEF RowFits, CopyFits, MoneyFits, IsTrue
<1>7. QED
  BY <1>5, <1>6 DEF EffectsFit, Paid

LEMMA ReceiptsStayTrue ==
  ASSUME RenewalInv, TypeOK', Grows, \A k \in Period : RowFits(k)' /\ EffectsFit(k)',
         receipts' = receipts, workspace'.paid >= workspace.paid,
         \A k \in Period : operation'[k] = operation[k] \/ Follows(operation[k], operation'[k])
  PROVE  ReceiptsTrue' /\ \A e \in receipts' : ReceiptFits(e)'
<1>1. ASSUME NEW e \in receipts'
      PROVE  e[1] \in Period /\ ReceiptFits(e)'
  <2>1. e \in receipts /\ e[1] \in Period
    BY DEF RenewalInv, TypeOK
  <2>2. QED
    BY <2>1, ReceiptStaysFit
<1> SUFFICES ASSUME NEW e \in receipts'
             PROVE  /\ e[2] = "renewed" => workspace'.paid > e[1] /\ e[1] \notin refunded'
                    /\ e[2] = "refunded" => e[1] \in refunded'
                    /\ e[2] = "expired" =>
                         /\ workspace'.paid = e[3] /\ now' >= 2 * e[3] /\ e[3] \notin Paid'
                         /\ <<e[3], "charge">> \in inFlight' => e[3] \in charged'
                    /\ \A f \in receipts' : f[1] = e[1] /\ f[2] = e[2] => f = e
  BY <1>1 DEF ReceiptsTrue
<1>2. /\ e[2] = "renewed" => workspace.paid > e[1] /\ e[1] \notin refunded
      /\ e[2] = "refunded" => e[1] \in refunded
      /\ \A f \in receipts : f[1] = e[1] /\ f[2] = e[2] => f = e
  BY DEF RenewalInv, ReceiptsTrue
<1>3. e[1] \in Period /\ workspace.paid \in Nat /\ workspace'.paid \in Nat
  BY DEF RenewalInv, TypeOK, WorkspaceType
<1>4. e[2] = "renewed" => workspace'.paid > e[1]
  BY <1>2, <1>3 DEF Period
<1>5. e[2] = "renewed" => e[1] \notin refunded'
  BY <1>3, <1>4, CommittedIsKept DEF Period
<1>6. e[2] = "expired" =>
        /\ workspace'.paid = e[3] /\ now' >= 2 * e[3] /\ e[3] \notin Paid'
        /\ <<e[3], "charge">> \in inFlight' => e[3] \in charged'
  BY <1>1, <1>3, ExpiredAfter DEF TypeOK
<1>7. QED
  BY <1>2, <1>4, <1>5, <1>6 DEF Grows

-----------------------------------------------------------------------------
(* A step of one handler.                                                  *)

LEMMA OnlyHandlerMoves ==
  ASSUME RenewalInv, TypeOK', Grows, NEW p \in Process,
         UNCHANGED <<workspace, operation, requestVars>>,
         \A q \in Process \ {p} : handler'[q] = handler[q],
         HandlerFits(p)', \A k \in Period : EffectsFit(k)',
         \A r \in rowGone' : ~ provider'[r].alive,
         receipts' = receipts \/ (ReceiptsTrue' /\ \A e \in receipts' : ReceiptFits(e)')
  PROVE  RenewalInv'
<1>1. \A k \in Period : RowFits(k)'
  BY RowStaysFit DEF requestVars
<1>2. \A q \in Process : HandlerFits(q)'
  BY HandlerStaysFit
<1>3. WorkspaceFits' /\ RequestFits'
  BY WorkspaceStaysFit DEF RenewalInv, RequestFits, requestVars
<1>4. ReceiptsTrue' /\ \A e \in receipts' : ReceiptFits(e)'
  BY <1>1, ReceiptsStayTrue DEF RenewalInv, TypeOK, WorkspaceType
<1>5. QED
  BY <1>1, <1>2, <1>3, <1>4, PromisesFollow DEF RenewalInv

LEMMA QuietStep ==
  ASSUME RenewalInv, handler' \in [Process -> HandlerType], faults' \in 0 .. MaxFaults,
         NEW p \in Process, \A q \in Process \ {p} : handler'[q] = handler[q],
         HandlerFits(p)',
         UNCHANGED <<now, workspace, operation, expired, requestVars, walletVars, outsideVars,
                     external>>
  PROVE  RenewalInv'
<1>1. TypeOK'
  BY DEF RenewalInv, TypeOK, requestVars, walletVars, outsideVars
<1>2. Grows
  BY DEF RenewalInv, TypeOK, Grows, walletVars, outsideVars
<1>3. \A k \in Period : EffectsFit(k)'
  BY DEF RenewalInv, EffectsFit, walletVars, outsideVars
<1>4. receipts' = receipts /\ \A r \in rowGone' : ~ provider'[r].alive
  BY DEF RenewalInv, outsideVars
<1>5. QED
  BY <1>1, <1>2, <1>3, <1>4, OnlyHandlerMoves

LEMMA FaultTyped ==
  ASSUME RenewalInv, Fault \/ Sound
  PROVE  faults' \in 0 .. MaxFaults
BY DEF RenewalInv, TypeOK, Fault, Sound

(* What a handler at work knows of its copy.                               *)
LEMMA AtWork ==
  ASSUME RenewalInv, NEW p \in Process, handler[p].pc \notin {"idle", "persist", "reload"}
  PROVE  /\ handler[p] \in HandlerType
         /\ handler[p].period \in Period /\ handler[p].op \in OperationType
         /\ handler[p].base \in OperationType
         /\ CopyOf(handler[p].period, handler[p].op, handler[p].base)
         /\ Drifted(handler[p].base, handler[p].op)
         /\ Follows(handler[p].base, handler[p].op)
         /\ CopyFits(handler[p].period, handler[p].op)
         /\ handler[p].op.status # "none"
         /\ operation[handler[p].period] \in OperationType
         /\ operation[handler[p].period].status # "none"
         /\ Preserves(handler[p].op, operation[handler[p].period])
         /\ PastRefund(handler[p].op) => PastRefund(operation[handler[p].period])
         /\ handler[p].op.status \in {"active", "refunded", "expired_unpaid"} =>
              operation[handler[p].period].status = handler[p].op.status
         /\ StepFits(handler[p].pc, handler[p].op)
         /\ handler[p].stage = "run" /\ handler[p].expired =>
              /\ CopyOf(handler[p].period, handler[p].kept, handler[p].keptBase)
              /\ Drifted(handler[p].keptBase, handler[p].kept)
         /\ handler[p].pc = "expiry" <=> handler[p].stage \in {"expire", "expire_again"}
         /\ RowFits(handler[p].period) /\ EffectsFit(handler[p].period)
<1> PICK h \in HandlerType : h = handler[p]
  BY DEF RenewalInv, TypeOK
<1>1. /\ h.period \in Period /\ h.op \in OperationType /\ h.base \in OperationType
      /\ operation[h.period] \in OperationType
  BY DEF HandlerType, RenewalInv, TypeOK
<1>2. /\ CopyOf(h.period, h.op, h.base) /\ Drifted(h.base, h.op) /\ StepFits(h.pc, h.op)
      /\ h.stage = "run" /\ h.expired =>
           CopyOf(h.period, h.kept, h.keptBase) /\ Drifted(h.keptBase, h.kept)
      /\ h.pc = "expiry" <=> h.stage \in {"expire", "expire_again"}
  BY DEF RenewalInv, HandlerFits
<1>3. Follows(h.base, h.op) /\ h.op.status = h.base.status
  BY <1>1, <1>2, DriftFollows DEF CopyOf, Drifted, OperationType
<1>4. /\ operation[h.period].status # "none" /\ Preserves(h.op, operation[h.period])
      /\ PastRefund(h.op) => PastRefund(operation[h.period])
      /\ h.op.status \in {"active", "refunded", "expired_unpaid"} =>
           operation[h.period].status = h.op.status
  BY <1>1, <1>2, DriftLeads DEF CopyOf
<1>5. QED
  BY <1>1, <1>2, <1>3, <1>4 DEF CopyOf, RenewalInv

LEMMA BlankTyped == Blank \in OperationType
BY DEF Blank, OperationType, Status, Phase, Unread, ExpiryStatus, ExpiryPhase, Resolution

LEMMA IdleTyped == Idle \in HandlerType
<1>1. /\ "idle" \in Step /\ "run" \in Stage /\ "none" \in Patch /\ 1 \in Period
      /\ Blank \in OperationType
  BY BlankTyped DEF Step, Stage, Patch, Period
<1>2. QED
  BY <1>1 DEF Idle, HandlerType

LEMMA IdleStep ==
  ASSUME RenewalInv, NEW p \in Process, Return(p)
  PROVE  /\ handler' \in [Process -> HandlerType]
         /\ \A q \in Process \ {p} : handler'[q] = handler[q]
         /\ HandlerFits(p)'
<1>1. Blank \in OperationType
  BY BlankTyped
<1>2. Idle \in HandlerType /\ Idle.pc = "idle"
  BY <1>1 DEF Idle, HandlerType, Step, Stage, Period, Patch
<1>3. /\ handler' \in [Process -> HandlerType] /\ handler'[p] = Idle
      /\ \A q \in Process \ {p} : handler'[q] = handler[q]
  BY <1>2 DEF RenewalInv, TypeOK, Return
<1>4. QED
  BY <1>2, <1>3 DEF HandlerFits

LEMMA GotoStep ==
  ASSUME RenewalInv, TypeOK', Grows, NEW p \in Process,
         handler[p].pc \notin {"idle", "persist", "reload"}, NEW step \in Step,
         Goto(p, step), step # "persist",
         step # "reload" => (step = "expiry" <=> handler[p].pc = "expiry"),
         StepFits(step, handler[p].op),
         step = "verify_storage" => provider'["compute"].deadline > handler[p].period,
         step = "commit" => Granted(handler[p].period)',
         UNCHANGED <<operation, workspace>>
  PROVE  HandlerFits(p)'
<1> PICK h \in HandlerType : h = handler[p]
  BY AtWork
<1>1. /\ h.period \in Period /\ h.op \in OperationType /\ h.base \in OperationType
      /\ h.kept \in OperationType /\ h.keptBase \in OperationType
      /\ CopyOf(h.period, h.op, h.base) /\ Drifted(h.base, h.op)
      /\ h.stage = "run" /\ h.expired =>
           CopyOf(h.period, h.kept, h.keptBase) /\ Drifted(h.keptBase, h.kept)
      /\ h.pc = "expiry" <=> h.stage \in {"expire", "expire_again"}
  BY AtWork DEF HandlerType
<1>2. handler'[p] = [h EXCEPT !.pc = step]
  BY DEF Goto, RenewalInv, TypeOK
<1>3. CopyOf(h.period, h.op, h.base)'
  BY <1>1, CopyOfStays DEF RenewalInv
<1>4. h.stage = "run" /\ h.expired => CopyOf(h.period, h.kept, h.keptBase)'
  BY <1>1, CopyOfStays DEF RenewalInv
<1>5. StepFits(step, h.op) /\ (step = "commit" => Granted(h.period)')
  BY <1>2
<1>6. QED
  BY <1>1, <1>2, <1>3, <1>4, <1>5 DEF HandlerFits, HandlerType

LEMMA GotoTyped ==
  ASSUME RenewalInv, NEW p \in Process, NEW step \in Step, Goto(p, step)
  PROVE  /\ handler' \in [Process -> HandlerType]
         /\ \A q \in Process \ {p} : handler'[q] = handler[q]
BY DEF RenewalInv, TypeOK, HandlerType, Goto

LEMMA SaveTyped ==
  ASSUME RenewalInv, NEW p \in Process, NEW op \in OperationType, NEW patch \in Patch,
         NEW next \in Step, SaveBoth(p, op, patch, next)
  PROVE  /\ handler' \in [Process -> HandlerType]
         /\ \A q \in Process \ {p} : handler'[q] = handler[q]
         /\ handler'[p].pc = "persist" /\ handler'[p].then = next /\ handler'[p].patch = patch
         /\ handler'[p].op = op /\ handler'[p].base = handler[p].base
         /\ handler'[p].period = handler[p].period
         /\ handler'[p].stage = handler[p].stage /\ handler'[p].expired = handler[p].expired
         /\ handler'[p].kept = handler[p].kept /\ handler'[p].keptBase = handler[p].keptBase
<1>1. handler \in [Process -> HandlerType] /\ "persist" \in Step
  BY DEF RenewalInv, TypeOK, Step
<1>2. handler' = [handler EXCEPT ![p] = [handler[p] EXCEPT !.op = op, !.patch = patch,
                                                          !.pc = "persist", !.then = next]]
  BY <1>1 DEF SaveBoth
<1>3. [handler[p] EXCEPT !.op = op, !.patch = patch, !.pc = "persist", !.then = next]
        \in HandlerType
  BY <1>1 DEF HandlerType
<1>4. handler[p] \in HandlerType
  BY <1>1
<1>5. QED
  BY <1>1, <1>2, <1>3, <1>4 DEF HandlerType

LEMMA SaveStep ==
  ASSUME RenewalInv, TypeOK', Grows, NEW p \in Process,
         handler[p].pc \notin {"idle", "persist", "reload", "expiry"},
         NEW h \in HandlerType, h = handler[p],
         NEW op \in OperationType, NEW patch \in Patch,
         NEW next \in Step \ {"persist", "verify_storage", "commit", "expiry"},
         SaveBoth(p, op, patch, next),
         UNCHANGED <<operation, workspace>>,
         CopyFits(h.period, op)', Follows(h.op, op), StepFits(next, op),
         PatchFits(h.period, h.op, op, patch)'
  PROVE  HandlerFits(p)'
<1>1. /\ h.period \in Period /\ h.op \in OperationType /\ h.base \in OperationType
      /\ h.kept \in OperationType /\ h.keptBase \in OperationType
      /\ CopyOf(h.period, h.op, h.base) /\ Drifted(h.base, h.op) /\ Follows(h.base, h.op)
      /\ h.stage = "run" /\ h.expired =>
           CopyOf(h.period, h.kept, h.keptBase) /\ Drifted(h.keptBase, h.kept)
      /\ h.stage \notin {"expire", "expire_again"}
  BY AtWork DEF HandlerType
<1>2. /\ handler'[p].pc = "persist" /\ handler'[p].then = next /\ handler'[p].patch = patch
      /\ handler'[p].op = op /\ handler'[p].base = h.base
      /\ handler'[p].period = h.period
      /\ handler'[p].stage = h.stage /\ handler'[p].expired = h.expired
      /\ handler'[p].kept = h.kept /\ handler'[p].keptBase = h.keptBase
  BY SaveTyped
<1>3. CopyOf(h.period, op, h.base)'
  BY <1>1, CopyOfStays DEF RenewalInv, CopyOf
<1>4. h.stage = "run" /\ h.expired => CopyOf(h.period, h.kept, h.keptBase)'
  BY <1>1, CopyOfStays DEF RenewalInv
<1>5. Follows(h.base, op)
  BY <1>1, FollowsOn
<1>6. PatchFits(h.period, h.base, op, patch)'
  BY <1>1, PatchAfter
<1>7. QED
  BY <1>1, <1>2, <1>3, <1>4, <1>5, <1>6 DEF HandlerFits

(* A step that ends in a write and changes nothing else.                   *)
LEMMA QuietSave ==
  ASSUME RenewalInv, NEW p \in Process,
         handler[p].pc \notin {"idle", "persist", "reload", "expiry"},
         NEW h \in HandlerType, h = handler[p],
         NEW op \in OperationType, NEW patch \in Patch,
         NEW next \in Step \ {"persist", "verify_storage", "commit", "expiry"},
         SaveBoth(p, op, patch, next), faults' \in 0 .. MaxFaults,
         UNCHANGED <<now, workspace, operation, expired, requestVars, walletVars, outsideVars,
                     external>>,
         CopyFits(h.period, op), Follows(h.op, op), StepFits(next, op),
         PatchFits(h.period, h.op, op, patch)
  PROVE  RenewalInv'
<1>1. /\ handler' \in [Process -> HandlerType]
      /\ \A q \in Process \ {p} : handler'[q] = handler[q]
  BY SaveTyped
<1>2. TypeOK'
  BY <1>1 DEF RenewalInv, TypeOK, requestVars, walletVars, outsideVars
<1>3. Grows
  BY DEF RenewalInv, TypeOK, Grows, walletVars, outsideVars
<1>4. h.period \in Period
  BY DEF HandlerType
<1>5. CopyFits(h.period, op)'
  BY <1>2, <1>3, <1>4, CopyStaysFit DEF RenewalInv
<1>6. PatchFits(h.period, h.op, op, patch)'
  BY <1>2, <1>3, <1>4, GrantedStays DEF PatchFits, RenewalInv
<1>7. HandlerFits(p)'
  BY <1>2, <1>3, <1>5, <1>6, SaveStep
<1>8. QED
  BY <1>1, <1>7, QuietStep

LEMMA QuietGoto ==
  ASSUME RenewalInv, NEW p \in Process,
         handler[p].pc \notin {"idle", "persist", "reload"},
         NEW step \in Step \ {"persist", "verify_storage", "commit", "expiry"},
         Goto(p, step), step # "reload" => handler[p].pc # "expiry", StepFits(step, handler[p].op), faults' \in 0 .. MaxFaults,
         UNCHANGED <<now, workspace, operation, expired, requestVars, walletVars, outsideVars,
                     external>>
  PROVE  RenewalInv'
<1>1. /\ handler' \in [Process -> HandlerType]
      /\ \A q \in Process \ {p} : handler'[q] = handler[q]
  BY GotoTyped
<1>2. TypeOK'
  BY <1>1 DEF RenewalInv, TypeOK, requestVars, walletVars, outsideVars
<1>3. Grows
  BY DEF RenewalInv, TypeOK, Grows, walletVars, outsideVars
<1>4. HandlerFits(p)'
  BY <1>2, <1>3, GotoStep
<1>5. QED
  BY <1>1, <1>4, QuietStep

(* What every write of a copy that only releases the lease, or reviews it, *)
(* keeps.                                                                  *)
LEMMA RetryFits ==
  ASSUME NEW op \in OperationType, NEW k \in Period, CopyFits(k, op), op.status # "none",
         op.committed => Granted(k)
  PROVE  /\ Retry(op) \in OperationType /\ CopyFits(k, Retry(op)) /\ Follows(op, Retry(op))
         /\ PatchFits(k, op, Retry(op), "none")
<1> DEFINE new == Retry(op)
<1>1. new \in OperationType
  BY DEF Retry, OperationType
<1>2. /\ new.status = op.status /\ new.phase = op.phase /\ new.attempted = op.attempted
      /\ new.pre = op.pre /\ new.confirmed = op.confirmed
      /\ new.refundAttempted = op.refundAttempted
      /\ new.refundConfirmed = op.refundConfirmed /\ new.committed = op.committed
      /\ new.expiry = op.expiry /\ new.expiryPhase = op.expiryPhase
      /\ new.expiryPaid = op.expiryPaid /\ new.resolution = op.resolution
  BY DEF Retry, OperationType
<1>3. CopyFits(k, new)
  BY <1>1, <1>2 DEF CopyFits, MoneyFits, PhaseFits, PastRefund, ExpiryFits, IsTrue
<1>4. Follows(op, new)
  BY <1>2 DEF Follows, Preserves, PastRefund, Terminal, FinanciallyDone
<1>5. PatchFits(k, op, new, "none")
  BY <1>2 DEF PatchFits, ExpiryAdvances
<1>6. QED
  BY <1>1, <1>3, <1>4, <1>5

LEMMA ReviewFits ==
  ASSUME NEW op \in OperationType, NEW k \in Period, CopyFits(k, op),
         op.status \in {"claimed", "debit_pending", "provider_renewing", "verifying",
                        "refund_pending"},
         op.phase # "receipt"
  PROVE  /\ Review(op) \in OperationType /\ CopyFits(k, Review(op)) /\ Follows(op, Review(op))
         /\ PatchFits(k, op, Review(op), "none")
<1> DEFINE new == Review(op)
<1>1. new \in OperationType
  BY DEF Review, OperationType, Status
<1>2. /\ new.status = "manual_review" /\ new.phase = op.phase /\ new.attempted = op.attempted
      /\ new.pre = op.pre /\ new.confirmed = op.confirmed
      /\ new.refundAttempted = op.refundAttempted
      /\ new.refundConfirmed = op.refundConfirmed /\ new.committed = op.committed
      /\ new.expiry = op.expiry /\ new.expiryPhase = op.expiryPhase
      /\ new.expiryPaid = op.expiryPaid /\ new.resolution = op.resolution
  BY DEF Review, OperationType
<1>3. ~ op.committed
  BY DEF CopyFits, PhaseFits
<1>4. CopyFits(k, new)
  BY <1>1, <1>2, <1>3 DEF CopyFits, MoneyFits, PhaseFits, PastRefund, ExpiryFits, IsTrue
<1>5. Follows(op, new)
  BY <1>2, <1>3 DEF Follows, Preserves, PastRefund
<1>6. PatchFits(k, op, new, "none")
  BY <1>2, <1>3 DEF PatchFits, ExpiryAdvances
<1>7. QED
  BY <1>1, <1>4, <1>5, <1>6
(* What each write of a pass keeps.                                        *)
LEMMA PreflightFits ==
  ASSUME NEW op \in OperationType, NEW k \in Period, CopyFits(k, op), op.status # "none",
         op.status = "claimed"
  PROVE  LET new == [op EXCEPT !.phase = "preflight_storage"] IN
         /\ new \in OperationType /\ CopyFits(k, new) /\ Follows(op, new)
         /\ PatchFits(k, op, new, "none")
<1> DEFINE new == [op EXCEPT !.phase = "preflight_storage"]
<1>1. new \in OperationType
  BY DEF OperationType, Phase
<1>2. /\ new.status = op.status /\ new.phase = "preflight_storage"
      /\ new.attempted = op.attempted /\ new.pre = op.pre /\ new.confirmed = op.confirmed
      /\ new.refundAttempted = op.refundAttempted /\ new.refundConfirmed = op.refundConfirmed
      /\ new.committed = op.committed /\ new.expiry = op.expiry
      /\ new.expiryPhase = op.expiryPhase /\ new.expiryPaid = op.expiryPaid
      /\ new.resolution = op.resolution
  BY DEF OperationType
<1>3. ~ op.committed /\ ~ PastRefund(op) /\ ~ op.refundAttempted
  BY DEF CopyFits, MoneyFits, PhaseFits, PastRefund, ExpiryFits, IsTrue
<1>4. CopyFits(k, new)
  BY <1>1, <1>2, <1>3 DEF CopyFits, MoneyFits, PhaseFits, PastRefund, ExpiryFits, IsTrue
<1>5. Follows(op, new)
  BY <1>2, <1>3 DEF Follows, Preserves, PastRefund, Terminal, FinanciallyDone
<1>6. PatchFits(k, op, new, "none")
  BY <1>2, <1>3 DEF PatchFits, ExpiryAdvances
<1>7. QED
  BY <1>1, <1>4, <1>5, <1>6

LEMMA ToDebitFits ==
  ASSUME NEW op \in OperationType, NEW k \in Period, CopyFits(k, op), op.status # "none",
         op.status \in {"claimed", "insufficient"}
  PROVE  LET new == [op EXCEPT !.status = "debit_pending", !.phase = "debit"] IN
         /\ new \in OperationType /\ CopyFits(k, new) /\ Follows(op, new)
         /\ PatchFits(k, op, new, "none")
<1> DEFINE new == [op EXCEPT !.status = "debit_pending", !.phase = "debit"]
<1>1. new \in OperationType
  BY DEF OperationType, Status, Phase
<1>2. /\ new.status = "debit_pending" /\ new.phase = "debit" /\ new.attempted = op.attempted
      /\ new.pre = op.pre /\ new.confirmed = op.confirmed
      /\ new.refundAttempted = op.refundAttempted /\ new.refundConfirmed = op.refundConfirmed
      /\ new.committed = op.committed /\ new.expiry = op.expiry
      /\ new.expiryPhase = op.expiryPhase /\ new.expiryPaid = op.expiryPaid
      /\ new.resolution = op.resolution
  BY DEF OperationType
<1>3. ~ op.committed /\ ~ PastRefund(op) /\ ~ op.refundAttempted
  BY DEF CopyFits, MoneyFits, PhaseFits, PastRefund, ExpiryFits, IsTrue
<1>4. CopyFits(k, new)
  BY <1>1, <1>2, <1>3 DEF CopyFits, MoneyFits, PhaseFits, PastRefund, ExpiryFits, IsTrue
<1>5. Follows(op, new)
  BY <1>2, <1>3 DEF Follows, Preserves, PastRefund, Terminal, FinanciallyDone
<1>6. PatchFits(k, op, new, "none")
  BY <1>2, <1>3 DEF PatchFits, ExpiryAdvances
<1>7. QED
  BY <1>1, <1>4, <1>5, <1>6

LEMMA ToProviderFits ==
  ASSUME NEW op \in OperationType, NEW k \in Period, CopyFits(k, op), op.status # "none",
         op.status = "debited"
  PROVE  LET new == [op EXCEPT !.status = "provider_renewing",
                           !.phase = "provider_compute"] IN
         /\ new \in OperationType /\ CopyFits(k, new) /\ Follows(op, new)
         /\ PatchFits(k, op, new, "none")
<1> DEFINE new == [op EXCEPT !.status = "provider_renewing",
                          !.phase = "provider_compute"]
<1>1. new \in OperationType
  BY DEF OperationType, Status, Phase
<1>2. /\ new.status = "provider_renewing" /\ new.phase = "provider_compute"
      /\ new.attempted = op.attempted /\ new.pre = op.pre /\ new.confirmed = op.confirmed
      /\ new.refundAttempted = op.refundAttempted /\ new.refundConfirmed = op.refundConfirmed
      /\ new.committed = op.committed /\ new.expiry = op.expiry
      /\ new.expiryPhase = op.expiryPhase /\ new.expiryPaid = op.expiryPaid
      /\ new.resolution = op.resolution
  BY DEF OperationType
<1>3. ~ op.committed /\ ~ PastRefund(op) /\ ~ op.refundAttempted
  BY DEF CopyFits, MoneyFits, PhaseFits, PastRefund, ExpiryFits, IsTrue
<1>4. CopyFits(k, new)
  BY <1>1, <1>2, <1>3 DEF CopyFits, MoneyFits, PhaseFits, PastRefund, ExpiryFits, IsTrue
<1>5. Follows(op, new)
  BY <1>2, <1>3 DEF Follows, Preserves, PastRefund, Terminal, FinanciallyDone
<1>6. PatchFits(k, op, new, "none")
  BY <1>2, <1>3 DEF PatchFits, ExpiryAdvances
<1>7. QED
  BY <1>1, <1>4, <1>5, <1>6

LEMMA AttemptFits ==
  ASSUME NEW op \in OperationType, NEW k \in Period, CopyFits(k, op), op.status # "none",
         op.status = "debit_pending",
         ~ op.attempted,
         NEW before \in Nat
  PROVE  LET new == [op EXCEPT !.pre = before, !.attempted = TRUE] IN
         /\ new \in OperationType /\ CopyFits(k, new) /\ Follows(op, new)
         /\ PatchFits(k, op, new, "none")
<1> DEFINE new == [op EXCEPT !.pre = before, !.attempted = TRUE]
<1>1. new \in OperationType
  BY DEF OperationType
<1>2. /\ new.status = op.status /\ new.phase = op.phase /\ new.attempted /\ new.pre = before
      /\ new.confirmed = op.confirmed /\ new.refundAttempted = op.refundAttempted
      /\ new.refundConfirmed = op.refundConfirmed /\ new.committed = op.committed
      /\ new.expiry = op.expiry /\ new.expiryPhase = op.expiryPhase
      /\ new.expiryPaid = op.expiryPaid /\ new.resolution = op.resolution
  BY DEF OperationType
<1>3. ~ op.committed /\ ~ PastRefund(op) /\ ~ op.refundAttempted
  BY DEF CopyFits, MoneyFits, PhaseFits, PastRefund, ExpiryFits, IsTrue
<1>4. CopyFits(k, new)
  BY <1>1, <1>2, <1>3 DEF CopyFits, MoneyFits, PhaseFits, PastRefund, ExpiryFits, IsTrue
<1>5. Follows(op, new)
  BY <1>2, <1>3 DEF Follows, Preserves, PastRefund, Terminal, FinanciallyDone
<1>6. PatchFits(k, op, new, "none")
  BY <1>2, <1>3 DEF PatchFits, ExpiryAdvances
<1>7. QED
  BY <1>1, <1>4, <1>5, <1>6

LEMMA InsufficientFits ==
  ASSUME NEW op \in OperationType, NEW k \in Period, CopyFits(k, op), op.status # "none",
         op.status = "debit_pending",
         ~ op.attempted
  PROVE  LET new == [op EXCEPT !.status = "insufficient", !.lease = NoProcess] IN
         /\ new \in OperationType /\ CopyFits(k, new) /\ Follows(op, new)
         /\ PatchFits(k, op, new, "none")
<1> DEFINE new == [op EXCEPT !.status = "insufficient", !.lease = NoProcess]
<1>1. new \in OperationType
  BY DEF OperationType, Status
<1>2. /\ new.status = "insufficient" /\ new.phase = op.phase /\ new.attempted = op.attempted
      /\ new.pre = op.pre /\ new.confirmed = op.confirmed
      /\ new.refundAttempted = op.refundAttempted /\ new.refundConfirmed = op.refundConfirmed
      /\ new.committed = op.committed /\ new.expiry = op.expiry
      /\ new.expiryPhase = op.expiryPhase /\ new.expiryPaid = op.expiryPaid
      /\ new.resolution = op.resolution
  BY DEF OperationType
<1>3. ~ op.committed /\ ~ PastRefund(op) /\ ~ op.refundAttempted
  BY DEF CopyFits, MoneyFits, PhaseFits, PastRefund, ExpiryFits, IsTrue
<1>4. CopyFits(k, new)
  BY <1>1, <1>2, <1>3 DEF CopyFits, MoneyFits, PhaseFits, PastRefund, ExpiryFits, IsTrue
<1>5. Follows(op, new)
  BY <1>2, <1>3 DEF Follows, Preserves, PastRefund, Terminal, FinanciallyDone
<1>6. PatchFits(k, op, new, "none")
  BY <1>2, <1>3 DEF PatchFits, ExpiryAdvances
<1>7. QED
  BY <1>1, <1>4, <1>5, <1>6

LEMMA DebitedFits ==
  ASSUME NEW op \in OperationType, NEW k \in Period, CopyFits(k, op), op.status # "none",
         op.status = "debit_pending",
         op.confirmed,
         NEW after \in Nat
  PROVE  LET new == [op EXCEPT !.post = after,
                           !.status = "debited", !.phase = "provider_compute"] IN
         /\ new \in OperationType /\ CopyFits(k, new) /\ Follows(op, new)
         /\ PatchFits(k, op, new, "none")
<1> DEFINE new == [op EXCEPT !.post = after,
                          !.status = "debited", !.phase = "provider_compute"]
<1>1. new \in OperationType
  BY DEF OperationType, Status, Phase
<1>2. /\ new.status = "debited" /\ new.phase = "provider_compute"
      /\ new.attempted = op.attempted /\ new.pre = op.pre /\ new.confirmed = op.confirmed
      /\ new.refundAttempted = op.refundAttempted /\ new.refundConfirmed = op.refundConfirmed
      /\ new.committed = op.committed /\ new.expiry = op.expiry
      /\ new.expiryPhase = op.expiryPhase /\ new.expiryPaid = op.expiryPaid
      /\ new.resolution = op.resolution
  BY DEF OperationType
<1>3. ~ op.committed /\ ~ PastRefund(op) /\ ~ op.refundAttempted
  BY DEF CopyFits, MoneyFits, PhaseFits, PastRefund, ExpiryFits, IsTrue
<1>4. CopyFits(k, new)
  BY <1>1, <1>2, <1>3 DEF CopyFits, MoneyFits, PhaseFits, PastRefund, ExpiryFits, IsTrue
<1>5. Follows(op, new)
  BY <1>2, <1>3 DEF Follows, Preserves, PastRefund, Terminal, FinanciallyDone
<1>6. PatchFits(k, op, new, "none")
  BY <1>2, <1>3 DEF PatchFits, ExpiryAdvances
<1>7. QED
  BY <1>1, <1>4, <1>5, <1>6

LEMMA RenewComputeFits ==
  ASSUME NEW op \in OperationType, NEW k \in Period, CopyFits(k, op), op.status # "none",
         op.status = "provider_renewing",
         op.phase = "provider_compute"
  PROVE  LET new == [op EXCEPT !.phase = "verify_compute"] IN
         /\ new \in OperationType /\ CopyFits(k, new) /\ Follows(op, new)
         /\ PatchFits(k, op, new, "none")
<1> DEFINE new == [op EXCEPT !.phase = "verify_compute"]
<1>1. new \in OperationType
  BY DEF OperationType, Phase
<1>2. /\ new.status = op.status /\ new.phase = "verify_compute"
      /\ new.attempted = op.attempted /\ new.pre = op.pre /\ new.confirmed = op.confirmed
      /\ new.refundAttempted = op.refundAttempted /\ new.refundConfirmed = op.refundConfirmed
      /\ new.committed = op.committed /\ new.expiry = op.expiry
      /\ new.expiryPhase = op.expiryPhase /\ new.expiryPaid = op.expiryPaid
      /\ new.resolution = op.resolution
  BY DEF OperationType
<1>3. ~ op.committed /\ ~ PastRefund(op) /\ ~ op.refundAttempted
  BY DEF CopyFits, MoneyFits, PhaseFits, PastRefund, ExpiryFits, IsTrue
<1>4. CopyFits(k, new)
  BY <1>1, <1>2, <1>3 DEF CopyFits, MoneyFits, PhaseFits, PastRefund, ExpiryFits, IsTrue
<1>5. Follows(op, new)
  BY <1>2, <1>3 DEF Follows, Preserves, PastRefund, Terminal, FinanciallyDone
<1>6. PatchFits(k, op, new, "none")
  BY <1>2, <1>3 DEF PatchFits, ExpiryAdvances
<1>7. QED
  BY <1>1, <1>4, <1>5, <1>6

LEMMA RenewStorageFits ==
  ASSUME NEW op \in OperationType, NEW k \in Period, CopyFits(k, op), op.status # "none",
         op.status = "provider_renewing",
         op.phase = "provider_storage"
  PROVE  LET new == [op EXCEPT !.phase = "verify_storage"] IN
         /\ new \in OperationType /\ CopyFits(k, new) /\ Follows(op, new)
         /\ PatchFits(k, op, new, "none")
<1> DEFINE new == [op EXCEPT !.phase = "verify_storage"]
<1>1. new \in OperationType
  BY DEF OperationType, Phase
<1>2. /\ new.status = op.status /\ new.phase = "verify_storage"
      /\ new.attempted = op.attempted /\ new.pre = op.pre /\ new.confirmed = op.confirmed
      /\ new.refundAttempted = op.refundAttempted /\ new.refundConfirmed = op.refundConfirmed
      /\ new.committed = op.committed /\ new.expiry = op.expiry
      /\ new.expiryPhase = op.expiryPhase /\ new.expiryPaid = op.expiryPaid
      /\ new.resolution = op.resolution
  BY DEF OperationType
<1>3. ~ op.committed /\ PastRefund(op) /\ ~ op.refundAttempted
  BY DEF CopyFits, MoneyFits, PhaseFits, PastRefund, ExpiryFits, IsTrue
<1>4. CopyFits(k, new)
  BY <1>1, <1>2, <1>3 DEF CopyFits, MoneyFits, PhaseFits, PastRefund, ExpiryFits, IsTrue
<1>5. Follows(op, new)
  BY <1>2, <1>3 DEF Follows, Preserves, PastRefund, Terminal, FinanciallyDone
<1>6. PatchFits(k, op, new, "none")
  BY <1>2, <1>3 DEF PatchFits, ExpiryAdvances
<1>7. QED
  BY <1>1, <1>4, <1>5, <1>6

LEMMA MachineFits ==
  ASSUME NEW op \in OperationType, NEW k \in Period, CopyFits(k, op), op.status # "none",
         op.status = "provider_renewing",
         op.phase = "verify_compute"
  PROVE  LET new == [op EXCEPT !.phase = "provider_storage"] IN
         /\ new \in OperationType /\ CopyFits(k, new) /\ Follows(op, new)
         /\ PatchFits(k, op, new, "none")
<1> DEFINE new == [op EXCEPT !.phase = "provider_storage"]
<1>1. new \in OperationType
  BY DEF OperationType, Phase
<1>2. /\ new.status = op.status /\ new.phase = "provider_storage"
      /\ new.attempted = op.attempted /\ new.pre = op.pre /\ new.confirmed = op.confirmed
      /\ new.refundAttempted = op.refundAttempted /\ new.refundConfirmed = op.refundConfirmed
      /\ new.committed = op.committed /\ new.expiry = op.expiry
      /\ new.expiryPhase = op.expiryPhase /\ new.expiryPaid = op.expiryPaid
      /\ new.resolution = op.resolution
  BY DEF OperationType
<1>3. ~ op.committed /\ ~ PastRefund(op) /\ ~ op.refundAttempted
  BY DEF CopyFits, MoneyFits, PhaseFits, PastRefund, ExpiryFits, IsTrue
<1>4. CopyFits(k, new)
  BY <1>1, <1>2, <1>3 DEF CopyFits, MoneyFits, PhaseFits, PastRefund, ExpiryFits, IsTrue
<1>5. Follows(op, new)
  BY <1>2, <1>3 DEF Follows, Preserves, PastRefund, Terminal, FinanciallyDone
<1>6. PatchFits(k, op, new, "none")
  BY <1>2, <1>3 DEF PatchFits, ExpiryAdvances
<1>7. QED
  BY <1>1, <1>4, <1>5, <1>6

LEMMA DiskFits ==
  ASSUME NEW op \in OperationType, NEW k \in Period, CopyFits(k, op), op.status # "none",
         op.status = "provider_renewing",
         op.phase = "verify_storage"
  PROVE  LET new == [op EXCEPT !.status = "verifying", !.phase = "entitlement"] IN
         /\ new \in OperationType /\ CopyFits(k, new) /\ Follows(op, new)
         /\ PatchFits(k, op, new, "none")
<1> DEFINE new == [op EXCEPT !.status = "verifying", !.phase = "entitlement"]
<1>1. new \in OperationType
  BY DEF OperationType, Status, Phase
<1>2. /\ new.status = "verifying" /\ new.phase = "entitlement" /\ new.attempted = op.attempted
      /\ new.pre = op.pre /\ new.confirmed = op.confirmed
      /\ new.refundAttempted = op.refundAttempted /\ new.refundConfirmed = op.refundConfirmed
      /\ new.committed = op.committed /\ new.expiry = op.expiry
      /\ new.expiryPhase = op.expiryPhase /\ new.expiryPaid = op.expiryPaid
      /\ new.resolution = op.resolution
  BY DEF OperationType
<1>3. ~ op.committed /\ PastRefund(op) /\ ~ op.refundAttempted
  BY DEF CopyFits, MoneyFits, PhaseFits, PastRefund, ExpiryFits, IsTrue
<1>4. CopyFits(k, new)
  BY <1>1, <1>2, <1>3 DEF CopyFits, MoneyFits, PhaseFits, PastRefund, ExpiryFits, IsTrue
<1>5. Follows(op, new)
  BY <1>2, <1>3 DEF Follows, Preserves, PastRefund, Terminal, FinanciallyDone
<1>6. PatchFits(k, op, new, "none")
  BY <1>2, <1>3 DEF PatchFits, ExpiryAdvances
<1>7. QED
  BY <1>1, <1>4, <1>5, <1>6

LEMMA RefundFits ==
  ASSUME NEW op \in OperationType, NEW k \in Period, CopyFits(k, op), op.status # "none",
         op.status = "provider_renewing",
         op.phase = "verify_compute",
         ~ provider["compute"].alive
  PROVE  LET new == [op EXCEPT !.status = "refund_pending",
                           !.phase = "refund", !.refundAttempted = TRUE] IN
         /\ new \in OperationType /\ CopyFits(k, new) /\ Follows(op, new)
         /\ PatchFits(k, op, new, "none")
<1> DEFINE new == [op EXCEPT !.status = "refund_pending",
                          !.phase = "refund", !.refundAttempted = TRUE]
<1>1. new \in OperationType
  BY DEF OperationType, Status, Phase
<1>2. /\ new.status = "refund_pending" /\ new.phase = "refund" /\ new.attempted = op.attempted
      /\ new.pre = op.pre /\ new.confirmed = op.confirmed /\ new.refundAttempted
      /\ new.refundConfirmed = op.refundConfirmed /\ new.committed = op.committed
      /\ new.expiry = op.expiry /\ new.expiryPhase = op.expiryPhase
      /\ new.expiryPaid = op.expiryPaid /\ new.resolution = op.resolution
  BY DEF OperationType
<1>3. ~ op.committed /\ ~ PastRefund(op) /\ ~ op.refundAttempted /\ op.resolution = "none"
  BY DEF CopyFits, MoneyFits, PhaseFits, PastRefund, ExpiryFits, IsTrue
<1>4. CopyFits(k, new)
  BY <1>1, <1>2, <1>3 DEF CopyFits, MoneyFits, PhaseFits, PastRefund, ExpiryFits, IsTrue
<1>5. Follows(op, new)
  BY <1>2, <1>3 DEF Follows, Preserves, PastRefund, Terminal, FinanciallyDone
<1>6. PatchFits(k, op, new, "none")
  BY <1>2, <1>3 DEF PatchFits, ExpiryAdvances
<1>7. QED
  BY <1>1, <1>4, <1>5, <1>6

LEMMA RefundedFits ==
  ASSUME NEW op \in OperationType, NEW k \in Period, CopyFits(k, op), op.status # "none",
         op.status = "refunded"
  PROVE  LET new == [op EXCEPT !.phase = "complete", !.lease = NoProcess] IN
         /\ new \in OperationType /\ CopyFits(k, new) /\ Follows(op, new)
         /\ PatchFits(k, op, new, "none")
<1> DEFINE new == [op EXCEPT !.phase = "complete", !.lease = NoProcess]
<1>1. new \in OperationType
  BY DEF OperationType, Phase
<1>2. /\ new.status = op.status /\ new.phase = "complete" /\ new.attempted = op.attempted
      /\ new.pre = op.pre /\ new.confirmed = op.confirmed
      /\ new.refundAttempted = op.refundAttempted /\ new.refundConfirmed = op.refundConfirmed
      /\ new.committed = op.committed /\ new.expiry = op.expiry
      /\ new.expiryPhase = op.expiryPhase /\ new.expiryPaid = op.expiryPaid
      /\ new.resolution = op.resolution
  BY DEF OperationType
<1>3. ~ op.committed /\ ~ PastRefund(op)
  BY DEF CopyFits, MoneyFits, PhaseFits, PastRefund, ExpiryFits, IsTrue
<1>4. CopyFits(k, new)
  BY <1>1, <1>2, <1>3 DEF CopyFits, MoneyFits, PhaseFits, PastRefund, ExpiryFits, IsTrue
<1>5. Follows(op, new)
  BY <1>2, <1>3 DEF Follows, Preserves, PastRefund, Terminal, FinanciallyDone
<1>6. PatchFits(k, op, new, "none")
  BY <1>2, <1>3 DEF PatchFits, ExpiryAdvances
<1>7. QED
  BY <1>1, <1>4, <1>5, <1>6

LEMMA GrantFits ==
  ASSUME NEW op \in OperationType, NEW k \in Period, CopyFits(k, op), op.status # "none",
         op.status = "verifying",
         op.phase # "receipt",
         Granted(k),
         op.expiry # "past_due"
  PROVE  LET new == [op EXCEPT !.status = "verifying",
                           !.phase = "receipt", !.committed = TRUE] IN
         /\ new \in OperationType /\ CopyFits(k, new) /\ Follows(op, new)
         /\ PatchFits(k, op, new, "extend")
<1> DEFINE new == [op EXCEPT !.status = "verifying",
                          !.phase = "receipt", !.committed = TRUE]
<1>1. new \in OperationType
  BY DEF OperationType, Status, Phase
<1>2. /\ new.status = "verifying" /\ new.phase = "receipt" /\ new.attempted = op.attempted
      /\ new.pre = op.pre /\ new.confirmed = op.confirmed
      /\ new.refundAttempted = op.refundAttempted /\ new.refundConfirmed = op.refundConfirmed
      /\ new.committed /\ new.expiry = op.expiry /\ new.expiryPhase = op.expiryPhase
      /\ new.expiryPaid = op.expiryPaid /\ new.resolution = op.resolution
  BY DEF OperationType
<1>3. ~ op.committed /\ ~ op.refundAttempted
  BY DEF CopyFits, MoneyFits, PhaseFits, PastRefund, ExpiryFits, IsTrue
<1>4. CopyFits(k, new)
  BY <1>1, <1>2, <1>3 DEF CopyFits, MoneyFits, PhaseFits, PastRefund, ExpiryFits, IsTrue
<1>5. Follows(op, new)
  BY <1>2, <1>3 DEF Follows, Preserves, PastRefund, Terminal, FinanciallyDone
<1>6. PatchFits(k, op, new, "extend")
  BY <1>2, <1>3 DEF PatchFits, ExpiryAdvances
<1>7. QED
  BY <1>1, <1>4, <1>5, <1>6

LEMMA LateGrantFits ==
  ASSUME NEW op \in OperationType, NEW k \in Period, CopyFits(k, op), op.status # "none",
         op.status = "verifying",
         op.phase # "receipt",
         Granted(k),
         op.expiry = "past_due"
  PROVE  LET new == [op EXCEPT !.status = "verifying", !.phase = "receipt", !.committed = TRUE,
                           !.expiry = "none", !.expiryPhase = "none", !.expiryPaid = 0] IN
         /\ new \in OperationType /\ CopyFits(k, new) /\ Follows(op, new)
         /\ PatchFits(k, op, new, "extend_running")
<1> DEFINE new == [op EXCEPT !.status = "verifying", !.phase = "receipt", !.committed = TRUE,
                          !.expiry = "none", !.expiryPhase = "none", !.expiryPaid = 0]
<1>1. new \in OperationType
  BY DEF OperationType, Status, Phase, ExpiryStatus, ExpiryPhase
<1>2. /\ new.status = "verifying" /\ new.phase = "receipt" /\ new.attempted = op.attempted
      /\ new.pre = op.pre /\ new.confirmed = op.confirmed
      /\ new.refundAttempted = op.refundAttempted /\ new.refundConfirmed = op.refundConfirmed
      /\ new.committed /\ new.expiry = "none" /\ new.expiryPhase = "none"
      /\ new.expiryPaid = 0 /\ new.resolution = op.resolution
  BY DEF OperationType
<1>3. ~ op.committed /\ ~ op.refundAttempted
  BY DEF CopyFits, MoneyFits, PhaseFits, PastRefund, ExpiryFits, IsTrue
<1>4. CopyFits(k, new)
  BY <1>1, <1>2, <1>3 DEF CopyFits, MoneyFits, PhaseFits, PastRefund, ExpiryFits, IsTrue
<1>5. Follows(op, new)
  BY <1>2, <1>3 DEF Follows, Preserves, PastRefund, Terminal, FinanciallyDone
<1>6. PatchFits(k, op, new, "extend_running")
  BY <1>2, <1>3 DEF PatchFits, ExpiryAdvances
<1>7. QED
  BY <1>1, <1>4, <1>5, <1>6

LEMMA ActiveFits ==
  ASSUME NEW op \in OperationType, NEW k \in Period, CopyFits(k, op), op.status # "none",
         op.status = "verifying",
         op.phase = "receipt",
         op.committed => Granted(k)
  PROVE  LET new == [op EXCEPT !.status = "active",
                           !.phase = "complete", !.lease = NoProcess] IN
         /\ new \in OperationType /\ CopyFits(k, new) /\ Follows(op, new)
         /\ PatchFits(k, op, new, "none")
<1> DEFINE new == [op EXCEPT !.status = "active",
                          !.phase = "complete", !.lease = NoProcess]
<1>1. new \in OperationType
  BY DEF OperationType, Status, Phase
<1>2. /\ new.status = "active" /\ new.phase = "complete" /\ new.attempted = op.attempted
      /\ new.pre = op.pre /\ new.confirmed = op.confirmed
      /\ new.refundAttempted = op.refundAttempted /\ new.refundConfirmed = op.refundConfirmed
      /\ new.committed = op.committed /\ new.expiry = op.expiry
      /\ new.expiryPhase = op.expiryPhase /\ new.expiryPaid = op.expiryPaid
      /\ new.resolution = op.resolution
  BY DEF OperationType
<1>3. op.committed /\ ~ op.refundAttempted
  BY DEF CopyFits, MoneyFits, PhaseFits, PastRefund, ExpiryFits, IsTrue
<1>4. CopyFits(k, new)
  BY <1>1, <1>2, <1>3 DEF CopyFits, MoneyFits, PhaseFits, PastRefund, ExpiryFits, IsTrue
<1>5. Follows(op, new)
  BY <1>2, <1>3 DEF Follows, Preserves, PastRefund, Terminal, FinanciallyDone
<1>6. PatchFits(k, op, new, "none")
  BY <1>2, <1>3 DEF PatchFits, ExpiryAdvances
<1>7. QED
  BY <1>1, <1>4, <1>5, <1>6

LEMMA SuspendFits ==
  ASSUME NEW op \in OperationType, NEW k \in Period, CopyFits(k, op), op.status # "none",
         op.expiry = "past_due"
  PROVE  LET new == [op EXCEPT !.expiryPhase = "financial"] IN
         /\ new \in OperationType /\ CopyFits(k, new) /\ Follows(op, new)
         /\ PatchFits(k, op, new, "suspend")
<1> DEFINE new == [op EXCEPT !.expiryPhase = "financial"]
<1>1. new \in OperationType
  BY DEF OperationType, ExpiryPhase
<1>2. /\ new.status = op.status /\ new.phase = op.phase /\ new.attempted = op.attempted
      /\ new.pre = op.pre /\ new.confirmed = op.confirmed
      /\ new.refundAttempted = op.refundAttempted /\ new.refundConfirmed = op.refundConfirmed
      /\ new.committed = op.committed /\ new.expiry = op.expiry
      /\ new.expiryPhase = "financial" /\ new.expiryPaid = op.expiryPaid
      /\ new.resolution = op.resolution
  BY DEF OperationType
<1>3. /\ ~ op.committed /\ op.status # "expired_unpaid"
      /\ op.expiryPhase \in {"suspend", "financial"}
  BY DEF CopyFits, MoneyFits, PhaseFits, PastRefund, ExpiryFits, IsTrue
<1>4. CopyFits(k, new)
  BY <1>1, <1>2, <1>3 DEF CopyFits, MoneyFits, PhaseFits, PastRefund, ExpiryFits, IsTrue
<1>5. Follows(op, new)
  BY <1>2, <1>3 DEF Follows, Preserves, PastRefund, Terminal, FinanciallyDone
<1>6. PatchFits(k, op, new, "suspend")
  BY <1>2, <1>3 DEF PatchFits, ExpiryAdvances
<1>7. QED
  BY <1>1, <1>4, <1>5, <1>6

LEMMA EndFits ==
  ASSUME NEW op \in OperationType, NEW k \in Period, CopyFits(k, op), op.status # "none",
         op.expiry = "expired_unpaid",
         op.expiryPhase = "suspend",
         op.committed => Granted(k)
  PROVE  LET new == [op EXCEPT !.expiryPhase = "receipt"] IN
         /\ new \in OperationType /\ CopyFits(k, new) /\ Follows(op, new)
         /\ PatchFits(k, op, new, "suspend_cancel")
<1> DEFINE new == [op EXCEPT !.expiryPhase = "receipt"]
<1>1. new \in OperationType
  BY DEF OperationType, ExpiryPhase
<1>2. /\ new.status = op.status /\ new.phase = op.phase /\ new.attempted = op.attempted
      /\ new.pre = op.pre /\ new.confirmed = op.confirmed
      /\ new.refundAttempted = op.refundAttempted /\ new.refundConfirmed = op.refundConfirmed
      /\ new.committed = op.committed /\ new.expiry = op.expiry /\ new.expiryPhase = "receipt"
      /\ new.expiryPaid = op.expiryPaid /\ new.resolution = op.resolution
  BY DEF OperationType
<1>3. CopyFits(k, new)
  BY <1>1, <1>2 DEF CopyFits, MoneyFits, PhaseFits, PastRefund, ExpiryFits, IsTrue
<1>4. Follows(op, new)
  BY <1>2 DEF Follows, Preserves, PastRefund, Terminal, FinanciallyDone
<1>5. PatchFits(k, op, new, "suspend_cancel")
  BY <1>2 DEF PatchFits, ExpiryAdvances
<1>6. QED
  BY <1>1, <1>3, <1>4, <1>5

LEMMA CloseFits ==
  ASSUME NEW op \in OperationType, NEW k \in Period, CopyFits(k, op), op.status # "none",
         op.expiryPhase = "financial",
         op.status \in {"refunded", "expired_unpaid"}
  PROVE  LET new == [op EXCEPT !.expiry = "expired_unpaid", !.expiryPhase = "receipt"] IN
         /\ new \in OperationType /\ CopyFits(k, new) /\ Follows(op, new)
         /\ PatchFits(k, op, new, "cancel")
<1> DEFINE new == [op EXCEPT !.expiry = "expired_unpaid", !.expiryPhase = "receipt"]
<1>1. new \in OperationType
  BY DEF OperationType, ExpiryStatus, ExpiryPhase
<1>2. /\ new.status = op.status /\ new.phase = op.phase /\ new.attempted = op.attempted
      /\ new.pre = op.pre /\ new.confirmed = op.confirmed
      /\ new.refundAttempted = op.refundAttempted /\ new.refundConfirmed = op.refundConfirmed
      /\ new.committed = op.committed /\ new.expiry = "expired_unpaid"
      /\ new.expiryPhase = "receipt" /\ new.expiryPaid = op.expiryPaid
      /\ new.resolution = op.resolution
  BY DEF OperationType
<1>3. ~ op.committed /\ op.expiry = "past_due" /\ op.status = "refunded"
  BY DEF CopyFits, MoneyFits, PhaseFits, PastRefund, ExpiryFits, IsTrue, OperationType, ExpiryStatus
<1>4. CopyFits(k, new)
  BY <1>1, <1>2, <1>3 DEF CopyFits, MoneyFits, PhaseFits, PastRefund, ExpiryFits, IsTrue
<1>5. Follows(op, new)
  BY <1>2, <1>3 DEF Follows, Preserves, PastRefund, Terminal, FinanciallyDone
<1>6. PatchFits(k, op, new, "cancel")
  BY <1>2, <1>3 DEF PatchFits, ExpiryAdvances
<1>7. QED
  BY <1>1, <1>4, <1>5, <1>6

LEMMA ReceiptedFits ==
  ASSUME NEW op \in OperationType, NEW k \in Period, CopyFits(k, op), op.status # "none",
         op.expiry = "expired_unpaid",
         op.expiryPhase = "receipt",
         op.committed => Granted(k)
  PROVE  LET new == [op EXCEPT !.expiryPhase = "complete", !.lease = NoProcess] IN
         /\ new \in OperationType /\ CopyFits(k, new) /\ Follows(op, new)
         /\ PatchFits(k, op, new, "none")
<1> DEFINE new == [op EXCEPT !.expiryPhase = "complete", !.lease = NoProcess]
<1>1. new \in OperationType
  BY DEF OperationType, ExpiryPhase
<1>2. /\ new.status = op.status /\ new.phase = op.phase /\ new.attempted = op.attempted
      /\ new.pre = op.pre /\ new.confirmed = op.confirmed
      /\ new.refundAttempted = op.refundAttempted /\ new.refundConfirmed = op.refundConfirmed
      /\ new.committed = op.committed /\ new.expiry = op.expiry
      /\ new.expiryPhase = "complete" /\ new.expiryPaid = op.expiryPaid
      /\ new.resolution = op.resolution
  BY DEF OperationType
<1>3. CopyFits(k, new)
  BY <1>1, <1>2 DEF CopyFits, MoneyFits, PhaseFits, PastRefund, ExpiryFits, IsTrue
<1>4. Follows(op, new)
  BY <1>2 DEF Follows, Preserves, PastRefund, Terminal, FinanciallyDone
<1>5. PatchFits(k, op, new, "none")
  BY <1>2 DEF PatchFits, ExpiryAdvances
<1>6. QED
  BY <1>1, <1>3, <1>4, <1>5

LEMMA ResolveFits ==
  ASSUME NEW op \in OperationType, NEW k \in Period, CopyFits(k, op), op.status # "none",
         op.status = "manual_review",
         NEW next \in {"verify_compute", "verify_storage"},
         op.refundAttempted => next = "verify_compute"
  PROVE  LET new == [op EXCEPT !.resolution = next] IN
         /\ new \in OperationType /\ CopyFits(k, new) /\ Follows(op, new)
         /\ PatchFits(k, op, new, "none")
<1> DEFINE new == [op EXCEPT !.resolution = next]
<1>1. new \in OperationType
  BY DEF OperationType, Resolution
<1>2. /\ new.status = op.status /\ new.phase = op.phase /\ new.attempted = op.attempted
      /\ new.pre = op.pre /\ new.confirmed = op.confirmed
      /\ new.refundAttempted = op.refundAttempted /\ new.refundConfirmed = op.refundConfirmed
      /\ new.committed = op.committed /\ new.expiry = op.expiry
      /\ new.expiryPhase = op.expiryPhase /\ new.expiryPaid = op.expiryPaid
      /\ new.resolution = next
  BY DEF OperationType
<1>3. ~ op.committed
  BY DEF CopyFits, MoneyFits, PhaseFits, PastRefund, ExpiryFits, IsTrue
<1>4. CopyFits(k, new)
  BY <1>1, <1>2, <1>3 DEF CopyFits, MoneyFits, PhaseFits, PastRefund, ExpiryFits, IsTrue
<1>5. Follows(op, new)
  BY <1>2, <1>3 DEF Follows, Preserves, PastRefund, Terminal, FinanciallyDone
<1>6. PatchFits(k, op, new, "none")
  BY <1>2, <1>3 DEF PatchFits, ExpiryAdvances
<1>7. QED
  BY <1>1, <1>4, <1>5, <1>6

LEMMA ResolvedFits ==
  ASSUME NEW op \in OperationType, NEW k \in Period, CopyFits(k, op), op.status # "none",
         op.status = "manual_review",
         op.confirmed,
         ~ op.refundAttempted
  PROVE  LET new == [op EXCEPT !.status = "verifying",
                           !.phase = "entitlement", !.resolution = "entitlement"] IN
         /\ new \in OperationType /\ CopyFits(k, new) /\ Follows(op, new)
         /\ PatchFits(k, op, new, "none")
<1> DEFINE new == [op EXCEPT !.status = "verifying",
                          !.phase = "entitlement", !.resolution = "entitlement"]
<1>1. new \in OperationType
  BY DEF OperationType, Status, Phase, Resolution
<1>2. /\ new.status = "verifying" /\ new.phase = "entitlement" /\ new.attempted = op.attempted
      /\ new.pre = op.pre /\ new.confirmed = op.confirmed
      /\ new.refundAttempted = op.refundAttempted /\ new.refundConfirmed = op.refundConfirmed
      /\ new.committed = op.committed /\ new.expiry = op.expiry
      /\ new.expiryPhase = op.expiryPhase /\ new.expiryPaid = op.expiryPaid
      /\ new.resolution = "entitlement"
  BY DEF OperationType
<1>3. ~ op.committed
  BY DEF CopyFits, MoneyFits, PhaseFits, PastRefund, ExpiryFits, IsTrue
<1>4. CopyFits(k, new)
  BY <1>1, <1>2, <1>3 DEF CopyFits, MoneyFits, PhaseFits, PastRefund, ExpiryFits, IsTrue
<1>5. Follows(op, new)
  BY <1>2, <1>3 DEF Follows, Preserves, PastRefund, Terminal, FinanciallyDone
<1>6. PatchFits(k, op, new, "none")
  BY <1>2, <1>3 DEF PatchFits, ExpiryAdvances
<1>7. QED
  BY <1>1, <1>4, <1>5, <1>6

LEMMA CompletedFits ==
  ASSUME NEW op \in OperationType, NEW k \in Period, CopyFits(k, op), op.status # "none",
         op.status = "active",
         op.committed => Granted(k)
  PROVE  LET new == [op EXCEPT !.resolution = "completed"] IN
         /\ new \in OperationType /\ CopyFits(k, new) /\ Follows(op, new)
         /\ PatchFits(k, op, new, "none")
<1> DEFINE new == [op EXCEPT !.resolution = "completed"]
<1>1. new \in OperationType
  BY DEF OperationType, Resolution
<1>2. /\ new.status = op.status /\ new.phase = op.phase /\ new.attempted = op.attempted
      /\ new.pre = op.pre /\ new.confirmed = op.confirmed
      /\ new.refundAttempted = op.refundAttempted /\ new.refundConfirmed = op.refundConfirmed
      /\ new.committed = op.committed /\ new.expiry = op.expiry
      /\ new.expiryPhase = op.expiryPhase /\ new.expiryPaid = op.expiryPaid
      /\ new.resolution = "completed"
  BY DEF OperationType
<1>3. op.committed /\ ~ op.refundAttempted
  BY DEF CopyFits, MoneyFits, PhaseFits, PastRefund, ExpiryFits, IsTrue
<1>4. CopyFits(k, new)
  BY <1>1, <1>2, <1>3 DEF CopyFits, MoneyFits, PhaseFits, PastRefund, ExpiryFits, IsTrue
<1>5. Follows(op, new)
  BY <1>2, <1>3 DEF Follows, Preserves, PastRefund, Terminal, FinanciallyDone
<1>6. PatchFits(k, op, new, "none")
  BY <1>2, <1>3 DEF PatchFits, ExpiryAdvances
<1>7. QED
  BY <1>1, <1>4, <1>5, <1>6

LEMMA UnreceiptedFits ==
  ASSUME NEW op \in OperationType, NEW k \in Period, CopyFits(k, op), op.status # "none",
         op.phase = "receipt",
         op.committed => Granted(k)
  PROVE  LET new == [op EXCEPT !.resolution = "receipt"] IN
         /\ new \in OperationType /\ CopyFits(k, new) /\ Follows(op, new)
         /\ PatchFits(k, op, new, "none")
<1> DEFINE new == [op EXCEPT !.resolution = "receipt"]
<1>1. new \in OperationType
  BY DEF OperationType, Resolution
<1>2. /\ new.status = op.status /\ new.phase = op.phase /\ new.attempted = op.attempted
      /\ new.pre = op.pre /\ new.confirmed = op.confirmed
      /\ new.refundAttempted = op.refundAttempted /\ new.refundConfirmed = op.refundConfirmed
      /\ new.committed = op.committed /\ new.expiry = op.expiry
      /\ new.expiryPhase = op.expiryPhase /\ new.expiryPaid = op.expiryPaid
      /\ new.resolution = "receipt"
  BY DEF OperationType
<1>3. op.committed /\ ~ op.refundAttempted /\ op.status = "verifying"
  BY DEF CopyFits, MoneyFits, PhaseFits, PastRefund, ExpiryFits, IsTrue
<1>4. CopyFits(k, new)
  BY <1>1, <1>2, <1>3 DEF CopyFits, MoneyFits, PhaseFits, PastRefund, ExpiryFits, IsTrue
<1>5. Follows(op, new)
  BY <1>2, <1>3 DEF Follows, Preserves, PastRefund, Terminal, FinanciallyDone
<1>6. PatchFits(k, op, new, "none")
  BY <1>2, <1>3 DEF PatchFits, ExpiryAdvances
<1>7. QED
  BY <1>1, <1>4, <1>5, <1>6


(* What the answer to a charge or a refund confirms is in the wallet.      *)
LEMMA ConfirmFits ==
  ASSUME NEW op \in OperationType, NEW k \in Period, CopyFits(k, op),
         op.status = "debit_pending", op.attempted, UNCHANGED <<now, provider, refunded>>
  PROVE  LET new == [op EXCEPT !.confirmed = TRUE] IN
         /\ new \in OperationType /\ Follows(op, new) /\ PatchFits(k, op, new, "none")
         /\ k \in charged => CopyFits(k, new)
         /\ k \in charged' => CopyFits(k, new)'
<1> DEFINE new == [op EXCEPT !.confirmed = TRUE]
<1>1. new \in OperationType
  BY DEF OperationType
<1>2. /\ new.status = op.status /\ new.phase = op.phase /\ new.attempted = op.attempted
      /\ new.pre = op.pre /\ new.confirmed /\ new.refundAttempted = op.refundAttempted
      /\ new.refundConfirmed = op.refundConfirmed /\ new.committed = op.committed
      /\ new.expiry = op.expiry /\ new.expiryPhase = op.expiryPhase
      /\ new.expiryPaid = op.expiryPaid /\ new.resolution = op.resolution
  BY DEF OperationType
<1>3. ~ op.committed /\ ~ PastRefund(op) /\ ~ op.refundAttempted
  BY DEF CopyFits, MoneyFits, PhaseFits, PastRefund
<1>4. (k \in charged => CopyFits(k, new)) /\ (k \in charged' => CopyFits(k, new)')
  BY <1>1, <1>2, <1>3 DEF CopyFits, MoneyFits, PhaseFits, PastRefund, ExpiryFits, IsTrue
<1>5. Follows(op, new)
  BY <1>2, <1>3 DEF Follows, Preserves, PastRefund
<1>6. PatchFits(k, op, new, "none")
  BY <1>2, <1>3 DEF PatchFits, ExpiryAdvances
<1>7. QED
  BY <1>1, <1>4, <1>5, <1>6

LEMMA ReturnedFits ==
  ASSUME NEW op \in OperationType, NEW k \in Period, CopyFits(k, op),
         op.status = "refund_pending", UNCHANGED <<now, provider, charged>>
  PROVE  /\ Refunded(op) \in OperationType /\ Follows(op, Refunded(op))
         /\ PatchFits(k, op, Refunded(op), "none")
         /\ k \in refunded => CopyFits(k, Refunded(op))
         /\ k \in refunded' => CopyFits(k, Refunded(op))'
<1> DEFINE new == Refunded(op)
<1>1. new \in OperationType
  BY DEF Refunded, OperationType, Status, Phase
<1>2. /\ new.status = "refunded" /\ new.phase = "refund_receipt"
      /\ new.attempted = op.attempted /\ new.pre = op.pre /\ new.confirmed = op.confirmed
      /\ new.refundAttempted = op.refundAttempted /\ new.refundConfirmed
      /\ new.committed = op.committed /\ new.expiry = op.expiry
      /\ new.expiryPhase = op.expiryPhase /\ new.expiryPaid = op.expiryPaid
      /\ new.resolution = op.resolution
  BY DEF Refunded, OperationType
<1>3. ~ op.committed /\ ~ PastRefund(op) /\ op.refundAttempted
  BY DEF CopyFits, MoneyFits, PhaseFits, PastRefund
<1>4. (k \in refunded => CopyFits(k, new)) /\ (k \in refunded' => CopyFits(k, new)')
  BY <1>1, <1>2, <1>3 DEF CopyFits, MoneyFits, PhaseFits, PastRefund, ExpiryFits, IsTrue
<1>5. Follows(op, new)
  BY <1>2, <1>3 DEF Follows, Preserves, PastRefund
<1>6. PatchFits(k, op, new, "none")
  BY <1>2, <1>3 DEF PatchFits, ExpiryAdvances
<1>7. QED
  BY <1>1, <1>4, <1>5, <1>6

(* What the calls do to the wallet and to the provider.                    *)
LEMMA ChargeCodeUsed ==
  ASSUME RenewalInv, NEW k \in Period, UseChargeCode(k)
  PROVE  /\ balance' \in Nat /\ charged' = charged \cup {k} /\ refunded' = refunded
BY DEF RenewalInv, TypeOK, UseChargeCode, walletVars

LEMMA RefundCodeUsed ==
  ASSUME RenewalInv, NEW k \in Period, UseRefundCode(k)
  PROVE  /\ balance' \in Nat /\ refunded' = refunded \cup {k} /\ charged' = charged
BY DEF RenewalInv, TypeOK, UseRefundCode, walletVars

ResourceType ==
  [alive : BOOLEAN, deadline : Nat, known : Nat, marked : BOOLEAN, done : SUBSET Period]

(* Deadlines are only extended, and machines only end.                     *)
ProviderGrows ==
  /\ provider' \in [Resource -> ResourceType]
  /\ \A r \in Resource : /\ provider[r].deadline <= provider'[r].deadline
                         /\ provider'[r].alive = provider[r].alive

LEMMA RenewGrows ==
  ASSUME RenewalInv, NEW r \in Resource, NEW k \in Period,
         FabricRenew(r, k) \/ UnrecordedRenew(r, k)
  PROVE  /\ ProviderGrows
         /\ \A q \in Resource : provider'[q].done \subseteq
              provider[q].done \cup {j \in {k} : q = r}
<1> PICK at \in ResourceType : at = provider[r]
  BY DEF RenewalInv, TypeOK, ResourceType
<1>1. provider \in [Resource -> ResourceType]
  BY DEF RenewalInv, TypeOK, ResourceType
<1>2. CASE FabricRenew(r, k)
  <2>1. ProviderRenew(at) \in Nat /\ at.deadline <= ProviderRenew(at)
    BY DEF ProviderRenew, ResourceType
  <2> DEFINE new == [at EXCEPT !.deadline = ProviderRenew(at), !.known = ProviderRenew(at),
                               !.marked = TRUE, !.done = @ \cup {k}]
  <2>2. /\ new \in ResourceType
        /\ new.deadline = ProviderRenew(at) /\ new.alive = at.alive
        /\ new.done = at.done \cup {k}
    BY <2>1 DEF ResourceType
  <2>3. provider' = provider \/ provider' = [provider EXCEPT ![r] = new]
    BY <1>1, <1>2 DEF FabricRenew
  <2> HIDE DEF new
  <2>4. /\ provider' \in [Resource -> ResourceType]
        /\ \A q \in Resource : provider'[q] = provider[q] \/ (q = r /\ provider'[q] = new)
    BY <1>1, <2>2, <2>3
  <2>5. \A q \in Resource : provider[q].deadline \in Nat
    BY <1>1 DEF ResourceType
  <2>6. QED
    BY <2>1, <2>2, <2>4, <2>5 DEF ProviderGrows
<1>3. CASE UnrecordedRenew(r, k)
  <2> DEFINE new == [at EXCEPT !.deadline = @ + 1]
  <2>1. /\ new \in ResourceType
        /\ new.deadline = at.deadline + 1 /\ new.alive = at.alive /\ new.done = at.done
    BY DEF ResourceType
  <2>2. provider' = [provider EXCEPT ![r] = new]
    BY <1>1, <1>3 DEF UnrecordedRenew
  <2> HIDE DEF new
  <2>3. /\ provider' \in [Resource -> ResourceType]
        /\ \A q \in Resource : provider'[q] = provider[q] \/ (q = r /\ provider'[q] = new)
    BY <1>1, <2>1, <2>2
  <2>4. \A q \in Resource : provider[q].deadline \in Nat
    BY <1>1 DEF ResourceType
  <2>5. QED
    BY <2>1, <2>3, <2>4 DEF ProviderGrows
<1>4. QED
  BY <1>2, <1>3

LEMMA SyncGrows ==
  ASSUME RenewalInv, NEW r \in Resource, FabricSync(r) \/ UNCHANGED provider
  PROVE  /\ ProviderGrows
         /\ \A q \in Resource : /\ provider'[q].done = provider[q].done
                                /\ provider'[q].deadline = provider[q].deadline
<1>1. provider \in [Resource -> ResourceType]
  BY DEF RenewalInv, TypeOK, ResourceType
<1>2. QED
  BY <1>1 DEF FabricSync, ResourceType, ProviderGrows

OutsideTyped ==
  /\ balance \in Nat /\ charged \subseteq Period /\ refunded \subseteq Period
  /\ provider \in [Resource -> ResourceType] /\ rowGone \subseteq Resource
  /\ receipts \subseteq
       Period \X {"renewed", "refunded", "expired"} \X (0 .. (LastPeriod + 1))
  /\ inFlight \subseteq Period \X ({"charge", "refund"} \cup Resource)
  /\ faults \in 0 .. MaxFaults

(* A call changes the world, never against what the rows say of it.        *)
WorldMoves ==
  /\ OutsideTyped'
  /\ charged \subseteq charged' /\ refunded \subseteq refunded'
  /\ \A r \in Resource : /\ provider[r].deadline <= provider'[r].deadline
                         /\ provider'[r].alive => provider[r].alive
  /\ \A k \in Period : EffectsFit(k)'
  /\ \A r \in rowGone' : ~ provider'[r].alive
  /\ receipts' = receipts \/ (ReceiptsTrue' /\ \A e \in receipts' : ReceiptFits(e)')

LEMMA WorldTyped ==
  ASSUME RenewalInv, WorldMoves, handler' \in [Process -> HandlerType],
         UNCHANGED <<now, workspace, operation, expired, requestVars, external>>
  PROVE  TypeOK' /\ Grows
<1>1. TypeOK'
  BY DEF RenewalInv, TypeOK, WorldMoves, OutsideTyped, ResourceType, requestVars
<1>2. Grows
  BY DEF RenewalInv, TypeOK, WorldMoves, Grows
<1>3. QED
  BY <1>1, <1>2

LEMMA WorldSave ==
  ASSUME RenewalInv, WorldMoves, NEW p \in Process,
         handler[p].pc \notin {"idle", "persist", "reload", "expiry"},
         NEW h \in HandlerType, h = handler[p],
         NEW op \in OperationType, NEW patch \in Patch,
         NEW next \in Step \ {"persist", "verify_storage", "commit", "expiry"},
         SaveBoth(p, op, patch, next),
         UNCHANGED <<now, workspace, operation, expired, requestVars, external>>,
         CopyFits(h.period, op) \/ CopyFits(h.period, op)', Follows(h.op, op), StepFits(next, op),
         PatchFits(h.period, h.op, op, patch)
  PROVE  RenewalInv'
<1>1. /\ handler' \in [Process -> HandlerType]
      /\ \A q \in Process \ {p} : handler'[q] = handler[q]
  BY SaveTyped
<1>2. TypeOK' /\ Grows
  BY <1>1, WorldTyped
<1>3. h.period \in Period
  BY DEF HandlerType
<1>4. CopyFits(h.period, op)'
  BY <1>2, <1>3, CopyStaysFit DEF RenewalInv
<1>5. PatchFits(h.period, h.op, op, patch)'
  BY <1>2, <1>3, GrantedStays DEF PatchFits, RenewalInv
<1>6. HandlerFits(p)'
  BY <1>2, <1>4, <1>5, SaveStep
<1>7. QED
  BY <1>1, <1>2, <1>6, OnlyHandlerMoves DEF WorldMoves

LEMMA WorldGoto ==
  ASSUME RenewalInv, WorldMoves, NEW p \in Process,
         handler[p].pc \notin {"idle", "persist", "reload"}, NEW step \in Step,
         Goto(p, step), step # "persist",
         step # "reload" => (step = "expiry" <=> handler[p].pc = "expiry"),
         StepFits(step, handler[p].op),
         step = "verify_storage" => provider'["compute"].deadline > handler[p].period,
         step = "commit" => \A q \in Resource : provider'[q].deadline > handler[p].period,
         UNCHANGED <<now, workspace, operation, expired, requestVars, external>>
  PROVE  RenewalInv'
<1>1. /\ handler' \in [Process -> HandlerType]
      /\ \A q \in Process \ {p} : handler'[q] = handler[q]
  BY GotoTyped
<1>2. TypeOK' /\ Grows
  BY <1>1, WorldTyped
<1>3. handler'[p].period = handler[p].period
  BY <1>1 DEF Goto, RenewalInv, TypeOK, HandlerType
<1>4. step = "commit" => Granted(handler[p].period)'
  BY <1>3 DEF Granted
<1>5. HandlerFits(p)'
  BY <1>2, <1>4, GotoStep
<1>6. QED
  BY <1>1, <1>2, <1>5, OnlyHandlerMoves DEF WorldMoves

LEMMA WorldReturn ==
  ASSUME RenewalInv, WorldMoves, NEW p \in Process, Return(p),
         UNCHANGED <<now, workspace, operation, expired, requestVars, external>>
  PROVE  RenewalInv'
<1>1. /\ handler' \in [Process -> HandlerType]
      /\ \A q \in Process \ {p} : handler'[q] = handler[q]
      /\ HandlerFits(p)'
  BY IdleStep
<1>2. TypeOK' /\ Grows
  BY <1>1, WorldTyped
<1>3. QED
  BY <1>1, <1>2, OnlyHandlerMoves DEF WorldMoves

(* The kinds of calls.                                                     *)
LEMMA NoCall ==
  ASSUME RenewalInv, faults' \in 0 .. MaxFaults,
         UNCHANGED <<operation, walletVars, outsideVars>>
  PROVE  WorldMoves
<1>1. OutsideTyped'
  BY DEF RenewalInv, TypeOK, OutsideTyped, ResourceType, walletVars, outsideVars
<1>2. \A k \in Period : EffectsFit(k)'
  BY DEF RenewalInv, EffectsFit, walletVars, outsideVars
<1>3. QED
  BY <1>1, <1>2 DEF RenewalInv, TypeOK, WorldMoves, walletVars, outsideVars

LEMMA ProviderCall ==
  ASSUME RenewalInv, faults' \in 0 .. MaxFaults, ProviderGrows,
         NEW r \in Resource, NEW k \in Period,
         \A q \in Resource : provider'[q].done \subseteq provider[q].done \cup {j \in {k} : q = r},
         inFlight' \subseteq inFlight \cup {<<k, r>>},
         r = "storage" => PastRefund(operation[k]),
         UNCHANGED <<operation, walletVars, rowGone, receipts>>
  PROVE  WorldMoves
<1>1. OutsideTyped'
  <2>1. inFlight' \subseteq Period \X ({"charge", "refund"} \cup Resource)
    BY DEF RenewalInv, TypeOK
  <2>2. QED
    BY <2>1 DEF RenewalInv, TypeOK, OutsideTyped, ProviderGrows, walletVars
<1>2. ASSUME NEW j \in Period
      PROVE  EffectsFit(j)'
  <2>1. /\ charged' = charged /\ refunded' = refunded /\ operation' = operation
        /\ EffectsFit(j) /\ "storage" \in Resource
    BY DEF RenewalInv, walletVars, Resource
  <2>2. /\ <<j, "charge">> \in inFlight' => <<j, "charge">> \in inFlight
        /\ <<j, "refund">> \in inFlight' => <<j, "refund">> \in inFlight
        /\ <<j, "storage">> \in inFlight' =>
             <<j, "storage">> \in inFlight \/ (j = k /\ r = "storage")
    BY DEF Resource
  <2>3. j \in provider'["storage"].done =>
          j \in provider["storage"].done \/ (j = k /\ r = "storage")
    BY <2>1
  <2>4. QED
    BY <2>1, <2>2, <2>3 DEF EffectsFit
<1>3. \A q \in rowGone' : ~ provider'[q].alive
  BY DEF RenewalInv, TypeOK, ProviderGrows
<1>4. QED
  BY <1>1, <1>2, <1>3 DEF RenewalInv, TypeOK, WorldMoves, ProviderGrows, walletVars

LEMMA WalletCall ==
  ASSUME RenewalInv, faults' \in 0 .. MaxFaults, balance' \in Nat, NEW k \in Period,
         charged \subseteq charged', refunded \subseteq refunded',
         NEW kind \in {"charge", "refund"},
         \/ /\ kind = "charge" /\ operation[k].attempted
            /\ charged' \subseteq charged \cup {k} /\ refunded' = refunded
         \/ /\ kind = "refund" /\ operation[k].refundAttempted
            /\ refunded' \subseteq refunded \cup {k} /\ charged' = charged,
         inFlight' \subseteq inFlight \cup {<<k, kind>>},
         UNCHANGED <<operation, provider, rowGone, receipts>>
  PROVE  WorldMoves
<1>1. OutsideTyped'
  <2>1. inFlight' \subseteq Period \X ({"charge", "refund"} \cup Resource)
    BY DEF RenewalInv, TypeOK
  <2>2. QED
    BY <2>1 DEF RenewalInv, TypeOK, OutsideTyped, ResourceType
<1>2. ASSUME NEW j \in Period
      PROVE  EffectsFit(j)'
  <2>1. operation' = operation /\ provider' = provider /\ EffectsFit(j)
    BY DEF RenewalInv
  <2>2. /\ <<j, "charge">> \in inFlight' =>
             <<j, "charge">> \in inFlight \/ (j = k /\ kind = "charge")
        /\ <<j, "refund">> \in inFlight' =>
             <<j, "refund">> \in inFlight \/ (j = k /\ kind = "refund")
        /\ <<j, "storage">> \in inFlight' => <<j, "storage">> \in inFlight
    OBVIOUS
  <2>3. QED
    BY <2>1, <2>2 DEF EffectsFit
<1>3. QED
  BY <1>1, <1>2 DEF RenewalInv, TypeOK, WorldMoves

LEMMA RowsAsBefore ==
  ASSUME RenewalInv, NEW k \in Period,
         UNCHANGED <<now, operation, workspace, promised, charged, refunded, provider>>
  PROVE  RowFits(k)'
BY DEF RenewalInv, RowFits, CopyFits, MoneyFits, PhaseFits, PastRefund, ExpiryFits, IsTrue,
       Granted, Terminal, FinanciallyDone

LEMMA LedgerCall ==
  ASSUME RenewalInv, faults' \in 0 .. MaxFaults, NEW k \in Period,
         NEW type \in {"renewed", "refunded", "expired"}, NEW paid \in 0 .. (LastPeriod + 1),
         type = "renewed" => workspace.paid > k /\ k \notin refunded,
         type = "refunded" => k \in refunded,
         type = "expired" =>
           /\ workspace.paid = paid /\ now >= 2 * paid
           /\ \/ operation[k].expiry = "expired_unpaid"
              \/ operation[k].status = "refunded" /\ k = paid,
         receipts' \in {receipts, Recorded(k, type, paid)},
         UNCHANGED <<now, operation, workspace, promised, walletVars, provider, rowGone, inFlight>>
  PROVE  WorldMoves
<1> DEFINE new == <<k, type, paid>>
<1>1. \/ receipts' = receipts
      \/ /\ receipts' = receipts \cup {new}
         /\ \A q \in 0 .. (LastPeriod + 1) : <<k, type, q>> \notin receipts
  BY DEF Recorded
<1>2. OutsideTyped'
  <2>1. receipts' \subseteq
          Period \X {"renewed", "refunded", "expired"} \X (0 .. (LastPeriod + 1))
    BY <1>1 DEF RenewalInv, TypeOK
  <2>2. QED
    BY <2>1 DEF RenewalInv, TypeOK, OutsideTyped, ResourceType, walletVars
<1>3. \A j \in Period : EffectsFit(j)'
  BY DEF RenewalInv, EffectsFit, walletVars
<1>4. ASSUME receipts' = receipts \cup {new},
             \A q \in 0 .. (LastPeriod + 1) : <<k, type, q>> \notin receipts
      PROVE  ReceiptsTrue' /\ \A e \in receipts' : ReceiptFits(e)'
  <2>1. ASSUME NEW e \in receipts'
        PROVE  /\ e[2] = "renewed" => workspace.paid > e[1] /\ e[1] \notin refunded
               /\ e[2] = "refunded" => e[1] \in refunded
               /\ e[1] \in Period
    <3>1. CASE e \in receipts
      BY <3>1 DEF RenewalInv, ReceiptsTrue, TypeOK
    <3>2. CASE e = new
      BY <3>2
    <3>3. QED
      BY <1>4, <3>1, <3>2
  <2>2. ASSUME NEW e \in receipts', NEW f \in receipts', f[1] = e[1], f[2] = e[2]
        PROVE  f = e
    <3>1. CASE e \in receipts /\ f \in receipts
      BY <2>2, <3>1 DEF RenewalInv, ReceiptsTrue
    <3>2. \A g \in receipts : ~ (g[1] = k /\ g[2] = type)
      <4> SUFFICES ASSUME NEW g \in receipts, g[1] = k, g[2] = type PROVE FALSE
        OBVIOUS
      <4>1. g = <<g[1], g[2], g[3]>> /\ g[3] \in 0 .. (LastPeriod + 1)
        BY DEF RenewalInv, TypeOK
      <4>2. QED
        BY <1>4, <4>1
    <3>3. QED
      BY <1>4, <2>2, <3>1, <3>2
  <2>3. refunded' = refunded /\ workspace' = workspace
    BY DEF walletVars
  <2>4. ASSUME NEW e \in receipts'
        PROVE  ReceiptFits(e)'
    <3>1. CASE e \in receipts
      BY <3>1 DEF RenewalInv, ReceiptFits
    <3>2. CASE e = new
      BY <3>2 DEF ReceiptFits
    <3>3. QED
      BY <1>4, <3>1, <3>2
  <2>5. \A j \in Period : RowFits(j)'
    BY RowsAsBefore DEF walletVars
  <2>6. /\ workspace'.paid \in Nat /\ operation' \in [Period -> OperationType]
        /\ charged' \subseteq Period /\ refunded' \subseteq Period
        /\ inFlight' \subseteq Period \X ({"charge", "refund"} \cup Resource)
    BY DEF RenewalInv, TypeOK, WorkspaceType, walletVars
  <2>7. ASSUME NEW e \in receipts', e[2] = "expired"
        PROVE  /\ workspace'.paid = e[3] /\ now' >= 2 * e[3] /\ e[3] \notin Paid'
               /\ <<e[3], "charge">> \in inFlight' => e[3] \in charged'
    BY <1>3, <2>1, <2>4, <2>5, <2>6, <2>7, ExpiredAfter
  <2>8. QED
    BY <2>1, <2>2, <2>3, <2>4, <2>7 DEF ReceiptsTrue
<1>5. QED
  BY <1>1, <1>2, <1>3, <1>4 DEF RenewalInv, TypeOK, WorldMoves, walletVars
-----------------------------------------------------------------------------
(* The steps of a pass.                                                    *)

LEMMA AbortHolds ==
  ASSUME RenewalInv, NEW p \in Process, Abort(p)
  PROVE  RenewalInv'
<1>1. faults' \in 0 .. MaxFaults
  BY FaultTyped DEF Abort
<1>2. WorldMoves
  BY <1>1, NoCall DEF Abort
<1>3. QED
  BY <1>2, WorldReturn DEF Abort

LEMMA PreflightHolds ==
  ASSUME RenewalInv, NEW p \in Process, Preflight(p)
  PROVE  RenewalInv'
<1> PICK h \in HandlerType : h = handler[p]
  BY DEF RenewalInv, TypeOK
<1>1. /\ handler[p].pc = "run" /\ h.op.status = "claimed"
      /\ h.op.phase \in {"preflight_compute", "preflight_storage"}
  BY DEF Preflight, Running
<1>2. /\ h.period \in Period /\ h.op \in OperationType /\ CopyFits(h.period, h.op)
      /\ h.op.committed => Granted(h.period)
  BY <1>1, AtWork DEF CopyFits, PhaseFits
<1>3. faults' \in 0 .. MaxFaults
  BY FaultTyped DEF Preflight
<1>4. UNCHANGED <<now, workspace, operation, expired, requestVars, walletVars, outsideVars,
                  external>>
  BY DEF Preflight
<1>5. /\ "none" \in Patch
      /\ {"reload", "run"} \subseteq Step \ {"persist", "verify_storage", "commit", "expiry"}
      /\ StepFits("reload", h.op) /\ StepFits("run", h.op)
  BY DEF Patch, Step, StepFits
<1>6. CASE SaveBoth(p, Review(h.op), "none", "reload")
  BY <1>1, <1>2, <1>3, <1>4, <1>5, <1>6, ReviewFits, QuietSave DEF StepFits
<1>7. CASE SaveBoth(p, Retry(h.op), "none", "reload")
  BY <1>1, <1>2, <1>3, <1>4, <1>5, <1>7, RetryFits, QuietSave DEF StepFits
<1>8. CASE SaveBoth(p, [h.op EXCEPT !.phase = "preflight_storage"], "none", "run")
  BY <1>1, <1>2, <1>3, <1>4, <1>5, <1>8, PreflightFits, QuietSave DEF StepFits
<1>9. CASE SaveBoth(p, [h.op EXCEPT !.status = "debit_pending", !.phase = "debit"], "none", "run")
  BY <1>1, <1>2, <1>3, <1>4, <1>5, <1>9, ToDebitFits, QuietSave DEF StepFits
<1>10. QED
  BY <1>6, <1>7, <1>8, <1>9 DEF Preflight, Leave, Save

(* Where a handler may go on after a write.                                *)
LEMMA Continuations ==
  /\ "none" \in Patch
  /\ {"reload", "run", "charge", "read_post", "history", "refund_call", "refund_history",
      "resolve", "idle"} \subseteq Step \ {"persist", "verify_storage", "commit", "expiry"}
  /\ {"verify_storage", "commit", "expiry"} \subseteq Step
BY DEF Patch, Step

LEMMA AdvanceHolds ==
  ASSUME RenewalInv, NEW p \in Process, Advance(p)
  PROVE  RenewalInv'
<1> PICK h \in HandlerType : h = handler[p]
  BY DEF RenewalInv, TypeOK
<1>1. handler[p].pc = "run" /\ faults' \in 0 .. MaxFaults
  BY DEF Advance, RenewalInv, TypeOK
<1>2. /\ h.period \in Period /\ h.op \in OperationType /\ CopyFits(h.period, h.op)
  BY <1>1, AtWork
<1>3. UNCHANGED <<now, workspace, operation, expired, requestVars, walletVars, outsideVars,
                  external>>
  BY DEF Advance
<1>4. CASE /\ h.op.status = "insufficient"
           /\ Save(p, [h.op EXCEPT !.status = "debit_pending", !.phase = "debit"], "run")
  BY <1>1, <1>2, <1>3, <1>4, Continuations, ToDebitFits, QuietSave DEF StepFits, Save
<1>5. CASE /\ h.op.status = "debited"
           /\ Save(p, [h.op EXCEPT !.status = "provider_renewing",
                                   !.phase = "provider_compute"], "run")
  BY <1>1, <1>2, <1>3, <1>5, Continuations, ToProviderFits, QuietSave DEF StepFits, Save
<1>6. CASE Goto(p, "reload")
  BY <1>1, <1>2, <1>3, <1>6, Continuations, QuietGoto DEF StepFits
<1>7. QED
  BY <1>4, <1>5, <1>6 DEF Advance

LEMMA DebitHolds ==
  ASSUME RenewalInv, NEW p \in Process, Debit(p)
  PROVE  RenewalInv'
<1> PICK h \in HandlerType : h = handler[p]
  BY DEF RenewalInv, TypeOK
<1>1. handler[p].pc = "run" /\ h.op.status = "debit_pending"
  BY DEF Debit, Running
<1>2. /\ h.period \in Period /\ h.op \in OperationType /\ CopyFits(h.period, h.op)
      /\ ~ h.op.committed /\ (h.op.confirmed => h.op.attempted)
  BY <1>1, AtWork DEF CopyFits, PhaseFits, MoneyFits
<1>3. faults' \in 0 .. MaxFaults
  BY FaultTyped DEF Debit
<1>4. UNCHANGED <<now, workspace, operation, expired, requestVars, walletVars, outsideVars,
                  external>>
  BY DEF Debit
<1>5. CASE h.op.confirmed /\ Goto(p, "read_post")
  BY <1>1, <1>2, <1>3, <1>4, <1>5, Continuations, QuietGoto DEF StepFits
<1>6. CASE h.op.attempted /\ Goto(p, "history")
  BY <1>1, <1>2, <1>3, <1>4, <1>6, Continuations, QuietGoto DEF StepFits
<1>7. CASE ~ h.op.attempted /\ Save(p, [h.op EXCEPT !.pre = balance, !.attempted = TRUE], "charge")
  <2> DEFINE new == [h.op EXCEPT !.pre = balance, !.attempted = TRUE]
  <2>1. balance \in Nat
    BY DEF RenewalInv, TypeOK
  <2>2. /\ new \in OperationType /\ CopyFits(h.period, new) /\ Follows(h.op, new)
        /\ PatchFits(h.period, h.op, new, "none")
    BY <1>1, <1>2, <1>7, <2>1, AttemptFits
  <2>3. StepFits("charge", new)
    BY <1>1, <1>2 DEF StepFits, OperationType
  <2>4. SaveBoth(p, new, "none", "charge")
    BY <1>7 DEF Save
  <2> HIDE DEF new
  <2>5. QED
    BY <1>1, <1>3, <1>4, <2>2, <2>3, <2>4, Continuations, QuietSave
<1>8. CASE /\ ~ h.op.attempted
           /\ Leave(p, [h.op EXCEPT !.status = "insufficient", !.lease = NoProcess])
  BY <1>1, <1>2, <1>3, <1>4, <1>8, Continuations, InsufficientFits, QuietSave
     DEF StepFits, Leave, Save
<1>9. CASE Leave(p, Retry(h.op))
  BY <1>1, <1>2, <1>3, <1>4, <1>9, Continuations, RetryFits, QuietSave DEF StepFits, Leave, Save
<1>10. QED
  BY <1>5, <1>6, <1>7, <1>8, <1>9 DEF Debit

LEMMA HistoryHolds ==
  ASSUME RenewalInv, NEW p \in Process, History(p)
  PROVE  RenewalInv'
<1> PICK h \in HandlerType : h = handler[p]
  BY DEF RenewalInv, TypeOK
<1>1. handler[p].pc = "history"
  BY DEF History
<1>2. /\ h.period \in Period /\ h.op \in OperationType /\ CopyFits(h.period, h.op)
      /\ h.op.status = "debit_pending" /\ h.op.attempted /\ h.op.phase # "receipt"
  BY <1>1, AtWork DEF CopyFits, PhaseFits, StepFits
<1>3. faults' \in 0 .. MaxFaults
  BY FaultTyped DEF History
<1>4. UNCHANGED <<now, workspace, operation, expired, requestVars, walletVars, outsideVars,
                  external>>
  BY DEF History
<1>5. CASE h.period \in charged /\ Save(p, [h.op EXCEPT !.confirmed = TRUE], "read_post")
  <2> DEFINE new == [h.op EXCEPT !.confirmed = TRUE]
  <2>1. /\ new \in OperationType /\ CopyFits(h.period, new) /\ Follows(h.op, new)
        /\ PatchFits(h.period, h.op, new, "none")
    BY <1>2, <1>4, <1>5, ConfirmFits DEF walletVars, outsideVars
  <2>2. StepFits("read_post", new)
    BY <1>2 DEF StepFits, OperationType
  <2>3. SaveBoth(p, new, "none", "read_post")
    BY <1>5 DEF Save
  <2> HIDE DEF new
  <2>4. QED
    BY <1>1, <1>3, <1>4, <2>1, <2>2, <2>3, Continuations, QuietSave
<1>6. CASE Goto(p, "charge")
  BY <1>1, <1>2, <1>3, <1>4, <1>6, Continuations, QuietGoto DEF StepFits
<1>7. CASE Leave(p, Review(h.op))
  BY <1>1, <1>2, <1>3, <1>4, <1>7, Continuations, ReviewFits, QuietSave DEF StepFits, Leave, Save
<1>8. QED
  BY <1>5, <1>6, <1>7 DEF History

LEMMA ReadPostHolds ==
  ASSUME RenewalInv, NEW p \in Process, ReadPost(p)
  PROVE  RenewalInv'
<1> PICK h \in HandlerType : h = handler[p]
  BY DEF RenewalInv, TypeOK
<1>1. handler[p].pc = "read_post" /\ balance \in Nat
  BY DEF ReadPost, RenewalInv, TypeOK
<1>2. /\ h.period \in Period /\ h.op \in OperationType /\ CopyFits(h.period, h.op)
      /\ h.op.status = "debit_pending" /\ h.op.confirmed
      /\ h.op.phase # "receipt" /\ ~ h.op.committed
  BY <1>1, AtWork DEF CopyFits, PhaseFits, StepFits
<1>3. faults' \in 0 .. MaxFaults
  BY FaultTyped DEF ReadPost
<1>4. UNCHANGED <<now, workspace, operation, expired, requestVars, walletVars, outsideVars,
                  external>>
  BY DEF ReadPost
<1>5. CASE Save(p, [[h.op EXCEPT !.post = balance] EXCEPT !.status = "debited",
                                                          !.phase = "provider_compute"], "run")
  <2> DEFINE new == [h.op EXCEPT !.post = balance, !.status = "debited",
                                 !.phase = "provider_compute"]
  <2>1. /\ new \in OperationType /\ CopyFits(h.period, new) /\ Follows(h.op, new)
        /\ PatchFits(h.period, h.op, new, "none")
    BY <1>1, <1>2, DebitedFits
  <2>2. SaveBoth(p, new, "none", "run")
    BY <1>5 DEF Save
  <2> HIDE DEF new
  <2>3. QED
    BY <1>1, <1>3, <1>4, <2>1, <2>2, Continuations, QuietSave DEF StepFits
<1>6. CASE Leave(p, Review([h.op EXCEPT !.post = balance]))
  <2> PICK op \in OperationType : op = [h.op EXCEPT !.post = balance]
    BY <1>1, <1>2 DEF OperationType
  <2>1. /\ op.status = h.op.status /\ op.phase = h.op.phase /\ op.attempted = h.op.attempted
        /\ op.pre = h.op.pre /\ op.confirmed = h.op.confirmed
        /\ op.refundAttempted = h.op.refundAttempted
        /\ op.refundConfirmed = h.op.refundConfirmed /\ op.committed = h.op.committed
        /\ op.expiry = h.op.expiry /\ op.expiryPhase = h.op.expiryPhase
        /\ op.expiryPaid = h.op.expiryPaid /\ op.resolution = h.op.resolution
    BY <1>2 DEF OperationType
  <2>2. CopyFits(h.period, op)
    BY <1>2, <2>1 DEF CopyFits, MoneyFits, PhaseFits, PastRefund, ExpiryFits, IsTrue
  <2>3. /\ Review(op) \in OperationType /\ CopyFits(h.period, Review(op))
        /\ Follows(op, Review(op)) /\ PatchFits(h.period, op, Review(op), "none")
    BY <1>2, <2>1, <2>2, ReviewFits
  <2>4. Follows(h.op, op)
    BY <1>2, <2>1 DEF Follows, Preserves, PastRefund
  <2>5. Follows(h.op, Review(op))
    BY <1>2, <2>3, <2>4, FollowsOn
  <2>6. PatchFits(h.period, h.op, Review(op), "none")
    BY <2>1, <2>3 DEF PatchFits, ExpiryAdvances
  <2>7. QED
    BY <1>1, <1>3, <1>4, <1>6, <2>3, <2>5, <2>6, Continuations, QuietSave
       DEF StepFits, Leave, Save
<1>7. CASE Leave(p, Retry(h.op))
  BY <1>1, <1>2, <1>3, <1>4, <1>7, Continuations, RetryFits, QuietSave DEF StepFits, Leave, Save
<1>8. QED
  BY <1>5, <1>6, <1>7 DEF ReadPost

LEMMA ChargeHolds ==
  ASSUME RenewalInv, NEW p \in Process, Charge(p)
  PROVE  RenewalInv'
<1> PICK h \in HandlerType : h = handler[p]
  BY DEF RenewalInv, TypeOK
<1> DEFINE k == h.period
<1>1. handler[p].pc = "charge"
  BY DEF Charge
<1>2. /\ k \in Period /\ h.op \in OperationType /\ CopyFits(k, h.op)
      /\ h.op.status = "debit_pending" /\ h.op.attempted
      /\ h.op.phase # "receipt" /\ ~ h.op.committed
  BY <1>1, AtWork DEF CopyFits, PhaseFits, StepFits
<1>3. operation[k] \in OperationType /\ operation[k].attempted
  BY <1>1, <1>2, AtWork DEF Preserves
<1>4. faults' \in 0 .. MaxFaults
  BY FaultTyped DEF Charge
<1>5. /\ UNCHANGED <<now, workspace, operation, expired, requestVars, external>>
      /\ UNCHANGED <<operation, provider, rowGone, receipts>>
  BY DEF Charge
<1>6. CASE UseChargeCode(k) \/ UNCHANGED walletVars
  <2>1. /\ balance' \in Nat /\ charged \subseteq charged' /\ refunded' = refunded
        /\ charged' \subseteq charged \cup {k} /\ refunded \subseteq refunded'
    BY <1>2, <1>6, ChargeCodeUsed DEF walletVars, RenewalInv, TypeOK
  <2>2. inFlight' \subseteq inFlight \cup {<<k, "charge">>}
    BY DEF Charge, LostRequest
  <2>3. WorldMoves
    BY <1>2, <1>3, <1>4, <1>5, <2>1, <2>2, WalletCall
  <2>4. CASE UseChargeCode(k) /\ Save(p, [h.op EXCEPT !.confirmed = TRUE], "read_post")
    <3> DEFINE new == [h.op EXCEPT !.confirmed = TRUE]
    <3>1. k \in charged'
      BY <1>2, <2>4, ChargeCodeUsed
    <3>2. /\ new \in OperationType /\ CopyFits(k, new)' /\ Follows(h.op, new)
          /\ PatchFits(k, h.op, new, "none")
      BY <1>2, <1>5, <2>1, <3>1, ConfirmFits
    <3>3. StepFits("read_post", new)
      BY <1>2 DEF StepFits, OperationType
    <3>4. SaveBoth(p, new, "none", "read_post")
      BY <2>4 DEF Save
    <3> HIDE DEF new
    <3>5. QED
      BY <1>1, <1>5, <2>3, <3>2, <3>3, <3>4, Continuations, WorldSave
  <2>5. CASE Leave(p, Review(h.op))
    BY <1>1, <1>2, <1>5, <2>3, <2>5, Continuations, ReviewFits, WorldSave
       DEF StepFits, Leave, Save
  <2>6. CASE Leave(p, Retry(h.op))
    BY <1>1, <1>2, <1>5, <2>3, <2>6, Continuations, RetryFits, WorldSave
       DEF StepFits, Leave, Save
  <2>7. QED
    BY <2>4, <2>5, <2>6 DEF Charge
<1>7. QED
  BY <1>6 DEF Charge, LostRequest

LEMMA RenewHolds ==
  ASSUME RenewalInv, NEW p \in Process, NEW r \in Resource, Renew(p, r)
  PROVE  RenewalInv'
<1> PICK h \in HandlerType : h = handler[p]
  BY DEF RenewalInv, TypeOK
<1> DEFINE k == h.period
           new == [h.op EXCEPT !.phase = VerifyPhase(r)]
<1>1. /\ handler[p].pc = "run" /\ h.op.status = "provider_renewing"
      /\ h.op.phase = RenewPhase(r)
  BY DEF Renew, Running
<1>2. /\ k \in Period /\ h.op \in OperationType /\ CopyFits(k, h.op)
      /\ PastRefund(h.op) => PastRefund(operation[k])
  BY <1>1, AtWork
<1>3. r = "storage" => PastRefund(operation[k])
  BY <1>1, <1>2 DEF RenewPhase, PastRefund
<1>4. faults' \in 0 .. MaxFaults
  BY FaultTyped DEF Renew
<1>5. /\ UNCHANGED <<now, workspace, operation, expired, requestVars, external>>
      /\ UNCHANGED <<operation, walletVars, rowGone, receipts>>
  BY DEF Renew
<1>6. inFlight' \subseteq inFlight \cup {<<k, r>>}
  BY DEF Renew, LostRequest
<1>7. /\ ProviderGrows
      /\ \A q \in Resource : provider'[q].done \subseteq provider[q].done \cup {j \in {k} : q = r}
  BY <1>2, RenewGrows, SyncGrows DEF Renew, LostRequest
<1>8. WorldMoves
  BY <1>2, <1>3, <1>4, <1>5, <1>6, <1>7, ProviderCall
<1>9. /\ new \in OperationType /\ CopyFits(k, new) /\ Follows(h.op, new)
      /\ PatchFits(k, h.op, new, "none")
  BY <1>1, <1>2, RenewComputeFits, RenewStorageFits DEF RenewPhase, VerifyPhase, Resource
<1>10. SaveBoth(p, new, "none", "run")
  BY DEF Renew, Save
<1> HIDE DEF new
<1>11. QED
  BY <1>1, <1>5, <1>8, <1>9, <1>10, Continuations, WorldSave DEF StepFits

(* A readback changes nothing a row speaks of.                             *)
LEMMA Readback ==
  ASSUME RenewalInv, NEW r \in Resource, NEW k \in Period,
         \/ Absent(r) \/ Unconfirmed(r, k) \/ Confirmed(r, k)
         \/ (Fault /\ UNCHANGED provider),
         UNCHANGED <<operation, walletVars, rowGone, receipts, inFlight>>
  PROVE  /\ WorldMoves
         /\ \A q \in Resource : provider'[q].deadline = provider[q].deadline
         /\ Absent(r) => ~ provider[r].alive
         /\ Confirmed(r, k) => provider[r].alive /\ provider[r].deadline > k
<1>1. faults' \in 0 .. MaxFaults
  BY FaultTyped DEF Absent, Unconfirmed, Confirmed
<1>2. /\ ProviderGrows
      /\ \A q \in Resource : /\ provider'[q].done = provider[q].done
                             /\ provider'[q].deadline = provider[q].deadline
  BY SyncGrows DEF Absent, Unconfirmed, Confirmed
<1>3. "compute" \in Resource
  BY DEF Resource
<1>4. WorldMoves
  BY <1>1, <1>2, <1>3, ProviderCall
<1>5. Absent(r) => ~ provider[r].alive
  BY DEF Absent, RenewalInv
<1>6. QED
  BY <1>2, <1>4, <1>5 DEF Confirmed, RenewalConfirmed

LEMMA VerifyHolds ==
  ASSUME RenewalInv, NEW p \in Process, NEW r \in Resource, Verify(p, r)
  PROVE  RenewalInv'
<1> PICK h \in HandlerType : h = handler[p]
  BY DEF RenewalInv, TypeOK
<1> DEFINE k == h.period
<1>1. /\ handler[p].pc = "run" /\ h.op.status = "provider_renewing"
      /\ h.op.phase = VerifyPhase(r)
  BY DEF Verify, Running
<1>2. /\ k \in Period /\ h.op \in OperationType /\ CopyFits(k, h.op)
  BY <1>1, AtWork
<1>3. /\ UNCHANGED <<now, workspace, operation, expired, requestVars, external>>
      /\ UNCHANGED <<operation, walletVars, rowGone, receipts, inFlight>>
  BY DEF Verify
<1>4. /\ WorldMoves
      /\ Absent(r) => ~ provider[r].alive
  BY <1>2, <1>3, Readback DEF Verify
<1>5. CASE Absent(r) /\ r = "compute" /\ Save(p, RefundFrom(h.op), "refund_call")
  <2> DEFINE new == RefundFrom(h.op)
  <2>1. /\ new \in OperationType /\ CopyFits(k, new) /\ Follows(h.op, new)
        /\ PatchFits(k, h.op, new, "none")
    BY <1>1, <1>2, <1>4, <1>5, RefundFits DEF VerifyPhase, RefundFrom
  <2>2. StepFits("refund_call", new)
    BY <1>2 DEF StepFits, OperationType, RefundFrom
  <2>3. SaveBoth(p, new, "none", "refund_call")
    BY <1>5 DEF Save
  <2> HIDE DEF new
  <2>4. QED
    BY <1>1, <1>3, <1>4, <2>1, <2>2, <2>3, Continuations, WorldSave
<1>6. CASE Leave(p, Review(h.op))
  <2>1. h.op.phase # "receipt"
    BY <1>1 DEF VerifyPhase
  <2>2. QED
    BY <1>1, <1>2, <1>3, <1>4, <1>6, <2>1, Continuations, ReviewFits, WorldSave
       DEF StepFits, Leave, Save
<1>7. CASE r = "compute" /\ Save(p, [h.op EXCEPT !.phase = "provider_storage"], "run")
  BY <1>1, <1>2, <1>3, <1>4, <1>7, Continuations, MachineFits, WorldSave
     DEF StepFits, Save, VerifyPhase
<1>8. CASE /\ r = "storage"
           /\ Save(p, [h.op EXCEPT !.status = "verifying", !.phase = "entitlement"], "run")
  BY <1>1, <1>2, <1>3, <1>4, <1>8, Continuations, DiskFits, WorldSave
     DEF StepFits, Save, VerifyPhase
<1>9. QED
  BY <1>5, <1>6, <1>7, <1>8 DEF Verify, Resource

LEMMA VerifyAgainHolds ==
  ASSUME RenewalInv, NEW p \in Process, NEW r \in Resource, VerifyAgain(p, r)
  PROVE  RenewalInv'
<1> PICK h \in HandlerType : h = handler[p]
  BY DEF RenewalInv, TypeOK
<1> DEFINE k == h.period
<1>1. /\ handler[p].pc \in {"run", "verify_storage"}
      /\ r = "storage" => handler[p].pc = "verify_storage"
      /\ handler[p].pc = "run" => h.op.status = "verifying" /\ h.op.phase # "receipt"
  BY DEF VerifyAgain, Running
<1>2. /\ k \in Period /\ h.op \in OperationType /\ CopyFits(k, h.op)
      /\ h.op.status = "verifying" /\ h.op.phase # "receipt"
  BY <1>1, AtWork DEF StepFits
<1>3. handler[p].pc = "verify_storage" => provider["compute"].deadline > k
  BY DEF RenewalInv, HandlerFits
<1>4. /\ UNCHANGED <<now, workspace, operation, expired, requestVars, external>>
      /\ UNCHANGED <<operation, walletVars, rowGone, receipts, inFlight>>
  BY DEF VerifyAgain
<1>5. /\ WorldMoves
      /\ \A q \in Resource : provider'[q].deadline = provider[q].deadline
      /\ Confirmed(r, k) => provider[r].deadline > k
  BY <1>2, <1>4, Readback DEF VerifyAgain
<1>6. CASE Leave(p, Review(h.op))
  BY <1>1, <1>2, <1>4, <1>5, <1>6, Continuations, ReviewFits, WorldSave
     DEF StepFits, Leave, Save
<1>7. CASE Confirmed(r, k) /\ r = "compute" /\ Goto(p, "verify_storage")
  BY <1>1, <1>2, <1>4, <1>5, <1>7, Continuations, WorldGoto DEF StepFits
<1>8. CASE Confirmed(r, k) /\ r = "storage" /\ Goto(p, "commit")
  <2>1. \A q \in Resource : provider'[q].deadline > k
    BY <1>1, <1>3, <1>5, <1>8 DEF Resource
  <2>2. QED
    BY <1>1, <1>2, <1>4, <1>5, <1>8, <2>1, Continuations, WorldGoto DEF StepFits
<1>9. QED
  BY <1>6, <1>7, <1>8 DEF VerifyAgain, Resource

LEMMA CommitHolds ==
  ASSUME RenewalInv, NEW p \in Process, Commit(p)
  PROVE  RenewalInv'
<1> PICK h \in HandlerType : h = handler[p]
  BY DEF RenewalInv, TypeOK
<1> DEFINE k == h.period
<1>1. handler[p].pc = "commit" /\ faults' \in 0 .. MaxFaults
  BY DEF Commit, RenewalInv, TypeOK
<1>2. /\ k \in Period /\ h.op \in OperationType /\ CopyFits(k, h.op)
      /\ h.op.status = "verifying" /\ h.op.phase # "receipt" /\ Granted(k)
  BY <1>1, AtWork DEF StepFits, RenewalInv, HandlerFits
<1>3. UNCHANGED <<now, workspace, operation, expired, requestVars, walletVars, outsideVars,
                  external>>
  BY DEF Commit
<1>4. /\ {"extend", "extend_running"} \subseteq Patch
      /\ h.op.expiry = "past_due" => h.op.expiryPaid = k
  BY <1>2 DEF Patch, CopyFits, ExpiryFits
<1>5. CASE Leave(p, Review(h.op))
  BY <1>1, <1>2, <1>3, <1>5, Continuations, ReviewFits, QuietSave DEF StepFits, Leave, Save
<1>6. CASE /\ h.op.expiry # "past_due"
           /\ SaveBoth(p, [h.op EXCEPT !.status = "verifying", !.phase = "receipt",
                                       !.committed = TRUE], "extend", "run")
  BY <1>1, <1>2, <1>3, <1>4, <1>6, Continuations, GrantFits, QuietSave DEF StepFits
<1>7. CASE /\ h.op.expiry = "past_due"
           /\ SaveBoth(p, [[h.op EXCEPT !.status = "verifying", !.phase = "receipt",
                                        !.committed = TRUE]
                             EXCEPT !.expiry = "none", !.expiryPhase = "none",
                                    !.expiryPaid = 0], "extend_running", "run")
  <2> DEFINE new == [h.op EXCEPT !.status = "verifying", !.phase = "receipt",
                                 !.committed = TRUE, !.expiry = "none",
                                 !.expiryPhase = "none", !.expiryPaid = 0]
  <2>1. /\ new \in OperationType /\ CopyFits(k, new) /\ Follows(h.op, new)
        /\ PatchFits(k, h.op, new, "extend_running")
    BY <1>2, <1>7, LateGrantFits
  <2>2. SaveBoth(p, new, "extend_running", "run")
    BY <1>7
  <2> HIDE DEF new
  <2>3. QED
    BY <1>1, <1>3, <1>4, <2>1, <2>2, Continuations, QuietSave DEF StepFits
<1>8. QED
  BY <1>4, <1>5, <1>6, <1>7 DEF Commit

LEMMA RenewalReceiptHolds ==
  ASSUME RenewalInv, NEW p \in Process, RenewalReceipt(p)
  PROVE  RenewalInv'
<1> PICK h \in HandlerType : h = handler[p]
  BY DEF RenewalInv, TypeOK
<1> DEFINE k == h.period
           new == [h.op EXCEPT !.status = "active", !.phase = "complete", !.lease = NoProcess]
<1>1. handler[p].pc = "run" /\ h.op.status = "verifying" /\ h.op.phase = "receipt"
  BY DEF RenewalReceipt, Running
<1>2. /\ k \in Period /\ h.op \in OperationType /\ CopyFits(k, h.op) /\ RowFits(k)
      /\ Preserves(h.op, operation[k]) /\ h.op.committed /\ EffectsFit(k)
  BY <1>1, AtWork DEF CopyFits, PhaseFits
<1>3. operation[k].committed /\ k < workspace.paid /\ Granted(k)
  BY <1>2 DEF Preserves, RowFits
<1>4. k \notin refunded
  <2>1. PastRefund(operation[k])
    BY <1>2, <1>3 DEF RowFits, CopyFits, PhaseFits, PastRefund
  <2>2. ~ operation[k].refundAttempted
    BY <1>2, <2>1 DEF RowFits, CopyFits, PhaseFits
  <2>3. QED
    BY <1>2, <2>2 DEF EffectsFit
<1>5. faults' \in 0 .. MaxFaults
  BY FaultTyped DEF RenewalReceipt, Receipt
<1>6. /\ UNCHANGED <<now, workspace, operation, expired, requestVars, external>>
      /\ UNCHANGED <<now, operation, workspace, promised, walletVars, provider, rowGone, inFlight>>
  BY DEF RenewalReceipt, requestVars
<1>7. WorldMoves
  <2>1. k + 1 \in 0 .. (LastPeriod + 1) /\ workspace.paid > k
    BY <1>2, <1>3 DEF Period, RenewalInv, TypeOK, WorkspaceType
  <2>2. receipts' \in {receipts, Recorded(k, "renewed", k + 1)}
    BY DEF RenewalReceipt, Receipt
  <2>3. QED
    BY <1>2, <1>4, <1>5, <1>6, <2>1, <2>2, LedgerCall
<1>8. CASE SaveBoth(p, new, "none", "reload")
  <2>1. /\ new \in OperationType /\ CopyFits(k, new) /\ Follows(h.op, new)
        /\ PatchFits(k, h.op, new, "none")
    BY <1>1, <1>2, <1>3, ActiveFits
  <2> HIDE DEF new
  <2>2. QED
    BY <1>1, <1>6, <1>7, <1>8, <2>1, Continuations, WorldSave DEF StepFits
<1>9. CASE SaveBoth(p, Retry(h.op), "none", "reload")
  BY <1>1, <1>2, <1>3, <1>6, <1>7, <1>9, Continuations, RetryFits, WorldSave DEF StepFits
<1>10. QED
  BY <1>8, <1>9 DEF RenewalReceipt, Receipt, Save

LEMMA ResumeRefundHolds ==
  ASSUME RenewalInv, NEW p \in Process, ResumeRefund(p)
  PROVE  RenewalInv'
<1> PICK h \in HandlerType : h = handler[p]
  BY DEF RenewalInv, TypeOK
<1>1. handler[p].pc = "run" /\ h.op.status = "refund_pending"
  BY DEF ResumeRefund, Running
<1>2. /\ h.period \in Period /\ h.op \in OperationType /\ CopyFits(h.period, h.op)
      /\ h.op.phase # "receipt"
  BY <1>1, AtWork DEF CopyFits, PhaseFits
<1>3. faults' \in 0 .. MaxFaults
  BY FaultTyped DEF ResumeRefund
<1>4. UNCHANGED <<now, workspace, operation, expired, requestVars, walletVars, outsideVars,
                  external>>
  BY DEF ResumeRefund
<1>5. CASE Goto(p, "refund_history")
  BY <1>1, <1>2, <1>3, <1>4, <1>5, Continuations, QuietGoto DEF StepFits
<1>6. CASE Leave(p, Review(h.op))
  BY <1>1, <1>2, <1>3, <1>4, <1>6, Continuations, ReviewFits, QuietSave DEF StepFits, Leave, Save
<1>7. QED
  BY <1>5, <1>6 DEF ResumeRefund

LEMMA RefundHistoryHolds ==
  ASSUME RenewalInv, NEW p \in Process, RefundHistory(p)
  PROVE  RenewalInv'
<1> PICK h \in HandlerType : h = handler[p]
  BY DEF RenewalInv, TypeOK
<1>1. handler[p].pc = "refund_history"
  BY DEF RefundHistory
<1>2. /\ h.period \in Period /\ h.op \in OperationType /\ CopyFits(h.period, h.op)
      /\ h.op.status = "refund_pending" /\ h.op.phase # "receipt"
  BY <1>1, AtWork DEF CopyFits, PhaseFits, StepFits
<1>3. faults' \in 0 .. MaxFaults
  BY FaultTyped DEF RefundHistory
<1>4. UNCHANGED <<now, workspace, operation, expired, requestVars, walletVars, outsideVars,
                  external>>
  BY DEF RefundHistory
<1>5. CASE h.period \in refunded /\ Save(p, Refunded(h.op), "run")
  BY <1>1, <1>2, <1>3, <1>4, <1>5, Continuations, ReturnedFits, QuietSave
     DEF StepFits, Save, walletVars, outsideVars
<1>6. CASE Goto(p, "refund_call")
  BY <1>1, <1>2, <1>3, <1>4, <1>6, Continuations, QuietGoto DEF StepFits
<1>7. CASE Leave(p, Review(h.op))
  BY <1>1, <1>2, <1>3, <1>4, <1>7, Continuations, ReviewFits, QuietSave DEF StepFits, Leave, Save
<1>8. QED
  BY <1>5, <1>6, <1>7 DEF RefundHistory

LEMMA RefundCallHolds ==
  ASSUME RenewalInv, NEW p \in Process, RefundCall(p)
  PROVE  RenewalInv'
<1> PICK h \in HandlerType : h = handler[p]
  BY DEF RenewalInv, TypeOK
<1> DEFINE k == h.period
<1>1. handler[p].pc = "refund_call"
  BY DEF RefundCall
<1>2. /\ k \in Period /\ h.op \in OperationType /\ CopyFits(k, h.op)
      /\ h.op.status = "refund_pending" /\ h.op.refundAttempted /\ ~ h.op.committed
  BY <1>1, AtWork DEF CopyFits, MoneyFits, PhaseFits, StepFits
<1>3. operation[k].refundAttempted
  BY <1>1, <1>2, AtWork DEF Preserves
<1>4. faults' \in 0 .. MaxFaults
  BY FaultTyped DEF RefundCall
<1>5. /\ UNCHANGED <<now, workspace, operation, expired, requestVars, external>>
      /\ UNCHANGED <<operation, provider, rowGone, receipts>>
  BY DEF RefundCall
<1>6. CASE UseRefundCode(k) \/ UNCHANGED walletVars
  <2>1. /\ balance' \in Nat /\ refunded \subseteq refunded' /\ charged' = charged
        /\ refunded' \subseteq refunded \cup {k} /\ charged \subseteq charged'
    BY <1>2, <1>6, RefundCodeUsed DEF walletVars, RenewalInv, TypeOK
  <2>2. inFlight' \subseteq inFlight \cup {<<k, "refund">>}
    BY DEF RefundCall, LostRequest
  <2>3. WorldMoves
    BY <1>2, <1>3, <1>4, <1>5, <2>1, <2>2, WalletCall
  <2>4. CASE UseRefundCode(k) /\ Save(p, Refunded(h.op), "run")
    <3>1. k \in refunded'
      BY <1>2, <2>4, RefundCodeUsed
    <3>2. /\ Refunded(h.op) \in OperationType /\ CopyFits(k, Refunded(h.op))'
          /\ Follows(h.op, Refunded(h.op)) /\ PatchFits(k, h.op, Refunded(h.op), "none")
      BY <1>2, <1>5, <2>1, <3>1, ReturnedFits
    <3>3. QED
      BY <1>1, <1>5, <2>3, <2>4, <3>2, Continuations, WorldSave DEF StepFits, Save
  <2>5. CASE Leave(p, Retry(h.op))
    BY <1>1, <1>2, <1>5, <2>3, <2>5, Continuations, RetryFits, WorldSave
       DEF StepFits, Leave, Save
  <2>6. QED
    BY <2>4, <2>5 DEF RefundCall
<1>7. QED
  BY <1>6 DEF RefundCall, LostRequest

LEMMA RefundReceiptHolds ==
  ASSUME RenewalInv, NEW p \in Process, RefundReceipt(p)
  PROVE  RenewalInv'
<1> PICK h \in HandlerType : h = handler[p]
  BY DEF RenewalInv, TypeOK
<1> DEFINE k == h.period
           new == [h.op EXCEPT !.phase = "complete", !.lease = NoProcess]
<1>1. handler[p].pc = "run" /\ h.op.status = "refunded"
  BY DEF RefundReceipt, Running
<1>2. /\ k \in Period /\ h.op \in OperationType /\ CopyFits(k, h.op)
      /\ k \in refunded /\ ~ h.op.committed
  BY <1>1, AtWork DEF CopyFits, IsTrue, MoneyFits, PhaseFits, PastRefund
<1>3. faults' \in 0 .. MaxFaults
  BY FaultTyped DEF RefundReceipt, Receipt
<1>4. /\ UNCHANGED <<now, workspace, operation, expired, requestVars, external>>
      /\ UNCHANGED <<now, operation, workspace, promised, walletVars, provider, rowGone, inFlight>>
  BY DEF RefundReceipt, requestVars
<1>5. WorldMoves
  <2>1. k + 1 \in 0 .. (LastPeriod + 1)
    BY <1>2 DEF Period
  <2>2. receipts' \in {receipts, Recorded(k, "refunded", k + 1)}
    BY DEF RefundReceipt, Receipt
  <2>3. QED
    BY <1>2, <1>3, <1>4, <2>1, <2>2, LedgerCall
<1>6. CASE SaveBoth(p, new, "none", "reload")
  <2>1. /\ new \in OperationType /\ CopyFits(k, new) /\ Follows(h.op, new)
        /\ PatchFits(k, h.op, new, "none")
    BY <1>1, <1>2, RefundedFits
  <2> HIDE DEF new
  <2>2. QED
    BY <1>1, <1>4, <1>5, <1>6, <2>1, Continuations, WorldSave DEF StepFits
<1>7. CASE SaveBoth(p, Retry(h.op), "none", "reload")
  BY <1>1, <1>2, <1>4, <1>5, <1>7, Continuations, RetryFits, WorldSave DEF StepFits
<1>8. QED
  BY <1>6, <1>7 DEF RefundReceipt, Receipt, Save

(* A copy that ended unpaid, written or not, is of the period still paid.   *)
LEMMA ExpiredCopy ==
  ASSUME RenewalInv, NEW p \in Process, handler[p].pc = "expiry_receipt",
         NEW h \in HandlerType, h = handler[p], h.op.expiry = "expired_unpaid"
  PROVE  /\ workspace.paid = h.op.expiryPaid /\ now >= 2 * h.op.expiryPaid
         /\ \/ operation[h.period].expiry = "expired_unpaid"
            \/ operation[h.period].status = "refunded" /\ h.period = h.op.expiryPaid
<1> DEFINE k == h.period
<1> PICK row \in OperationType : row = operation[k]
  BY AtWork
<1>1. /\ k \in Period /\ h.op \in OperationType /\ h.base \in OperationType /\ RowFits(k)
      /\ CopyOf(k, h.op, h.base) /\ Drifted(h.base, h.op)
      /\ h.op.status = "refunded" => row.status = "refunded"
  BY AtWork
<1>2. now >= 2 * h.op.expiryPaid /\ h.op.expiryPaid = h.base.expiryPaid
  BY <1>1 DEF CopyOf, CopyFits, ExpiryFits, Drifted, ExpiryAdvances
<1>3. CASE h.base.expiry = "expired_unpaid"
  <2>1. row.expiry = "expired_unpaid" /\ row.expiryPaid = h.op.expiryPaid
    BY <1>1, <1>2, <1>3 DEF CopyOf, Follows
  <2>2. QED
    BY <1>1, <1>2, <2>1 DEF RowFits
<1>4. CASE h.base.expiry # "expired_unpaid"
  <2>1. h.base.expiry = "past_due" /\ h.op.status = "refunded"
    BY <1>1, <1>4 DEF Drifted, ExpiryAdvances
  <2>2. h.base.expiryPaid = k /\ row.status = "refunded"
    BY <1>1, <2>1 DEF CopyOf, CopyFits, ExpiryFits
  <2>3. ~ row.committed
    BY <1>1, <2>2 DEF RowFits, CopyFits, PhaseFits
  <2>4. k <= workspace.paid /\ ~ k < workspace.paid
    BY <1>1, <2>2, <2>3 DEF RowFits
  <2>5. workspace.paid = k
    BY <1>1, <2>4 DEF Period, RenewalInv, TypeOK, WorkspaceType
  <2>6. QED
    BY <1>2, <2>2, <2>5
<1>5. QED
  BY <1>3, <1>4

LEMMA ExpiryReceiptHolds ==
  ASSUME RenewalInv, NEW p \in Process, ExpiryReceipt(p)
  PROVE  RenewalInv'
<1> PICK h \in HandlerType : h = handler[p]
  BY DEF RenewalInv, TypeOK
<1> DEFINE k == h.period
           new == [h.op EXCEPT !.expiryPhase = "complete", !.lease = NoProcess]
<1>1. handler[p].pc = "expiry_receipt"
  BY DEF ExpiryReceipt
<1>2. /\ k \in Period /\ h.op \in OperationType /\ CopyFits(k, h.op) /\ RowFits(k)
      /\ Preserves(h.op, operation[k]) /\ h.op.status # "none"
  BY <1>1, AtWork
<1>3. h.op.committed => Granted(k)
  BY <1>2 DEF Preserves, RowFits
<1>4. faults' \in 0 .. MaxFaults
  BY FaultTyped DEF ExpiryReceipt, Receipt
<1>5. /\ UNCHANGED <<now, workspace, operation, expired, requestVars, external>>
      /\ UNCHANGED <<now, operation, workspace, promised, walletVars, provider, rowGone, inFlight>>
  BY DEF ExpiryReceipt, requestVars
<1>6. CASE h.op.expiry = "expired_unpaid" /\ h.op.expiryPhase = "receipt"
  <2>1. /\ workspace.paid = h.op.expiryPaid /\ now >= 2 * h.op.expiryPaid
        /\ \/ operation[k].expiry = "expired_unpaid"
           \/ operation[k].status = "refunded" /\ k = h.op.expiryPaid
        /\ h.op.expiryPaid \in 0 .. (LastPeriod + 1)
    BY <1>1, <1>2, <1>6, ExpiredCopy DEF CopyFits, ExpiryFits
  <2>2. receipts' \in {receipts, Recorded(k, "expired", h.op.expiryPaid)}
    BY <1>6 DEF ExpiryReceipt, Receipt
  <2>3. WorldMoves
    BY <1>2, <1>4, <1>5, <2>1, <2>2, LedgerCall
  <2>4. CASE SaveBoth(p, new, "none", "reload")
    <3>1. /\ new \in OperationType /\ CopyFits(k, new) /\ Follows(h.op, new)
          /\ PatchFits(k, h.op, new, "none")
      BY <1>2, <1>3, <1>6, ReceiptedFits
    <3> HIDE DEF new
    <3>2. QED
      BY <1>1, <1>5, <2>3, <2>4, <3>1, Continuations, WorldSave DEF StepFits
  <2>5. CASE SaveBoth(p, Retry(h.op), "none", "reload")
    BY <1>1, <1>2, <1>3, <1>5, <2>3, <2>5, Continuations, RetryFits, WorldSave DEF StepFits
  <2>6. QED
    BY <1>6, <2>4, <2>5 DEF ExpiryReceipt, Receipt, Save
<1>7. CASE ~ (h.op.expiry = "expired_unpaid" /\ h.op.expiryPhase = "receipt")
  <2>1. Return(p) /\ UNCHANGED outsideVars
    BY <1>5, <1>7 DEF ExpiryReceipt, outsideVars
  <2>2. WorldMoves
    BY <1>4, <1>5, <2>1, NoCall
  <2>3. QED
    BY <1>5, <2>1, <2>2, WorldReturn
<1>8. QED
  BY <1>6, <1>7

(* A copy whose expiry moved on, about to be written.                       *)
LEMMA ExpirySave ==
  ASSUME RenewalInv, NEW p \in Process, handler[p].pc = "expiry",
         NEW h \in HandlerType, h = handler[p],
         NEW op \in OperationType, NEW patch \in Patch, NEW next \in {"expiry", "reload"},
         SaveBoth(p, op, patch, next), faults' \in 0 .. MaxFaults,
         UNCHANGED <<now, workspace, operation, expired, requestVars, walletVars, outsideVars,
                     external>>,
         op = [h.op EXCEPT !.expiry = op.expiry, !.expiryPhase = op.expiryPhase],
         CopyFits(h.period, op), Follows(h.op, op), PatchFits(h.period, h.op, op, patch),
         patch # "extend_running"
  PROVE  RenewalInv'
<1>1. /\ h.period \in Period /\ h.op \in OperationType /\ h.base \in OperationType
      /\ CopyOf(h.period, h.op, h.base) /\ Drifted(h.base, h.op) /\ Follows(h.base, h.op)
      /\ h.stage \in {"expire", "expire_again"}
  BY AtWork
<1>2. next \in Step
  BY DEF Step
<1>3. /\ handler' \in [Process -> HandlerType]
      /\ \A q \in Process \ {p} : handler'[q] = handler[q]
      /\ handler'[p].pc = "persist" /\ handler'[p].then = next /\ handler'[p].patch = patch
      /\ handler'[p].op = op /\ handler'[p].base = h.base
      /\ handler'[p].period = h.period /\ handler'[p].stage = h.stage
  BY <1>2, SaveTyped
<1>4. TypeOK' /\ Grows /\ TypeOK
  BY <1>3 DEF RenewalInv, TypeOK, Grows, requestVars, walletVars, outsideVars
<1>5. CopyOf(h.period, op, h.base)'
  BY <1>1, <1>4, CopyOfStays DEF CopyOf
<1>6. Drifted(h.base, op) /\ Follows(h.base, op)
  <2>1. Drifted(h.op, op)
    BY DEF Drifted, PatchFits
  <2>2. QED
    BY <1>1, <2>1, DriftOn, FollowsOn
<1>7. PatchFits(h.period, h.base, op, patch)'
  <2>1. PatchFits(h.period, h.op, op, patch)'
    BY <1>1, <1>4, GrantedStays DEF PatchFits
  <2>2. QED
    BY <1>1, <2>1, PatchAfter
<1>8. StepFits(next, op)
  BY DEF StepFits
<1>9. HandlerFits(p)'
  BY <1>1, <1>3, <1>5, <1>6, <1>7, <1>8 DEF HandlerFits
<1>10. QED
  BY <1>3, <1>9, QuietStep

LEMMA ExpiryHolds ==
  ASSUME RenewalInv, NEW p \in Process, Expiry(p)
  PROVE  RenewalInv'
<1> PICK h \in HandlerType : h = handler[p]
  BY DEF RenewalInv, TypeOK
<1> DEFINE k == h.period
<1>1. handler[p].pc = "expiry" /\ faults' \in 0 .. MaxFaults
  BY FaultTyped DEF Expiry
<1>2. /\ k \in Period /\ h.op \in OperationType /\ CopyFits(k, h.op) /\ RowFits(k)
      /\ Preserves(h.op, operation[k]) /\ h.op.status # "none"
  BY <1>1, AtWork
<1>3. h.op.committed => Granted(k)
  BY <1>2 DEF Preserves, RowFits
<1>4. UNCHANGED <<now, workspace, operation, expired, requestVars, walletVars, outsideVars,
                  external>>
  BY DEF Expiry
<1>5. {"suspend", "suspend_cancel", "cancel"} \subseteq Patch
  BY DEF Patch
<1>6. CASE /\ h.op.expiryPhase = "suspend" /\ h.op.expiry = "past_due"
           /\ SaveBoth(p, [h.op EXCEPT !.expiryPhase = "financial"], "suspend", "expiry")
  <2> DEFINE new == [h.op EXCEPT !.expiryPhase = "financial"]
  <2>1. /\ new \in OperationType /\ CopyFits(k, new) /\ Follows(h.op, new)
        /\ PatchFits(k, h.op, new, "suspend")
    BY <1>2, <1>6, SuspendFits
  <2>2. new = [h.op EXCEPT !.expiry = new.expiry, !.expiryPhase = new.expiryPhase]
    BY <1>2 DEF OperationType
  <2>3. SaveBoth(p, new, "suspend", "expiry")
    BY <1>6
  <2> HIDE DEF new
  <2>4. QED
    BY <1>1, <1>4, <1>5, <2>1, <2>2, <2>3, ExpirySave
<1>7. CASE /\ h.op.expiryPhase = "suspend" /\ h.op.expiry = "expired_unpaid"
           /\ SaveBoth(p, [h.op EXCEPT !.expiryPhase = "receipt"], "suspend_cancel", "expiry")
  <2> DEFINE new == [h.op EXCEPT !.expiryPhase = "receipt"]
  <2>1. /\ new \in OperationType /\ CopyFits(k, new) /\ Follows(h.op, new)
        /\ PatchFits(k, h.op, new, "suspend_cancel")
    BY <1>2, <1>3, <1>7, EndFits
  <2>2. new = [h.op EXCEPT !.expiry = new.expiry, !.expiryPhase = new.expiryPhase]
    BY <1>2 DEF OperationType
  <2>3. SaveBoth(p, new, "suspend_cancel", "expiry")
    BY <1>7
  <2> HIDE DEF new
  <2>4. QED
    BY <1>1, <1>4, <1>5, <2>1, <2>2, <2>3, ExpirySave
<1>8. CASE /\ h.op.expiryPhase = "financial" /\ h.op.status \in {"refunded", "expired_unpaid"}
           /\ SaveBoth(p, [h.op EXCEPT !.expiry = "expired_unpaid", !.expiryPhase = "receipt"],
                       "cancel", "reload")
  <2> DEFINE new == [h.op EXCEPT !.expiry = "expired_unpaid", !.expiryPhase = "receipt"]
  <2>1. /\ new \in OperationType /\ CopyFits(k, new) /\ Follows(h.op, new)
        /\ PatchFits(k, h.op, new, "cancel")
    BY <1>2, <1>8, CloseFits
  <2>2. new = [h.op EXCEPT !.expiry = new.expiry, !.expiryPhase = new.expiryPhase]
    BY <1>2 DEF OperationType
  <2>3. SaveBoth(p, new, "cancel", "reload")
    BY <1>8
  <2> HIDE DEF new
  <2>4. QED
    BY <1>1, <1>4, <1>5, <2>1, <2>2, <2>3, ExpirySave
<1>9. CASE Goto(p, "reload")
  BY <1>1, <1>2, <1>4, <1>9, Continuations, QuietGoto DEF StepFits
<1>10. h.op.expiryPhase = "suspend" => h.op.expiry \in {"past_due", "expired_unpaid"}
  BY <1>2 DEF CopyFits, ExpiryFits, OperationType, ExpiryStatus
<1>11. QED
  BY <1>6, <1>7, <1>8, <1>9, <1>10 DEF Expiry, Suspension

(* A handler takes up a copy of a row, or the row as it is.                *)
LEMMA TakeUp ==
  ASSUME RenewalInv, NEW p \in Process, NEW h \in HandlerType,
         handler' \in [Process -> HandlerType], handler'[p] = h,
         \A q \in Process \ {p} : handler'[q] = handler[q],
         CopyOf(h.period, h.op, h.base),
         \/ /\ h.pc \in {"run", "expiry", "expiry_receipt", "resolve"}
            /\ Drifted(h.base, h.op) /\ StepFits(h.pc, h.op)
         \/ /\ h.pc = "persist" /\ h.then \in {"idle", "resolve"}
            /\ Follows(h.base, h.op) /\ StepFits(h.then, h.op)
            /\ PatchFits(h.period, h.base, h.op, h.patch)
         \/ h.pc = "reload",
         h.stage \in {"expire", "expire_again"} <=> h.pc = "expiry",
         h.stage = "run" /\ h.expired =>
           CopyOf(h.period, h.kept, h.keptBase) /\ Drifted(h.keptBase, h.kept),
         faults' \in 0 .. MaxFaults,
         UNCHANGED <<now, workspace, operation, expired, requestVars, walletVars, outsideVars,
                     external>>
  PROVE  RenewalInv'
<1>1. /\ h.period \in Period /\ h.op \in OperationType /\ h.base \in OperationType
      /\ h.kept \in OperationType /\ h.keptBase \in OperationType
  BY DEF HandlerType
<1>2. TypeOK /\ TypeOK' /\ Grows
  BY DEF RenewalInv, TypeOK, Grows, requestVars, walletVars, outsideVars
<1>3. CopyOf(h.period, h.op, h.base)'
  BY <1>1, <1>2, CopyOfStays
<1>4. h.stage = "run" /\ h.expired => CopyOf(h.period, h.kept, h.keptBase)'
  BY <1>1, <1>2, CopyOfStays
<1>5. h.pc = "persist" => PatchFits(h.period, h.base, h.op, h.patch)'
  BY <1>1, <1>2, GrantedStays DEF PatchFits
<1>6. HandlerFits(p)'
  BY <1>3, <1>4, <1>5 DEF HandlerFits
<1>7. QED
  BY <1>6, QuietStep

LEMMA RowIsCopy ==
  ASSUME RenewalInv, NEW k \in Period, operation[k].status # "none"
  PROVE  CopyOf(k, operation[k], operation[k]) /\ Drifted(operation[k], operation[k])
<1>1. operation[k] \in OperationType /\ CopyFits(k, operation[k])
  BY DEF RenewalInv, TypeOK, RowFits
<1>2. QED
  BY <1>1, FollowsSelf, DriftSelf DEF CopyOf

LEMMA EnterHolds ==
  ASSUME RenewalInv, NEW p \in Process, NEW stage \in Stage, NEW step \in Step,
         \/ stage = "run" /\ step = "run"
         \/ stage = "expire_again" /\ step = "expiry"
         \/ stage = "receipt" /\ step = "expiry_receipt",
         NEW op \in OperationType, NEW base \in OperationType,
         CopyOf(handler[p].period, op, base), Drifted(base, op),
         Enter(p, stage, step, op, base), faults' \in 0 .. MaxFaults,
         UNCHANGED <<now, workspace, operation, expired, requestVars, walletVars, outsideVars,
                     external>>
  PROVE  RenewalInv'
<1> PICK h \in HandlerType : h = handler[p]
  BY DEF RenewalInv, TypeOK
<1>1. Blank \in OperationType
  BY BlankTyped
<1> PICK kept \in OperationType, keptBase \in OperationType :
      /\ kept = IF stage = "run" THEN op ELSE Blank
      /\ keptBase = IF stage = "run" THEN base ELSE Blank
  BY <1>1
<1> DEFINE new ==
      [Idle EXCEPT !.pc = step, !.stage = stage, !.period = h.period,
                   !.op = op, !.base = base, !.expired = TRUE, !.pastDue = h.pastDue,
                   !.kept = kept, !.keptBase = keptBase]
<1>2. /\ new.pc = step /\ new.stage = stage /\ new.period = h.period /\ new.op = op
      /\ new.base = base /\ new.expired = TRUE /\ new.pastDue = h.pastDue
      /\ new.then = "idle" /\ new.patch = "none"
      /\ new.kept = kept /\ new.keptBase = keptBase
  BY DEF Idle
<1>3. new \in HandlerType
  <2>1. PICK k \in Period, due \in BOOLEAN : k = h.period /\ due = h.pastDue
    BY DEF HandlerType
  <2>2. PICK idle \in HandlerType : idle = Idle
    BY IdleTyped
  <2>3. new = [idle EXCEPT !.pc = step, !.stage = stage, !.period = k, !.op = op, !.base = base,
                           !.expired = TRUE, !.pastDue = due, !.kept = kept,
                           !.keptBase = keptBase]
    BY <2>1, <2>2
  <2> HIDE DEF new
  <2>4. QED
    BY <2>3 DEF HandlerType
<1>4. handler' = [handler EXCEPT ![p] = new]
  BY DEF Enter
<1> HIDE DEF new
<1>5. /\ handler' \in [Process -> HandlerType] /\ handler'[p] = new
      /\ \A q \in Process \ {p} : handler'[q] = handler[q]
  BY <1>3, <1>4 DEF RenewalInv, TypeOK
<1>6. StepFits(step, op)
  BY DEF StepFits
<1>7. QED
  BY <1>2, <1>3, <1>5, <1>6, TakeUp

LEMMA NextStageHolds ==
  ASSUME RenewalInv, NEW p \in Process,
         NEW op \in OperationType, NEW base \in OperationType,
         CopyOf(handler[p].period, op, base), Drifted(base, op),
         NextStage(p, op, base), faults' \in 0 .. MaxFaults,
         UNCHANGED <<now, workspace, operation, expired, requestVars, walletVars, outsideVars,
                     external>>
  PROVE  RenewalInv'
<1>1. /\ {"run", "expire_again", "receipt"} \subseteq Stage
      /\ {"run", "expiry", "expiry_receipt"} \subseteq Step
  BY DEF Stage, Step
<1>2. \/ Enter(p, "run", "run", op, base)
      \/ Enter(p, "expire_again", "expiry", op, base)
      \/ Enter(p, "receipt", "expiry_receipt", op, base)
  BY DEF NextStage
<1>3. QED
  BY <1>1, <1>2, EnterHolds

LEMMA ReloadHolds ==
  ASSUME RenewalInv, NEW p \in Process, Reload(p)
  PROVE  RenewalInv'
<1> PICK h \in HandlerType : h = handler[p]
  BY DEF RenewalInv, TypeOK
<1> PICK row \in OperationType : row = operation[h.period]
  BY DEF RenewalInv, TypeOK, HandlerType
<1>1. /\ h.pc = "reload" /\ handler \in [Process -> HandlerType] /\ h.period \in Period
      /\ h.op \in OperationType /\ h.base \in OperationType
      /\ h.kept \in OperationType /\ h.keptBase \in OperationType
      /\ faults' \in 0 .. MaxFaults
  BY FaultTyped DEF Reload, RenewalInv, TypeOK, HandlerType
<1>2. /\ CopyOf(h.period, h.op, h.base)
      /\ h.stage \in {"expire", "expire_again"} => Drifted(h.base, h.op)
      /\ h.stage = "run" /\ h.expired =>
           CopyOf(h.period, h.kept, h.keptBase) /\ Drifted(h.keptBase, h.kept)
  BY <1>1 DEF RenewalInv, HandlerFits
<1>3. /\ row.status # "none" /\ CopyFits(h.period, row)
      /\ row.committed => Granted(h.period)
  BY <1>1, <1>2 DEF CopyOf, Follows, RenewalInv, RowFits
<1>4. CopyOf(h.period, row, row) /\ Drifted(row, row) /\ Follows(row, row)
  BY <1>1, <1>3, RowIsCopy, FollowsSelf
<1>5. UNCHANGED <<now, workspace, operation, expired, requestVars, walletVars, outsideVars,
                  external>>
  BY DEF Reload
<1>6. CASE Return(p)
  <2>1. WorldMoves
    BY <1>1, <1>5, NoCall
  <2>2. QED
    BY <1>5, <1>6, <2>1, WorldReturn
<1>7. CASE NextStage(p, row, row)
  BY <1>1, <1>4, <1>5, <1>7, NextStageHolds
<1>8. CASE h.expired /\ h.stage = "run" /\ NextStage(p, h.kept, h.keptBase)
  BY <1>1, <1>2, <1>5, <1>8, NextStageHolds
<1>9. CASE h.stage \in {"expire", "expire_again"} /\ NextStage(p, h.op, h.base)
  BY <1>1, <1>2, <1>5, <1>9, NextStageHolds
<1>10. ASSUME h.stage = "resolve",
              NEW op \in OperationType, Follows(row, op), CopyFits(h.period, op),
              PatchFits(h.period, row, op, "none"),
              handler' = [handler EXCEPT ![p].op = op, ![p].base = row, ![p].patch = "none",
                                         ![p].pc = "persist", ![p].then = "idle"]
       PROVE  RenewalInv'
  <2> DEFINE new == [h EXCEPT !.op = op, !.base = row, !.patch = "none", !.pc = "persist",
                              !.then = "idle"]
  <2>1. new \in HandlerType
    <3>1. {"persist", "idle"} \subseteq Step /\ "none" \in Patch
      BY DEF Step, Patch
    <3>2. QED
      BY <3>1 DEF HandlerType
  <2>2. /\ new.pc = "persist" /\ new.op = op /\ new.base = row /\ new.period = h.period
        /\ new.patch = "none" /\ new.then = "idle" /\ new.stage = "resolve"
    BY <1>10 DEF HandlerType
  <2>3. StepFits("idle", op)
    BY DEF StepFits
  <2>4. /\ DOMAIN handler' = Process /\ handler' = [q \in Process |-> handler'[q]]
        /\ \A q \in Process \ {p} : handler'[q] = handler[q]
    BY <1>1, <1>10
  <2>5. handler'[p] = new
    BY <1>1, <1>10
  <2> HIDE DEF new
  <2>6. handler' \in [Process -> HandlerType]
    BY <1>1, <2>1, <2>4, <2>5
  <2>7. /\ Follows(row, op) /\ PatchFits(h.period, row, op, "none")
        /\ CopyOf(h.period, op, row)
    BY <1>4, <1>10 DEF CopyOf
  <2>8. QED
    BY <1>1, <1>5, <2>1, <2>2, <2>3, <2>4, <2>5, <2>6, <2>7, TakeUp
<1>11. CASE /\ h.stage = "resolve" /\ row.status = "active"
            /\ handler' = [handler EXCEPT ![p].op = [row EXCEPT !.resolution = "completed"],
                 ![p].base = row, ![p].patch = "none", ![p].pc = "persist", ![p].then = "idle"]
  BY <1>1, <1>3, <1>10, <1>11, CompletedFits
<1>12. CASE /\ h.stage = "resolve" /\ row.phase = "receipt"
            /\ handler' = [handler EXCEPT ![p].op = [row EXCEPT !.resolution = "receipt"],
                 ![p].base = row, ![p].patch = "none", ![p].pc = "persist", ![p].then = "idle"]
  BY <1>1, <1>3, <1>10, <1>12, UnreceiptedFits
<1>13. QED
  BY <1>6, <1>7, <1>8, <1>9, <1>11, <1>12 DEF Reload

LEMMA ResolveHolds ==
  ASSUME RenewalInv, NEW p \in Process, NEW k \in Period, Resolve(p, k)
  PROVE  RenewalInv'
<1> PICK row \in OperationType : row = operation[k]
  BY DEF RenewalInv, TypeOK
<1> DEFINE start == [Idle EXCEPT !.stage = "resolve", !.period = k, !.op = row, !.base = row]
<1>1. CopyFits(k, row)
  BY DEF RenewalInv, RowFits
<1>2. /\ row.status \in {"manual_review", "verifying", "active"} /\ row.confirmed
      /\ row.resolution = "none" => row.status = "manual_review"
  BY DEF Resolve, Resolvable
<1>3. UNCHANGED <<now, workspace, operation, expired, requestVars, walletVars, outsideVars,
                  faults, external>>
  BY DEF Resolve
<1>4. /\ start \in HandlerType /\ start.op = row /\ start.base = row /\ start.period = k
      /\ start.patch = "none" /\ start.stage = "resolve" /\ row.status # "none"
  <2>1. /\ start.op = row /\ start.base = row /\ start.period = k
        /\ start.patch = "none" /\ start.stage = "resolve" /\ row.status # "none"
    BY <1>2 DEF Idle
  <2>2. "idle" \in Step /\ "none" \in Patch /\ "resolve" \in Stage
    BY DEF Step, Patch, Stage
  <2>3. start \in HandlerType
    BY <2>2, BlankTyped DEF Idle, HandlerType
  <2>4. QED
    BY <2>1, <2>3
<1> HIDE DEF start
<1>5. CopyOf(k, row, row) /\ Drifted(row, row) /\ faults' \in 0 .. MaxFaults
  BY <1>3, <1>4, RowIsCopy DEF RenewalInv, TypeOK
<1>6. CASE /\ row.resolution = "none"
           /\ handler' = [handler EXCEPT ![p] =
                [start EXCEPT !.op = [row EXCEPT !.resolution = "verify_compute"],
                              !.pc = "persist", !.then = "resolve"]]
  <2> DEFINE op == [row EXCEPT !.resolution = "verify_compute"]
  <2>1. /\ op \in OperationType /\ CopyFits(k, op) /\ Follows(row, op)
        /\ PatchFits(k, row, op, "none")
    BY <1>1, <1>2, <1>6, ResolveFits
  <2>2. StepFits("resolve", op)
    BY <1>2, <1>6 DEF StepFits, OperationType
  <2> HIDE DEF op
  <2> DEFINE new == [start EXCEPT !.op = op, !.pc = "persist", !.then = "resolve"]
  <2>3. /\ new \in HandlerType /\ new.op = op /\ new.base = row /\ new.period = k
        /\ new.patch = "none" /\ new.pc = "persist" /\ new.then = "resolve"
        /\ new.stage = "resolve" /\ CopyOf(k, op, row)
    BY <1>4, <1>5, <2>1 DEF HandlerType, Step, CopyOf
  <2> HIDE DEF new
  <2>4. /\ handler' \in [Process -> HandlerType] /\ handler'[p] = new
        /\ \A q \in Process \ {p} : handler'[q] = handler[q]
    BY <1>6, <2>3 DEF new, op, RenewalInv, TypeOK
  <2>5. QED
    BY <1>3, <1>5, <2>1, <2>2, <2>3, <2>4, TakeUp
<1>7. ASSUME NEW step \in {"run", "resolve"}, StepFits(step, row),
             handler' = [handler EXCEPT ![p] = [start EXCEPT !.pc = step]]
      PROVE  RenewalInv'
  <2> DEFINE new == [start EXCEPT !.pc = step]
  <2>1. /\ new \in HandlerType /\ new.op = row /\ new.base = row /\ new.period = k
        /\ new.pc = step /\ new.stage = "resolve"
    BY <1>4 DEF HandlerType, Step
  <2> HIDE DEF new
  <2>2. /\ handler' \in [Process -> HandlerType] /\ handler'[p] = new
        /\ \A q \in Process \ {p} : handler'[q] = handler[q]
    BY <1>7, <2>1 DEF new, RenewalInv, TypeOK
  <2>3. StepFits(step, row) /\ step \in {"run", "resolve"}
    BY <1>7
  <2>4. QED
    BY <1>3, <1>5, <2>1, <2>2, <2>3, TakeUp
<1>8. CASE handler' = [handler EXCEPT ![p] = [start EXCEPT !.pc = "reload"]]
  <2> DEFINE new == [start EXCEPT !.pc = "reload"]
  <2>1. /\ new \in HandlerType /\ new.op = row /\ new.base = row /\ new.period = k
        /\ new.pc = "reload" /\ new.stage = "resolve"
    BY <1>4 DEF HandlerType, Step
  <2> HIDE DEF new
  <2>2. /\ handler' \in [Process -> HandlerType] /\ handler'[p] = new
        /\ \A q \in Process \ {p} : handler'[q] = handler[q]
    BY <1>8, <2>1 DEF RenewalInv, TypeOK, new
  <2>3. QED
    BY <1>3, <1>5, <2>1, <2>2, TakeUp
<1>9. QED
  <2>1. StepFits("run", row) /\ (row.status = "manual_review" => StepFits("resolve", row))
    BY <1>2 DEF StepFits
  <2>2. QED
    BY <1>2, <1>6, <1>7, <1>8, <2>1 DEF Resolve, start

LEMMA ResolveVerifyHolds ==
  ASSUME RenewalInv, NEW p \in Process, NEW r \in Resource, ResolveVerify(p, r)
  PROVE  RenewalInv'
<1> PICK h \in HandlerType : h = handler[p]
  BY DEF RenewalInv, TypeOK
<1> DEFINE k == h.period
<1>1. handler[p].pc = "resolve" /\ h.op.resolution = VerifyPhase(r)
  BY DEF ResolveVerify
<1>2. /\ k \in Period /\ h.op \in OperationType /\ CopyFits(k, h.op)
      /\ h.op.status = "manual_review" /\ h.op.confirmed
      /\ h.op.refundAttempted => r = "compute" /\ ~ provider["compute"].alive
  BY <1>1, AtWork DEF StepFits, CopyFits, PhaseFits, IsTrue, VerifyPhase, Resource
<1>3. /\ UNCHANGED <<now, workspace, operation, expired, requestVars, external>>
      /\ UNCHANGED <<operation, walletVars, rowGone, receipts, inFlight>>
  BY DEF ResolveVerify
<1>4. /\ WorldMoves
      /\ Confirmed(r, k) => provider[r].alive
  BY <1>2, <1>3, Readback DEF ResolveVerify
<1>5. CASE Return(p)
  BY <1>3, <1>4, <1>5, WorldReturn
<1>6. CASE /\ Confirmed(r, k) /\ r = "compute"
           /\ Save(p, [h.op EXCEPT !.resolution = "verify_storage"], "resolve")
  <2> DEFINE new == [h.op EXCEPT !.resolution = "verify_storage"]
  <2>1. /\ new \in OperationType /\ CopyFits(k, new) /\ Follows(h.op, new)
        /\ PatchFits(k, h.op, new, "none")
    BY <1>2, <1>4, <1>6, ResolveFits
  <2>2. StepFits("resolve", new)
    BY <1>2 DEF StepFits, OperationType
  <2>3. SaveBoth(p, new, "none", "resolve")
    BY <1>6 DEF Save
  <2> HIDE DEF new
  <2>4. QED
    BY <1>1, <1>3, <1>4, <2>1, <2>2, <2>3, Continuations, WorldSave
<1>7. CASE /\ r = "storage"
           /\ Save(p, [h.op EXCEPT !.status = "verifying", !.phase = "entitlement",
                                   !.resolution = "entitlement"], "run")
  BY <1>1, <1>2, <1>3, <1>4, <1>7, Continuations, ResolvedFits, WorldSave DEF StepFits, Save
<1>8. QED
  BY <1>5, <1>6, <1>7 DEF ResolveVerify, Resource
-----------------------------------------------------------------------------
(* The steps that move a row on.                                           *)

LEMMA RowMoves ==
  ASSUME RenewalInv, TypeOK', NEW p \in Process, NEW k \in Period, NEW new \in OperationType,
         operation' = [operation EXCEPT ![k] = new], Follows(operation[k], new),
         \A q \in Process \ {p} : handler'[q] = handler[q],
         UNCHANGED <<now, requestVars, walletVars, outsideVars>>,
         workspace'.paid >= workspace.paid,
         HandlerFits(p)', \A j \in Period : RowFits(j)', WorkspaceFits'
  PROVE  RenewalInv'
<1>1. Grows
  BY DEF RenewalInv, TypeOK, Grows, walletVars, outsideVars
<1>2. \A j \in Period : operation'[j] = operation[j] \/ (j = k /\ operation'[j] = new)
  BY DEF RenewalInv, TypeOK
<1>3. \A j \in Period : operation'[j] = operation[j] \/ Follows(operation[j], operation'[j])
  BY <1>2
<1>4. \A q \in Process : HandlerFits(q)'
  BY <1>1, <1>3, HandlerStaysFit
<1>5. ASSUME NEW j \in Period
      PROVE  EffectsFit(j)'
  <2>1. /\ charged' = charged /\ refunded' = refunded /\ provider' = provider
        /\ inFlight' = inFlight /\ EffectsFit(j)
    BY DEF walletVars, outsideVars, RenewalInv
  <2>2. CASE operation'[j] = operation[j]
    BY <2>1, <2>2 DEF EffectsFit
  <2>3. CASE Follows(operation[j], operation'[j])
    BY <2>1, <2>3 DEF EffectsFit, Follows, Preserves
  <2>4. QED
    BY <1>3, <2>2, <2>3
<1>6. receipts' = receipts /\ RequestFits' /\ \A r \in rowGone' : ~ provider'[r].alive
  BY DEF RenewalInv, RequestFits, requestVars, outsideVars
<1>7. ReceiptsTrue' /\ \A e \in receipts' : ReceiptFits(e)'
  BY <1>1, <1>3, <1>5, <1>6, ReceiptsStayTrue
<1>8. QED
  BY <1>4, <1>5, <1>6, <1>7, PromisesFollow DEF RenewalInv

(* What a write does to the Workspace row.                                 *)
LEMMA PatchedFields ==
  ASSUME NEW ws \in WorkspaceType, ws = workspace, NEW patch \in Patch \ {"none"}
  PROVE  LET new == Patched(patch) IN
         /\ new \in WorkspaceType
         /\ patch \in {"extend", "extend_running"} =>
              /\ new.paid = ws.paid + 1 /\ new.autoRenew = ws.autoRenew
              /\ new.status = "active"
         /\ patch = "extend" => new.state = ws.state
         /\ patch = "extend_running" => new.state = "running"
         /\ patch = "suspend" =>
              /\ new.paid = ws.paid /\ new.autoRenew = ws.autoRenew
              /\ new.status = ws.status /\ new.state = "suspended"
         /\ patch \in {"suspend_cancel", "cancel"} =>
              /\ new.paid = ws.paid /\ ~ new.autoRenew /\ new.status = "expired_unpaid"
         /\ patch = "suspend_cancel" => new.state = "suspended"
         /\ patch = "cancel" => new.state = ws.state
<1>1. CASE patch = "extend"
  <2>1. Patched(patch) = [ws EXCEPT !.paid = ws.paid + 1, !.status = "active"]
    BY <1>1 DEF Patched
  <2>2. ws.paid + 1 \in Nat
    BY DEF WorkspaceType
  <2>3. QED
    BY <1>1, <2>1, <2>2 DEF WorkspaceType
<1>2. CASE patch = "extend_running"
  <2>1. Patched(patch) = [ws EXCEPT !.paid = ws.paid + 1, !.status = "active",
                                    !.state = "running"]
    BY <1>2 DEF Patched
  <2>2. ws.paid + 1 \in Nat
    BY DEF WorkspaceType
  <2>3. QED
    BY <1>2, <2>1, <2>2 DEF WorkspaceType
<1>3. CASE patch = "suspend"
  BY <1>3 DEF Patched, WorkspaceType
<1>4. CASE patch = "suspend_cancel"
  BY <1>4 DEF Patched, WorkspaceType
<1>5. CASE patch = "cancel"
  BY <1>5 DEF Patched, WorkspaceType
<1>6. QED
  BY <1>1, <1>2, <1>3, <1>4, <1>5 DEF Patch

LEMMA LostWriteHolds ==
  ASSUME RenewalInv, NEW p \in Process, handler[p].pc = "persist", Goto(p, "reload"),
         faults' \in 0 .. MaxFaults,
         UNCHANGED <<now, workspace, operation, expired, requestVars, walletVars, outsideVars,
                     external>>
  PROVE  RenewalInv'
<1> PICK h \in HandlerType : h = handler[p]
  BY DEF RenewalInv, TypeOK
<1>1. "reload" \in Step
  BY DEF Step
<1>2. /\ handler' \in [Process -> HandlerType]
      /\ \A q \in Process \ {p} : handler'[q] = handler[q]
  BY <1>1, GotoTyped
<1>3. handler'[p] = [h EXCEPT !.pc = "reload"]
  BY DEF Goto, RenewalInv, TypeOK
<1>4. /\ h.period \in Period /\ h.op \in OperationType /\ h.base \in OperationType
      /\ h.kept \in OperationType /\ h.keptBase \in OperationType
      /\ CopyOf(h.period, h.op, h.base)
      /\ h.stage \in {"expire", "expire_again"} => Drifted(h.base, h.op)
      /\ h.stage = "run" /\ h.expired =>
           CopyOf(h.period, h.kept, h.keptBase) /\ Drifted(h.keptBase, h.kept)
  BY DEF RenewalInv, HandlerFits, HandlerType
<1>5. TypeOK /\ TypeOK' /\ Grows
  BY <1>2 DEF RenewalInv, TypeOK, Grows, requestVars, walletVars, outsideVars
<1>6. CopyOf(h.period, h.op, h.base)'
  BY <1>4, <1>5, CopyOfStays
<1>7. h.stage = "run" /\ h.expired => CopyOf(h.period, h.kept, h.keptBase)'
  BY <1>4, <1>5, CopyOfStays
<1>8. HandlerFits(p)'
  BY <1>3, <1>4, <1>6, <1>7 DEF HandlerFits, HandlerType
<1>9. QED
  BY <1>2, <1>8, QuietStep

(* A write that wins the compare, by the row it leaves.                    *)
LEMMA WriteHolds ==
  ASSUME RenewalInv, NEW p \in Process, handler[p].pc = "persist", Current(handler[p]),
         operation' = [operation EXCEPT ![handler[p].period] = handler[p].op],
         workspace' = IF handler[p].patch = "none" THEN workspace ELSE Patched(handler[p].patch),
         IF handler[p].then = "idle"
         THEN Return(p)
         ELSE handler' = [handler EXCEPT ![p].pc = handler[p].then, ![p].then = "idle",
                                         ![p].base = handler[p].op, ![p].patch = "none"],
         UNCHANGED <<now, expired, requestVars, walletVars, outsideVars, faults, external>>
  PROVE  RenewalInv'
<1> PICK h \in HandlerType : h = handler[p]
  BY DEF RenewalInv, TypeOK
<1> PICK k \in Period : k = h.period
  BY DEF HandlerType
<1> PICK new \in OperationType : new = h.op
  BY DEF HandlerType
<1> PICK row \in OperationType : row = operation[k]
  BY DEF RenewalInv, TypeOK
<1> PICK ws \in WorkspaceType : ws = workspace
  BY DEF RenewalInv, TypeOK
<1>1. /\ row = h.base /\ row.status # "none" /\ Follows(row, new) /\ CopyFits(k, new)
      /\ StepFits(h.then, new) /\ PatchFits(k, row, new, h.patch)
      /\ h.then \notin {"persist", "verify_storage", "commit"}
      /\ h.stage \in {"expire", "expire_again"} => h.then \in {"expiry", "reload"}
      /\ h.then = "expiry" => h.stage \in {"expire", "expire_again"}
      /\ h.stage = "run" /\ h.expired =>
           CopyOf(h.period, h.kept, h.keptBase) /\ Drifted(h.keptBase, h.kept)
  BY DEF RenewalInv, HandlerFits, CopyOf, Current
<1>2. /\ \A j \in Period : RowFits(j) /\ operation[j] \in OperationType
      /\ WorkspaceFits /\ ws.paid \in Nat /\ k \in Nat /\ k >= 1
      /\ operation' \in [Period -> OperationType] /\ operation'[k] = new
      /\ \A j \in Period : j # k => operation'[j] = operation[j]
  BY DEF RenewalInv, TypeOK, WorkspaceType, Period
<1>3. /\ h.patch \in {"extend", "extend_running"} => ws.paid = k
      /\ h.patch \in {"suspend", "suspend_cancel", "cancel"} => ws.paid = new.expiryPaid
  BY DEF Current, ExpectedWorkspace
<1>4. PICK ws2 \in WorkspaceType :
        /\ ws2 = workspace'
        /\ h.patch = "none" => ws2 = ws
        /\ h.patch \in {"extend", "extend_running"} =>
             ws2.paid = ws.paid + 1 /\ ws2.autoRenew = ws.autoRenew /\ ws2.status = "active"
        /\ h.patch = "extend" => ws2.state = ws.state
        /\ h.patch = "extend_running" => ws2.state = "running"
        /\ h.patch = "suspend" =>
             /\ ws2.paid = ws.paid /\ ws2.autoRenew = ws.autoRenew
             /\ ws2.status = ws.status /\ ws2.state = "suspended"
        /\ h.patch \in {"suspend_cancel", "cancel"} =>
             ws2.paid = ws.paid /\ ~ ws2.autoRenew /\ ws2.status = "expired_unpaid"
        /\ h.patch = "suspend_cancel" => ws2.state = "suspended"
        /\ h.patch = "cancel" => ws2.state = ws.state
  BY PatchedFields DEF HandlerType
<1>5. h.patch \in {"none", "extend", "extend_running", "suspend", "suspend_cancel", "cancel"}
  BY DEF HandlerType, Patch
<1>6. h.patch \in {"extend", "extend_running"} => ws.status # "expired_unpaid"
  <2>1. row.status \in {"none", "expired_unpaid", "refunded"} => row.status # "verifying"
    OBVIOUS
  <2>2. QED
    BY <1>1, <1>2, <1>3, <2>1 DEF PatchFits, WorkspaceFits
<1>7. /\ ws2.paid \in Nat /\ ws2.paid >= ws.paid
      /\ ws.status = "expired_unpaid" => ws2.status = "expired_unpaid" /\ ws2.paid = ws.paid
      /\ ws2.autoRenew => ws.autoRenew
  BY <1>2, <1>4, <1>5, <1>6 DEF WorkspaceType
<1>8. /\ h.patch = "extend" => row.expiry = "none" /\ new.expiry = "none"
      /\ h.patch # "extend_running" =>
           /\ new.expiryPaid = row.expiryPaid
           /\ new.expiry # "none" <=> row.expiry # "none"
      /\ h.patch = "extend_running" => new.expiry = "none"
  <2>1. CopyFits(k, row)
    BY <1>2 DEF RowFits
  <2>2. new.committed => new.status \in {"active", "verifying"}
    BY <1>1 DEF CopyFits, PhaseFits
  <2>3. row.expiry = "expired_unpaid" => row.status # "verifying" \/ row.committed
    BY <2>1 DEF CopyFits, ExpiryFits
  <2>4. row.expiry \in {"none", "past_due", "expired_unpaid"}
    BY DEF OperationType, ExpiryStatus
  <2>5. QED
    BY <1>1, <2>2, <2>3, <2>4 DEF PatchFits, ExpiryAdvances
<1>9. /\ handler' \in [Process -> HandlerType]
      /\ \A q \in Process \ {p} : handler'[q] = handler[q]
      /\ \/ HandlerFits(p)'
         \/ /\ handler'[p].pc = h.then /\ handler'[p].op = new /\ handler'[p].base = new
            /\ handler'[p].period = k
            /\ handler'[p].stage = h.stage /\ handler'[p].expired = h.expired
            /\ handler'[p].kept = h.kept /\ handler'[p].keptBase = h.keptBase
  <2>1. CASE h.then = "idle"
    BY <2>1, IdleStep
  <2>2. CASE h.then # "idle"
    <3> DEFINE after == [h EXCEPT !.pc = h.then, !.then = "idle", !.base = new,
                                  !.patch = "none"]
    <3>1. /\ after \in HandlerType /\ after.pc = h.then /\ after.op = new
          /\ after.base = new /\ after.period = k
          /\ after.stage = h.stage /\ after.expired = h.expired
          /\ after.kept = h.kept /\ after.keptBase = h.keptBase
      <4>1. "idle" \in Step /\ "none" \in Patch /\ h.then \in Step
        BY DEF Step, Patch, HandlerType
      <4>2. after \in HandlerType
        BY <4>1 DEF HandlerType
      <4>3. /\ after.pc = h.then /\ after.op = new /\ after.base = new /\ after.period = k
            /\ after.stage = h.stage /\ after.expired = h.expired
            /\ after.kept = h.kept /\ after.keptBase = h.keptBase
        BY DEF HandlerType
      <4>4. QED
        BY <4>2, <4>3
    <3>2. /\ handler' \in [Process -> HandlerType] /\ handler'[p] = after
          /\ \A q \in Process \ {p} : handler'[q] = handler[q]
      <4>1. handler' = [handler EXCEPT ![p] = after] /\ handler \in [Process -> HandlerType]
        BY <2>2 DEF RenewalInv, TypeOK
      <4> HIDE DEF after
      <4>2. QED
        BY <3>1, <4>1
    <3> HIDE DEF after
    <3>3. QED
      BY <3>1, <3>2
  <2>3. QED
    BY <2>1, <2>2
<1>10. TypeOK'
  BY <1>2, <1>4, <1>9 DEF RenewalInv, TypeOK, requestVars, walletVars, outsideVars
<1>11. /\ now' = now /\ charged' = charged /\ refunded' = refunded /\ provider' = provider
       /\ promised' = promised
  BY DEF walletVars, outsideVars, requestVars
<1>12. CopyFits(k, new)' /\ (new.committed => Granted(k)')
  BY <1>1, <1>11 DEF CopyFits, MoneyFits, PhaseFits, PastRefund, ExpiryFits, IsTrue, PatchFits,
                     Granted
<1>13. HandlerFits(p)'
  <2>1. new.status # "none"
    BY <1>1 DEF Follows
  <2>2. CopyOf(k, new, new)' /\ Drifted(new, new)
    BY <1>2, <1>12, <2>1, FollowsSelf, DriftSelf DEF CopyOf
  <2>3. Grows /\ TypeOK
    BY <1>11 DEF RenewalInv, TypeOK, Grows
  <2>4. h.kept \in OperationType /\ h.keptBase \in OperationType
    BY DEF HandlerType
  <2>5. h.stage = "run" /\ h.expired => CopyOf(k, h.kept, h.keptBase)'
    BY <1>1, <1>2, <1>10, <2>3, <2>4, CopyOfStays
  <2>6. QED
    BY <1>1, <1>9, <2>2, <2>5 DEF HandlerFits
<1>14. RowFits(k)'
  <2>1. RowFits(k) /\ new.status # "none"
    BY <1>1, <1>2 DEF Follows
  <2>2. k <= ws2.paid
    BY <1>1, <1>2, <1>7, <2>1 DEF RowFits
  <2>3. new.committed <=> k < ws2.paid
    <3>1. CASE h.patch \in {"extend", "extend_running"}
      <4>1. ws2.paid = k + 1 /\ k \in Nat
        BY <1>2, <1>3, <1>4, <3>1
      <4>2. QED
        BY <1>1, <3>1, <4>1 DEF PatchFits
    <3>2. CASE h.patch \notin {"extend", "extend_running"}
      <4>1. ws2.paid = ws.paid
        BY <1>4, <1>5, <3>2
      <4>2. new.committed <=> row.committed
        BY <1>1, <3>2 DEF PatchFits, Follows, Preserves, OperationType
      <4>3. QED
        BY <2>1, <4>1, <4>2 DEF RowFits
    <3>3. QED
      BY <3>1, <3>2
  <2>4. new.committed /\ (~ Terminal(new) \/ new.expiry # "none") =>
          \A j \in Period : j > k => operation'[j].status = "none"
    <3> SUFFICES ASSUME new.committed, ~ Terminal(new) \/ new.expiry # "none",
                        NEW j \in Period, j > k
                 PROVE  operation[j].status = "none"
      BY <1>2 DEF Period
    <3>1. CASE row.committed
      <4>1. ~ Terminal(row) \/ row.expiry # "none"
        BY <1>1, <1>8, <3>1 DEF Follows, PatchFits
      <4>2. QED
        BY <2>1, <3>1, <4>1 DEF RowFits
    <3>2. CASE ~ row.committed
      <4>1. ws.paid = k
        BY <1>1, <1>3, <3>2 DEF PatchFits
      <4>2. QED
        BY <1>2, <4>1 DEF RowFits, Period
    <3>3. QED
      BY <3>1, <3>2
  <2>5. new.expiry # "none" => new.expiryPaid = ws2.paid
    BY <1>4, <1>5, <1>8, <2>1 DEF RowFits
  <2>6. k \in promised => ~ ws2.autoRenew /\ new.status \in {"none", "expired_unpaid", "refunded"}
    BY <1>1, <1>7, <2>1 DEF RowFits, Follows
  <2>7. operation'[k] = new /\ workspace' = ws2 /\ promised' = promised
    BY <1>2, <1>4, <1>11
  <2>8. QED
    BY <1>12, <2>2, <2>3, <2>4, <2>5, <2>6, <2>7 DEF RowFits
<1>15. ASSUME NEW j \in Period, j # k
       PROVE  RowFits(j)'
  <2> PICK other \in OperationType : other = operation[j]
    BY <1>2
  <2>1. /\ RowFits(j) /\ operation'[j] = other /\ CopyFits(j, other) /\ j \in Nat
    BY <1>2, <1>15 DEF RowFits, Period
  <2>2. CopyFits(j, other)' /\ (other.committed => Granted(j)')
    BY <1>11, <2>1 DEF CopyFits, MoneyFits, PhaseFits, PastRefund, ExpiryFits, IsTrue, RowFits,
                       Granted
  <2>3. h.patch \in {"extend", "extend_running"} =>
          /\ ws2.paid = k + 1 /\ ws.paid = k
          /\ j > k => other.status = "none"
    BY <1>2, <1>3, <1>4, <2>1 DEF RowFits
  <2>4. other.status = "none" => ~ other.committed /\ other.expiry = "none"
    BY <2>1 DEF CopyFits, MoneyFits, Blank
  <2>5. h.patch \notin {"extend", "extend_running"} => ws2.paid = ws.paid
    BY <1>4, <1>5
  <2>6. /\ other.status # "none" => j <= ws2.paid
        /\ other.committed <=> j < ws2.paid
    <3>1. CASE h.patch \in {"extend", "extend_running"}
      BY <1>2, <1>15, <2>1, <2>3, <2>4, <3>1 DEF RowFits
    <3>2. CASE h.patch \notin {"extend", "extend_running"}
      BY <2>1, <2>5, <3>2 DEF RowFits
    <3>3. QED
      BY <3>1, <3>2
  <2>7. other.committed /\ (~ Terminal(other) \/ other.expiry # "none") =>
          \A i \in Period : i > j => operation'[i].status = "none"
    <3> SUFFICES ASSUME other.committed, ~ Terminal(other) \/ other.expiry # "none",
                        NEW i \in Period, i > j
                 PROVE  operation'[i].status = "none"
      OBVIOUS
    <3>1. operation[i].status = "none"
      BY <2>1 DEF RowFits
    <3>2. i # k
      BY <1>1, <3>1
    <3>3. QED
      BY <1>2, <3>1, <3>2
  <2>8. other.expiry # "none" => other.expiryPaid = ws2.paid
    <3>1. CASE h.patch \in {"extend", "extend_running"}
      <4> SUFFICES ASSUME other.expiry # "none" PROVE FALSE
        OBVIOUS
      <4>1. j < k
        BY <1>2, <1>15, <2>1, <2>3, <2>4, <3>1
      <4>2. other.committed
        BY <2>1, <2>3, <3>1, <4>1 DEF RowFits
      <4>3. operation[k].status = "none"
        BY <1>2, <2>1, <4>1, <4>2 DEF RowFits
      <4>4. QED
        BY <1>1, <4>3
    <3>2. CASE h.patch \notin {"extend", "extend_running"}
      BY <2>1, <2>5, <3>2 DEF RowFits
    <3>3. QED
      BY <3>1, <3>2
  <2>9. j \in promised =>
           ~ ws2.autoRenew /\ other.status \in {"none", "expired_unpaid", "refunded"}
    BY <1>7, <2>1 DEF RowFits
  <2>10. workspace' = ws2 /\ promised' = promised
    BY <1>4, <1>11
  <2>11. QED
    BY <2>1, <2>2, <2>6, <2>7, <2>8, <2>9, <2>10 DEF RowFits
<1>16. WorkspaceFits'
  <2>1. ws2.paid \in 1 .. (LastPeriod + 1)
    BY <1>2, <1>3, <1>4, <1>5 DEF WorkspaceFits, Period
  <2>2. ASSUME ws2.status = "expired_unpaid"
        PROVE  /\ now >= 2 * ws2.paid /\ ~ ws2.autoRenew
               /\ ws2.paid \in Period =>
                    operation'[ws2.paid].status \in {"none", "expired_unpaid", "refunded"}
    <3>1. CASE ws.status = "expired_unpaid"
      <4>1. now >= 2 * ws.paid /\ ~ ws2.autoRenew /\ ws2.paid = ws.paid
        BY <1>2, <1>4, <1>5, <1>6, <1>7, <3>1 DEF WorkspaceFits
      <4>2. ws.paid \in Period =>
              operation[ws.paid].status \in {"none", "expired_unpaid", "refunded"}
        BY <1>2, <3>1 DEF WorkspaceFits
      <4>3. ws.paid = k => operation'[k].status \in {"none", "expired_unpaid", "refunded"}
        <5>1. row.status \in {"expired_unpaid", "refunded"} => new.status = row.status
          BY <1>1 DEF Follows
        <5>2. QED
          BY <1>1, <1>2, <4>2, <5>1
      <4>4. QED
        BY <1>2, <4>1, <4>2, <4>3
    <3>2. CASE ws.status # "expired_unpaid"
      <4>1. h.patch \in {"suspend_cancel", "cancel"}
        BY <1>4, <1>5, <2>2, <3>2
      <4>2. ws2.paid = new.expiryPaid /\ ws.paid = ws2.paid /\ ~ ws2.autoRenew
        BY <1>3, <1>4, <4>1
      <4>3. new.expiry = "expired_unpaid" /\ row.expiry # "none"
        BY <1>1, <1>8, <4>1 DEF PatchFits
      <4>4. /\ now >= 2 * new.expiryPaid
            /\ new.status \in {"expired_unpaid", "refunded"} \/ new.committed
        BY <1>1, <4>3 DEF CopyFits, ExpiryFits
      <4>5. RowFits(k) /\ (new.committed => row.committed)
        BY <1>1, <1>2, <4>1 DEF PatchFits
      <4>6. CASE new.committed
        <5>1. ws.paid > k /\ \A j \in Period : j > k => operation[j].status = "none"
          BY <1>2, <4>3, <4>5, <4>6 DEF RowFits
        <5>2. QED
          BY <1>2, <4>2, <4>4, <5>1
      <4>7. CASE ~ new.committed
        <5>1. ~ row.committed
          BY <1>1, <4>7 DEF Follows, Preserves
        <5>2. k = ws.paid
          BY <1>1, <1>2, <4>5, <5>1 DEF RowFits
        <5>3. QED
          BY <1>2, <4>2, <4>4, <4>7, <5>2
      <4>8. QED
        BY <4>6, <4>7
    <3>3. QED
      BY <3>1, <3>2
  <2>3. ASSUME ws2.state = "suspended"
        PROVE  /\ now >= 2 * ws2.paid
               /\ \/ ws2.status = "expired_unpaid"
                  \/ ws2.paid \in Period /\ operation'[ws2.paid].expiry # "none"
    <3>1. CASE h.patch = "none"
      <4>1. ws2 = ws
        BY <1>4, <3>1
      <4>2. /\ now >= 2 * ws.paid
            /\ \/ ws.status = "expired_unpaid"
               \/ ws.paid \in Period /\ operation[ws.paid].expiry # "none"
        BY <1>2, <2>3, <4>1 DEF WorkspaceFits
      <4>3. row.expiry # "none" => new.expiry # "none"
        BY <1>8, <3>1
      <4>4. QED
        BY <1>2, <4>1, <4>2, <4>3
    <3>2. CASE h.patch = "extend"
      <4>1. ws.state = "suspended" /\ ws.paid = k
        BY <1>3, <1>4, <2>3, <3>2
      <4>2. row.expiry # "none"
        BY <1>2, <1>6, <3>2, <4>1 DEF WorkspaceFits
      <4>3. QED
        BY <1>8, <3>2, <4>2
    <3>3. CASE h.patch = "extend_running"
      BY <1>4, <2>3, <3>3
    <3>4. CASE h.patch = "suspend"
      <4>1. new.expiry = "past_due"
        BY <1>1, <3>4 DEF PatchFits
      <4>2. new.expiryPaid = k /\ now >= 2 * k
        BY <1>1, <4>1 DEF CopyFits, ExpiryFits
      <4>3. ws2.paid = k
        BY <1>3, <1>4, <3>4, <4>2
      <4>4. QED
        BY <1>2, <4>1, <4>2, <4>3
    <3>5. CASE h.patch \in {"suspend_cancel", "cancel"}
      <4>1. new.expiry = "expired_unpaid"
        BY <1>1, <3>5 DEF PatchFits
      <4>2. now >= 2 * new.expiryPaid
        BY <1>1, <4>1 DEF CopyFits, ExpiryFits
      <4>3. QED
        BY <1>3, <1>4, <3>5, <4>2
    <3>6. QED
      BY <1>5, <3>1, <3>2, <3>3, <3>4, <3>5
  <2>4. QED
    BY <1>4, <1>11, <2>1, <2>2, <2>3 DEF WorkspaceFits
<1>17. QED
  <2>1. \A j \in Period : RowFits(j)'
    BY <1>14, <1>15
  <2>2. Follows(operation[k], new)
    BY <1>1
  <2>3. QED
    BY <1>4, <1>7, <1>9, <1>10, <1>13, <1>16, <2>1, <2>2, RowMoves

LEMMA PersistHolds ==
  ASSUME RenewalInv, NEW p \in Process, Persist(p)
  PROVE  RenewalInv'
<1>1. handler[p].pc = "persist"
  BY DEF Persist
<1>2. UNCHANGED <<now, expired, requestVars, walletVars, outsideVars, external>>
  BY DEF Persist
<1>3. CASE /\ Sound /\ Current(handler[p])
           /\ operation' = [operation EXCEPT ![handler[p].period] = handler[p].op]
           /\ workspace' = IF handler[p].patch = "none"
                            THEN workspace ELSE Patched(handler[p].patch)
           /\ IF handler[p].then = "idle"
              THEN Return(p)
              ELSE handler' = [handler EXCEPT ![p].pc = handler[p].then, ![p].then = "idle",
                                              ![p].base = handler[p].op, ![p].patch = "none"]
  BY <1>1, <1>2, <1>3, WriteHolds DEF Sound
<1>4. CASE /\ Sound \/ Fault
           /\ Return(p) \/ Goto(p, "reload")
           /\ UNCHANGED <<operation, workspace>>
  <2>1. faults' \in 0 .. MaxFaults
    BY <1>4, FaultTyped
  <2>2. CASE Goto(p, "reload")
    BY <1>1, <1>2, <1>4, <2>1, <2>2, LostWriteHolds
  <2>3. CASE Return(p)
    <3>1. WorldMoves
      BY <1>2, <1>4, <2>1, NoCall
    <3>2. QED
      BY <1>2, <1>4, <2>3, <3>1, WorldReturn
  <2>4. QED
    BY <1>4, <2>2, <2>3
<1>5. QED
  BY <1>3, <1>4 DEF Persist

(* The operation a pass begins with.                                       *)
Opened(p, k) == [OpenExpiry(k, Found(k)) EXCEPT !.lease = p]

\* What opening the expiry half writes into an operation, and what it leaves.
ExpiryOpened(op, x, paid, p) ==
  [op EXCEPT !.expiry = x, !.expiryPhase = "suspend", !.expiryPaid = paid, !.lease = p]
UnpaidOpened(op, paid, p) ==
  [op EXCEPT !.status = "expired_unpaid", !.expiry = "expired_unpaid",
             !.expiryPhase = "suspend", !.expiryPaid = paid, !.lease = p]

KeptByOpening(op, new) ==
  /\ new.phase = op.phase /\ new.attempted = op.attempted /\ new.pre = op.pre
  /\ new.confirmed = op.confirmed /\ new.refundAttempted = op.refundAttempted
  /\ new.refundConfirmed = op.refundConfirmed /\ new.committed = op.committed
  /\ new.resolution = op.resolution

LEMMA PastDueFields ==
  ASSUME NEW op \in OperationType, NEW x \in ExpiryStatus, NEW paid \in Nat, NEW p \in Process
  PROVE  /\ ExpiryOpened(op, x, paid, p) \in OperationType
         /\ ExpiryOpened(op, x, paid, p).status = op.status
         /\ ExpiryOpened(op, x, paid, p).expiry = x
         /\ ExpiryOpened(op, x, paid, p).expiryPhase = "suspend"
         /\ ExpiryOpened(op, x, paid, p).expiryPaid = paid
         /\ KeptByOpening(op, ExpiryOpened(op, x, paid, p))
<1>1. "suspend" \in ExpiryPhase
  BY DEF ExpiryPhase
<1>2. ExpiryOpened(op, x, paid, p) \in OperationType
  BY <1>1 DEF ExpiryOpened, OperationType
<1>3. /\ ExpiryOpened(op, x, paid, p).status = op.status
      /\ ExpiryOpened(op, x, paid, p).expiry = x
      /\ ExpiryOpened(op, x, paid, p).expiryPhase = "suspend"
      /\ ExpiryOpened(op, x, paid, p).expiryPaid = paid
  BY DEF ExpiryOpened, OperationType
<1>4. KeptByOpening(op, ExpiryOpened(op, x, paid, p))
  BY DEF ExpiryOpened, OperationType, KeptByOpening
<1>5. QED
  BY <1>2, <1>3, <1>4

LEMMA UnpaidFields ==
  ASSUME NEW op \in OperationType, NEW paid \in Nat, NEW p \in Process
  PROVE  /\ UnpaidOpened(op, paid, p) \in OperationType
         /\ UnpaidOpened(op, paid, p).status = "expired_unpaid"
         /\ UnpaidOpened(op, paid, p).expiry = "expired_unpaid"
         /\ UnpaidOpened(op, paid, p).expiryPhase = "suspend"
         /\ UnpaidOpened(op, paid, p).expiryPaid = paid
         /\ KeptByOpening(op, UnpaidOpened(op, paid, p))
<1>1. "suspend" \in ExpiryPhase /\ "expired_unpaid" \in Status /\ "expired_unpaid" \in ExpiryStatus
  BY DEF ExpiryPhase, Status, ExpiryStatus
<1>2. UnpaidOpened(op, paid, p) \in OperationType
  BY <1>1 DEF UnpaidOpened, OperationType
<1>3. /\ UnpaidOpened(op, paid, p).status = "expired_unpaid"
      /\ UnpaidOpened(op, paid, p).expiry = "expired_unpaid"
      /\ UnpaidOpened(op, paid, p).expiryPhase = "suspend"
      /\ UnpaidOpened(op, paid, p).expiryPaid = paid
  BY DEF UnpaidOpened, OperationType
<1>4. KeptByOpening(op, UnpaidOpened(op, paid, p))
  BY DEF UnpaidOpened, OperationType, KeptByOpening
<1>5. QED
  BY <1>2, <1>3, <1>4

LEMMA OpenedFits ==
  ASSUME RenewalInv, NEW k \in Period, k \in Selected, ToDo(k), NEW p \in Process,
         NEW row \in OperationType, row = operation[k], NEW ws \in WorkspaceType, ws = workspace,
         NEW new, new = Opened(p, k)
  PROVE  /\ new \in OperationType /\ CopyFits(k, new) /\ Follows(row, new)
         /\ k = ws.paid \/ row.committed
         /\ row.status = "none" =>
              /\ k = ws.paid /\ ~ new.committed
              /\ \A j \in Period : operation[j].status = "none" \/
                   (Terminal(operation[j]) /\ ~ CoversExpiry(operation[j]))
              /\ new.status = "expired_unpaid" \/ (ws.autoRenew /\ ~ Expired)
         /\ row.status # "none" =>
              /\ new.status = row.status \/ new.status = "expired_unpaid"
              /\ new.committed = row.committed
         /\ \/ /\ new.expiry = row.expiry /\ new.expiryPhase = row.expiryPhase
               /\ new.expiryPaid = row.expiryPaid
            \/ /\ row.expiry = "none" /\ new.expiry # "none"
               /\ new.expiryPhase = "suspend" /\ new.expiryPaid = ws.paid
         /\ row.committed /\ Terminal(row) => Terminal(new)
<1>0. new = [OpenExpiry(k, Found(k)) EXCEPT !.lease = p]
  BY DEF Opened
<1>1. /\ CopyFits(k, row) /\ RowFits(k) /\ WorkspaceFits /\ ws.paid \in Nat /\ k \in Nat
      /\ operation \in [Period -> OperationType]
  BY DEF RenewalInv, TypeOK, RowFits, WorkspaceType, Period
<1>2. row.status = "none" <=> row = Blank
  BY <1>1 DEF CopyFits, MoneyFits, Blank
<1>3. now >= 2 * ws.paid <=> Expired
  BY DEF Expired
<1>4. k = ws.paid \/ row.committed
  <2>1. CASE row = Blank
    <3>1. k \in {workspace.paid} \cap Period
      BY <2>1 DEF Selected
    <3>2. QED
      BY <3>1
  <2>2. CASE row # Blank
    BY <2>2 DEF ToDo
  <2>3. QED
    BY <2>1, <2>2
<1>5. row.committed => k # ws.paid
  BY <1>1 DEF RowFits
<1>6. CASE row = Blank
  <2> DEFINE fresh == [Blank EXCEPT !.status = "claimed", !.phase = "preflight_compute"]
  <2>1. /\ fresh \in OperationType /\ fresh.status = "claimed"
        /\ fresh.phase = "preflight_compute" /\ ~ fresh.attempted /\ ~ fresh.confirmed
        /\ ~ fresh.refundAttempted /\ ~ fresh.refundConfirmed /\ ~ fresh.committed
        /\ fresh.expiry = "none" /\ fresh.expiryPhase = "none" /\ fresh.resolution = "none"
    <3>1. Blank \in OperationType
      BY DEF Blank, OperationType, Status, Phase, Unread, ExpiryStatus, ExpiryPhase, Resolution
    <3>2. /\ ~ Blank.attempted /\ ~ Blank.confirmed /\ ~ Blank.refundAttempted
          /\ ~ Blank.refundConfirmed /\ ~ Blank.committed
          /\ Blank.expiry = "none" /\ Blank.expiryPhase = "none" /\ Blank.resolution = "none"
      BY DEF Blank
    <3>3. PICK blank \in OperationType : blank = Blank
      BY <3>1
    <3>4. fresh = [blank EXCEPT !.status = "claimed", !.phase = "preflight_compute"]
      BY <3>3
    <3> HIDE DEF fresh
    <3>5. fresh \in OperationType
      <4>1. "claimed" \in Status /\ "preflight_compute" \in Phase
        BY DEF Status, Phase
      <4>2. QED
        BY <3>4, <4>1 DEF OperationType
    <3>6. /\ fresh.status = "claimed" /\ fresh.phase = "preflight_compute"
          /\ fresh.attempted = blank.attempted /\ fresh.confirmed = blank.confirmed
          /\ fresh.refundAttempted = blank.refundAttempted
          /\ fresh.refundConfirmed = blank.refundConfirmed
          /\ fresh.committed = blank.committed /\ fresh.expiry = blank.expiry
          /\ fresh.expiryPhase = blank.expiryPhase /\ fresh.resolution = blank.resolution
      BY <3>4 DEF OperationType
    <3>7. QED
      BY <3>2, <3>3, <3>5, <3>6
  <2>2. Found(k) = fresh /\ ~ FinancialRecoveryRequired(fresh)
    BY <1>6, <2>1 DEF Found, FinancialRecoveryRequired
  <2>3. \A j \in Period : operation[j].status = "none" \/
           (Terminal(operation[j]) /\ ~ CoversExpiry(operation[j]))
    <3>1. {j \in Period : /\ operation[j] # Blank
                          /\ (~ Terminal(operation[j]) \/ CoversExpiry(operation[j]))} = {}
      BY <1>6 DEF Selected
    <3>2. QED
      BY <3>1 DEF Blank
  <2>4. ~ row.attempted /\ ~ row.confirmed /\ ~ row.refundAttempted /\ ~ row.refundConfirmed
        /\ ~ row.committed /\ row.status = "none" /\ row.phase = "none"
        /\ row.expiry = "none" /\ row.expiryPhase = "none"
    BY <1>6 DEF Blank
  <2> HIDE DEF fresh
  <2>5. CASE ~ Expired
    <3>1. new = [fresh EXCEPT !.lease = p]
      BY <1>0, <2>2, <2>5 DEF OpenExpiry
    <3>2. /\ new \in OperationType /\ new.status = "claimed"
          /\ new.phase = "preflight_compute" /\ ~ new.attempted /\ ~ new.confirmed
          /\ ~ new.refundAttempted /\ ~ new.refundConfirmed /\ ~ new.committed
          /\ new.expiry = "none" /\ new.expiryPhase = "none" /\ new.resolution = "none"
          /\ new.expiryPaid = fresh.expiryPaid
      BY <2>1, <3>1 DEF OperationType
    <3>3. CopyFits(k, new)
      BY <3>2 DEF CopyFits, MoneyFits, PhaseFits, PastRefund, ExpiryFits, IsTrue
    <3>4. Follows(row, new)
      BY <2>4, <3>2 DEF Follows, Preserves, PastRefund
    <3>5. ws.autoRenew
      BY <1>6, <2>5 DEF ToDo
    <3>6. fresh.expiryPaid = row.expiryPaid
      BY <1>6 DEF fresh, Blank
    <3>7. QED
      BY <1>2, <1>4, <1>6, <2>3, <2>4, <2>5, <3>2, <3>3, <3>4, <3>5, <3>6
  <2>6. CASE Expired
    <3>1. new = [[fresh EXCEPT !.status = "expired_unpaid", !.expiry = "expired_unpaid",
                               !.expiryPhase = "suspend", !.expiryPaid = workspace.paid]
                   EXCEPT !.lease = p]
      BY <1>0, <2>1, <2>2, <2>6 DEF OpenExpiry
    <3>2. new = [fresh EXCEPT !.status = "expired_unpaid", !.expiry = "expired_unpaid",
                              !.expiryPhase = "suspend", !.expiryPaid = ws.paid, !.lease = p]
      BY <3>1
    <3>3. /\ new \in OperationType /\ new.status = "expired_unpaid"
          /\ new.phase = fresh.phase /\ new.attempted = fresh.attempted
          /\ new.confirmed = fresh.confirmed /\ new.refundAttempted = fresh.refundAttempted
          /\ new.refundConfirmed = fresh.refundConfirmed /\ new.committed = fresh.committed
          /\ new.expiry = "expired_unpaid" /\ new.expiryPhase = "suspend"
          /\ new.expiryPaid = ws.paid /\ new.resolution = fresh.resolution
      <4>1. fresh \in OperationType /\ ws.paid \in Nat
        BY <1>1, <2>1
      <4>2. new = UnpaidOpened(fresh, ws.paid, p)
        BY <3>2 DEF UnpaidOpened
      <4>3. /\ new \in OperationType /\ new.status = "expired_unpaid"
            /\ new.expiry = "expired_unpaid" /\ new.expiryPhase = "suspend"
            /\ new.expiryPaid = ws.paid /\ KeptByOpening(fresh, new)
        BY <4>1, <4>2, UnpaidFields
      <4>4. QED
        BY <4>3 DEF KeptByOpening
    <3>4. ws.paid \in 1 .. (LastPeriod + 1) /\ now >= 2 * ws.paid
      BY <1>1, <1>3, <2>6 DEF WorkspaceFits
    <3>5. CopyFits(k, new)
      BY <2>1, <3>3, <3>4 DEF CopyFits, MoneyFits, PhaseFits, PastRefund, ExpiryFits, IsTrue
    <3>6. Follows(row, new)
      BY <2>1, <2>4, <3>3 DEF Follows, Preserves, PastRefund
    <3>7. QED
      BY <1>2, <1>4, <1>6, <2>1, <2>3, <2>4, <3>3, <3>5, <3>6
  <2>7. QED
    BY <2>5, <2>6
<1>7. CASE row # Blank
  <2>1. Found(k) = row
    BY <1>7 DEF Found
  <2>2. CASE ~ Expired \/ row.expiry # "none"
    <3>1. new = [row EXCEPT !.lease = p]
      BY <1>0, <2>1, <2>2 DEF OpenExpiry
    <3>2. /\ new \in OperationType /\ new.status = row.status /\ new.phase = row.phase
          /\ new.attempted = row.attempted /\ new.pre = row.pre
          /\ new.confirmed = row.confirmed /\ new.refundAttempted = row.refundAttempted
          /\ new.refundConfirmed = row.refundConfirmed /\ new.committed = row.committed
          /\ new.expiry = row.expiry /\ new.expiryPhase = row.expiryPhase
          /\ new.expiryPaid = row.expiryPaid /\ new.resolution = row.resolution
      BY <3>1 DEF OperationType
    <3>3. CopyFits(k, new)
      BY <1>1, <1>2, <1>7, <3>2
         DEF CopyFits, MoneyFits, PhaseFits, PastRefund, ExpiryFits, IsTrue
    <3>4. Follows(row, new) /\ (Terminal(row) => Terminal(new))
      BY <1>2, <1>7, <3>2 DEF Follows, Preserves, PastRefund, Terminal, FinanciallyDone
    <3>5. QED
      BY <1>2, <1>4, <1>7, <3>2, <3>3, <3>4
  <2>3. CASE Expired /\ row.expiry = "none"
    <3>1. ws.paid \in 1 .. (LastPeriod + 1) /\ now >= 2 * ws.paid
      BY <1>1, <1>3, <2>3 DEF WorkspaceFits
    <3>2. row.committed => ~ Terminal(row)
      <4> SUFFICES ASSUME row.committed, Terminal(row) PROVE FALSE
        OBVIOUS
      <4>1. ~ CoversExpiry(row)
        BY <2>3 DEF CoversExpiry
      <4>2. k \notin {j \in Period : /\ operation[j] # Blank
                                     /\ (~ Terminal(operation[j]) \/ CoversExpiry(operation[j]))}
        BY <4>1
      <4>3. k \in {workspace.paid} \cap Period
        BY <4>2 DEF Selected
      <4>4. QED
        BY <1>5, <4>3
    <3>3. CASE FinancialRecoveryRequired(row)
      <4> DEFINE x == IF k = ws.paid THEN "past_due" ELSE "expired_unpaid"
      <4>1. new = [[row EXCEPT !.expiry = x, !.expiryPhase = "suspend", !.expiryPaid = ws.paid]
                     EXCEPT !.lease = p]
        BY <1>0, <2>1, <2>3, <3>3 DEF OpenExpiry
      <4>2. new = [row EXCEPT !.expiry = x, !.expiryPhase = "suspend", !.expiryPaid = ws.paid,
                              !.lease = p]
        BY <4>1
      <4>3. x \in ExpiryStatus /\ (x = "past_due" <=> k = ws.paid)
            /\ (x = "expired_unpaid" <=> k # ws.paid)
        BY DEF ExpiryStatus
      <4> HIDE DEF x
      <4>4. /\ new \in OperationType /\ new.status = row.status /\ new.phase = row.phase
            /\ new.attempted = row.attempted /\ new.pre = row.pre
            /\ new.confirmed = row.confirmed /\ new.refundAttempted = row.refundAttempted
            /\ new.refundConfirmed = row.refundConfirmed /\ new.committed = row.committed
            /\ new.expiry = x /\ new.expiryPhase = "suspend"
            /\ new.expiryPaid = ws.paid /\ new.resolution = row.resolution
        <5>1. new = ExpiryOpened(row, x, ws.paid, p)
          BY <4>2 DEF ExpiryOpened
        <5>2. /\ new \in OperationType /\ new.status = row.status /\ new.expiry = x
              /\ new.expiryPhase = "suspend" /\ new.expiryPaid = ws.paid
              /\ KeptByOpening(row, new)
          BY <1>1, <4>3, <5>1, PastDueFields
        <5>3. QED
          BY <5>2 DEF KeptByOpening
      <4>5. row.status # "expired_unpaid"
        BY <1>1, <2>3 DEF CopyFits, ExpiryFits
      <4>6. CopyFits(k, new)
        BY <1>1, <1>2, <1>4, <1>5, <1>7, <3>1, <4>3, <4>4, <4>5
           DEF CopyFits, MoneyFits, PhaseFits, PastRefund, ExpiryFits, IsTrue
      <4>7. Follows(row, new)
        BY <1>2, <1>7, <2>3, <3>2, <4>4 DEF Follows, Preserves, PastRefund
      <4>8. QED
        BY <1>2, <1>4, <1>7, <2>3, <3>2, <4>3, <4>4, <4>6, <4>7
    <3>4. CASE ~ FinancialRecoveryRequired(row)
      <4>1. new = [[row EXCEPT !.status = "expired_unpaid", !.expiry = "expired_unpaid",
                               !.expiryPhase = "suspend", !.expiryPaid = ws.paid]
                     EXCEPT !.lease = p]
        BY <1>0, <2>1, <2>3, <3>4 DEF OpenExpiry
      <4>2. new = [row EXCEPT !.status = "expired_unpaid", !.expiry = "expired_unpaid",
                              !.expiryPhase = "suspend", !.expiryPaid = ws.paid, !.lease = p]
        BY <4>1
      <4>3. /\ new \in OperationType /\ new.status = "expired_unpaid" /\ new.phase = row.phase
            /\ new.attempted = row.attempted /\ new.pre = row.pre
            /\ new.confirmed = row.confirmed /\ new.refundAttempted = row.refundAttempted
            /\ new.refundConfirmed = row.refundConfirmed /\ new.committed = row.committed
            /\ new.expiry = "expired_unpaid" /\ new.expiryPhase = "suspend"
            /\ new.expiryPaid = ws.paid /\ new.resolution = row.resolution
        <5>1. new = UnpaidOpened(row, ws.paid, p)
          BY <4>2 DEF UnpaidOpened
        <5>2. /\ new \in OperationType /\ new.status = "expired_unpaid"
              /\ new.expiry = "expired_unpaid" /\ new.expiryPhase = "suspend"
              /\ new.expiryPaid = ws.paid /\ KeptByOpening(row, new)
          BY <1>1, <5>1, UnpaidFields
        <5>3. QED
          BY <5>2 DEF KeptByOpening
      <4>4. /\ row.status # "manual_review" /\ ~ row.attempted /\ ~ row.confirmed
            /\ ~ row.refundAttempted /\ ~ row.refundConfirmed /\ ~ row.committed
        BY <3>4 DEF FinancialRecoveryRequired
      <4>5. row.status \in {"claimed", "insufficient", "debit_pending", "expired_unpaid"}
        BY <1>1, <1>2, <1>7, <4>4 DEF CopyFits, MoneyFits, OperationType, Status
      <4>6. ~ PastRefund(row) /\ row.resolution = "none" /\ row.phase # "receipt"
        BY <1>1, <4>4, <4>5 DEF CopyFits, PhaseFits, PastRefund
      <4>7. CopyFits(k, new)
        BY <3>1, <4>3, <4>4, <4>6
           DEF CopyFits, MoneyFits, PhaseFits, PastRefund, ExpiryFits, IsTrue
      <4>8. Follows(row, new)
        BY <2>3, <4>3, <4>4, <4>5, <4>6 DEF Follows, Preserves
      <4>9. QED
        BY <1>2, <1>4, <1>7, <2>3, <3>2, <4>3, <4>7, <4>8
    <3>5. QED
      BY <3>3, <3>4
  <2>4. QED
    BY <2>2, <2>3
<1>8. QED
  BY <1>6, <1>7

LEMMA ClaimHolds ==
  ASSUME RenewalInv, NEW p \in Process, NEW k \in Period, Claim(p, k)
  PROVE  RenewalInv'
<1> PICK row \in OperationType : row = operation[k]
  BY DEF RenewalInv, TypeOK
<1> PICK ws \in WorkspaceType : ws = workspace
  BY DEF RenewalInv, TypeOK
<1> PICK new : new = Opened(p, k)
  OBVIOUS
<1>1. /\ operation' = [operation EXCEPT ![k] = new] /\ expired' = expired \ {k}
      /\ UNCHANGED <<now, workspace, requestVars, walletVars, outsideVars, faults, external>>
  BY DEF Claim, Opened
<1>2. /\ new \in OperationType /\ CopyFits(k, new) /\ Follows(row, new)
      /\ k = ws.paid \/ row.committed
      /\ row.status = "none" =>
           /\ k = ws.paid /\ ~ new.committed
           /\ \A j \in Period : operation[j].status = "none" \/
                (Terminal(operation[j]) /\ ~ CoversExpiry(operation[j]))
           /\ new.status = "expired_unpaid" \/ (ws.autoRenew /\ ~ Expired)
      /\ row.status # "none" =>
           /\ new.status = row.status \/ new.status = "expired_unpaid"
           /\ new.committed = row.committed
      /\ \/ /\ new.expiry = row.expiry /\ new.expiryPhase = row.expiryPhase
            /\ new.expiryPaid = row.expiryPaid
         \/ /\ row.expiry = "none" /\ new.expiry # "none"
            /\ new.expiryPhase = "suspend" /\ new.expiryPaid = ws.paid
      /\ row.committed /\ Terminal(row) => Terminal(new)
  <2>1. k \in Selected /\ ToDo(k)
    BY DEF Claim
  <2>2. QED
    BY <2>1, OpenedFits
<1>3. PICK h \in HandlerType :
        /\ handler' = [handler EXCEPT ![p] = h]
        /\ \/ h.pc = "expiry" /\ h.stage = "expire"
           \/ h.pc = "run" /\ h.stage = "run" /\ ~ h.expired
        /\ h.period = k /\ h.op = new /\ h.base = new
  <2>1. PICK step \in {"expiry", "run"}, stage \in {"expire", "run"}, late \in BOOLEAN,
             due \in BOOLEAN :
          /\ \/ step = "expiry" /\ stage = "expire" /\ late
             \/ step = "run" /\ stage = "run" /\ ~ late
          /\ handler' = [handler EXCEPT ![p] =
            [Idle EXCEPT !.pc = step, !.stage = stage, !.period = k, !.op = new, !.base = new,
                         !.expired = late, !.pastDue = due]]
    <3>1. Expired \in BOOLEAN /\ (Expired /\ new.expiry = "past_due") \in BOOLEAN
      BY DEF Expired
    <3>2. handler' = [handler EXCEPT ![p] =
            [Idle EXCEPT !.pc = IF Expired THEN "expiry" ELSE "run",
                         !.stage = IF Expired THEN "expire" ELSE "run",
                         !.period = k, !.op = new, !.base = new, !.expired = Expired,
                         !.pastDue = Expired /\ new.expiry = "past_due"]]
      BY DEF Claim, Opened
    <3>3. QED
      BY <3>1, <3>2
  <2> DEFINE h == [Idle EXCEPT !.pc = step, !.stage = stage, !.period = k, !.op = new,
                               !.base = new, !.expired = late, !.pastDue = due]
  <2>2. /\ h.pc = step /\ h.stage = stage /\ h.expired = late
        /\ h.period = k /\ h.op = new /\ h.base = new
    BY DEF Idle
  <2>3. h \in HandlerType
    <3>1. /\ {"idle", "expiry", "run"} \subseteq Step /\ {"expire", "run"} \subseteq Stage
          /\ "none" \in Patch /\ Blank \in OperationType
      BY BlankTyped DEF Step, Stage, Patch
    <3>2. QED
      BY <1>2, <3>1 DEF Idle, HandlerType
  <2>4. QED
    BY <2>1, <2>2, <2>3
<1>4. /\ handler' \in [Process -> HandlerType] /\ handler'[p] = h
      /\ \A q \in Process \ {p} : handler'[q] = handler[q]
  BY <1>3 DEF RenewalInv, TypeOK
<1>5. /\ operation' \in [Period -> OperationType] /\ operation'[k] = new
      /\ \A j \in Period : j # k => operation'[j] = operation[j]
      /\ \A j \in Period : RowFits(j) /\ operation[j] \in OperationType
      /\ WorkspaceFits /\ ws.paid \in Nat /\ k \in Nat
      /\ now' = now /\ charged' = charged /\ refunded' = refunded /\ provider' = provider
      /\ promised' = promised /\ workspace' = ws
  <2>1. operation \in [Period -> OperationType]
    BY DEF RenewalInv, TypeOK
  <2>2. /\ operation' \in [Period -> OperationType] /\ operation'[k] = new
        /\ \A j \in Period : j # k => operation'[j] = operation[j]
    BY <1>1, <1>2, <2>1
  <2>3. (\A j \in Period : RowFits(j)) /\ WorkspaceFits
    BY DEF RenewalInv
  <2>4. ws.paid \in Nat /\ k \in Nat
    BY DEF WorkspaceType, Period
  <2>5. /\ now' = now /\ charged' = charged /\ refunded' = refunded /\ provider' = provider
        /\ promised' = promised /\ workspace' = ws
    BY <1>1 DEF walletVars, outsideVars, requestVars
  <2>6. QED
    BY <2>1, <2>2, <2>3, <2>4, <2>5
<1>6. TypeOK'
  BY <1>1, <1>4, <1>5 DEF RenewalInv, TypeOK, requestVars, walletVars, outsideVars
<1>7. CopyFits(k, new)' /\ (row.committed => Granted(k)')
  BY <1>2, <1>5 DEF CopyFits, MoneyFits, PhaseFits, PastRefund, ExpiryFits, IsTrue, RowFits,
                    Granted
<1>8. /\ new.expiry # "none" => new.expiryPaid = ws.paid
      /\ row.expiry # "none" => new.expiry # "none"
  BY <1>2, <1>5 DEF RowFits
<1>9. HandlerFits(p)'
  <2>1. CopyOf(k, new, new)' /\ Drifted(new, new)
    <3>1. new.status # "none" /\ Follows(new, operation[k])'
      BY <1>2, <1>5, FollowsSelf DEF Follows
    <3>2. QED
      BY <1>2, <1>7, <3>1, DriftSelf DEF CopyOf
  <2>2. StepFits(h.pc, new)
    BY <1>3 DEF StepFits
  <2>3. QED
    BY <1>3, <1>4, <2>1, <2>2 DEF HandlerFits
<1>10. RowFits(k)'
  <2>1. RowFits(k)
    BY <1>5
  <2>2. k <= ws.paid /\ (new.committed <=> row.committed) /\ (row.committed <=> k < ws.paid)
    BY <1>2, <1>5, <2>1 DEF RowFits
  <2>3. new.committed /\ (~ Terminal(new) \/ new.expiry # "none") =>
          \A j \in Period : j > k => operation'[j].status = "none"
    <3> SUFFICES ASSUME new.committed, ~ Terminal(new) \/ new.expiry # "none",
                        NEW j \in Period, j > k
                 PROVE  operation[j].status = "none"
      BY <1>5 DEF Period
    <3>1. row.committed
      BY <2>2
    <3>2. ~ Terminal(row) \/ row.expiry # "none"
      BY <1>2, <3>1 DEF Terminal
    <3>3. QED
      BY <2>1, <3>1, <3>2 DEF RowFits
  <2>5. k \in promised => ~ ws.autoRenew /\ new.status \in {"none", "expired_unpaid", "refunded"}
    BY <1>2, <2>1 DEF RowFits
  <2>6. QED
    BY <1>5, <1>7, <1>8, <2>2, <2>3, <2>5 DEF RowFits
<1>11. ASSUME NEW j \in Period, j # k
       PROVE  RowFits(j)'
  <2> PICK other \in OperationType : other = operation[j]
    BY <1>5
  <2>1. RowFits(j) /\ operation'[j] = other /\ CopyFits(j, other)
    BY <1>5, <1>11 DEF RowFits
  <2>2. CopyFits(j, other)' /\ (other.committed => Granted(j)')
    BY <1>5, <2>1 DEF CopyFits, MoneyFits, PhaseFits, PastRefund, ExpiryFits, IsTrue, RowFits,
                      Granted
  <2>3. other.committed => other.status # "none"
    BY <2>1 DEF CopyFits, MoneyFits, Blank
  <2>4. other.committed /\ (~ Terminal(other) \/ other.expiry # "none") =>
          \A i \in Period : i > j => operation'[i].status = "none"
    <3> SUFFICES ASSUME other.committed, ~ Terminal(other) \/ other.expiry # "none",
                        NEW i \in Period, i > j
                 PROVE  operation'[i].status = "none"
      OBVIOUS
    <3>1. operation[i].status = "none"
      BY <2>1 DEF RowFits
    <3>2. row.status # "none"
      <4>1. ~ Terminal(other) \/ CoversExpiry(other)
        BY <2>1 DEF RowFits, CoversExpiry
      <4>2. QED
        BY <1>2, <2>3, <4>1
    <3>3. QED
      BY <1>5, <3>1, <3>2
  <2>5. QED
    BY <1>5, <2>1, <2>2, <2>4 DEF RowFits
<1>12. WorkspaceFits'
  <2>1. ASSUME ws.status = "expired_unpaid"
        PROVE  /\ now >= 2 * ws.paid /\ ~ ws.autoRenew
               /\ ws.paid \in Period =>
                    operation'[ws.paid].status \in {"none", "expired_unpaid", "refunded"}
    <3>1. /\ now >= 2 * ws.paid /\ ~ ws.autoRenew
          /\ ws.paid \in Period =>
               operation[ws.paid].status \in {"none", "expired_unpaid", "refunded"}
      BY <1>5, <2>1 DEF WorkspaceFits
    <3>2. k = ws.paid => new.status \in {"none", "expired_unpaid", "refunded"}
      BY <1>2, <3>1
    <3>3. QED
      BY <1>5, <3>1, <3>2
  <2>2. ASSUME ws.state = "suspended"
        PROVE  /\ now >= 2 * ws.paid
               /\ \/ ws.status = "expired_unpaid"
                  \/ ws.paid \in Period /\ operation'[ws.paid].expiry # "none"
    <3>1. /\ now >= 2 * ws.paid
          /\ \/ ws.status = "expired_unpaid"
             \/ ws.paid \in Period /\ operation[ws.paid].expiry # "none"
      BY <1>5, <2>2 DEF WorkspaceFits
    <3>2. QED
      BY <1>5, <1>8, <3>1
  <2>3. QED
    BY <1>5, <2>1, <2>2 DEF WorkspaceFits
<1>13. QED
  <2>1. \A j \in Period : RowFits(j)'
    BY <1>10, <1>11
  <2>2. Follows(operation[k], new)
    BY <1>2
  <2>3. workspace' = workspace /\ workspace'.paid >= workspace.paid
    BY <1>5
  <2>4. UNCHANGED <<now, requestVars, walletVars, outsideVars>>
    BY <1>1
  <2>5. operation' = [operation EXCEPT ![k] = new]
    BY <1>1
  <2>6. QED
    BY <1>2, <1>4, <1>6, <1>9, <1>12, <2>1, <2>2, <2>3, <2>4, <2>5, RowMoves
-----------------------------------------------------------------------------
(* Everything else that moves.                                             *)

LEMMA WorldOnly ==
  ASSUME RenewalInv, WorldMoves, now' \in Nat, now <= now', expired' \subseteq Period,
         external' \in 0 .. MaxExternal,
         UNCHANGED <<workspace, operation, handler, requestVars>>
  PROVE  RenewalInv'
<1>1. TypeOK'
  BY DEF RenewalInv, TypeOK, WorldMoves, OutsideTyped, ResourceType, requestVars
<1>2. Grows
  BY DEF WorldMoves, Grows
<1>3. \A q \in Process : HandlerFits(q)'
  BY <1>1, <1>2, HandlerStaysFit
<1>4. \A j \in Period : RowFits(j)' /\ EffectsFit(j)'
  BY <1>1, <1>2, RowStaysFit DEF requestVars, WorldMoves
<1>5. WorkspaceFits' /\ RequestFits'
  BY <1>2, WorkspaceStaysFit DEF RenewalInv, RequestFits, requestVars
<1>6. ReceiptsTrue' /\ \A e \in receipts' : ReceiptFits(e)'
  BY <1>1, <1>2, <1>4, ReceiptsStayTrue DEF RenewalInv, TypeOK, WorkspaceType, WorldMoves
<1>7. \A r \in rowGone' : ~ provider'[r].alive
  BY DEF WorldMoves
<1>8. QED
  BY <1>1, <1>3, <1>4, <1>5, <1>6, <1>7, PromisesFollow DEF RenewalInv

LEMMA LateRequestHolds ==
  ASSUME RenewalInv, NEW k \in Period, NEW kind \in {"charge", "refund"} \cup Resource,
         LateRequest(k, kind)
  PROVE  RenewalInv'
<1>1. /\ UNCHANGED <<now, workspace, operation, expired, handler, requestVars, rowGone,
                     receipts, faults, external>>
      /\ <<k, kind>> \in inFlight /\ inFlight' \subseteq inFlight
  BY DEF LateRequest
<1>2. /\ now' \in Nat /\ now <= now' /\ expired' \subseteq Period
      /\ external' \in 0 .. MaxExternal /\ faults' \in 0 .. MaxFaults
      /\ charged \subseteq Period /\ refunded \subseteq Period
  BY <1>1 DEF RenewalInv, TypeOK
<1>3. EffectsFit(k)
  BY DEF RenewalInv
<1>4. CASE kind = "charge"
  <2>1. UseChargeCode(k) /\ UNCHANGED provider
    BY <1>4 DEF LateRequest
  <2>2. operation[k].attempted
    BY <1>1, <1>3, <1>4 DEF EffectsFit
  <2>3. /\ balance' \in Nat /\ charged' = charged \cup {k} /\ refunded' = refunded
    BY <2>1, ChargeCodeUsed
  <2>4. WorldMoves
    BY <1>1, <1>2, <1>4, <2>1, <2>2, <2>3, WalletCall
  <2>5. QED
    BY <1>1, <1>2, <2>4, WorldOnly
<1>5. CASE kind = "refund"
  <2>1. UseRefundCode(k) /\ UNCHANGED provider
    BY <1>5 DEF LateRequest
  <2>2. operation[k].refundAttempted
    BY <1>1, <1>3, <1>5 DEF EffectsFit
  <2>3. /\ balance' \in Nat /\ refunded' = refunded \cup {k} /\ charged' = charged
    BY <2>1, RefundCodeUsed
  <2>4. WorldMoves
    BY <1>1, <1>2, <1>5, <2>1, <2>2, <2>3, WalletCall
  <2>5. QED
    BY <1>1, <1>2, <2>4, WorldOnly
<1>6. CASE kind \in Resource
  <2>1. FabricRenew(kind, k) /\ UNCHANGED walletVars
    BY <1>6 DEF LateRequest, Resource
  <2>2. kind = "storage" => PastRefund(operation[k])
    BY <1>1, <1>3 DEF EffectsFit
  <2>3. /\ ProviderGrows
        /\ \A q \in Resource :
             provider'[q].done \subseteq provider[q].done \cup {j \in {k} : q = kind}
    BY <1>6, <2>1, RenewGrows
  <2>4. WorldMoves
    BY <1>1, <1>2, <1>6, <2>1, <2>2, <2>3, ProviderCall
  <2>5. QED
    BY <1>1, <1>2, <2>4, WorldOnly
<1>7. QED
  BY <1>4, <1>5, <1>6

LEMMA ReconcileHolds ==
  ASSUME RenewalInv, NEW r \in Resource, Reconcile(r)
  PROVE  RenewalInv'
<1>1. /\ UNCHANGED <<now, workspace, operation, expired, handler, requestVars, walletVars,
                     receipts, inFlight, faults, external>>
      /\ FabricSync(r)
      /\ rowGone' = IF provider[r].alive THEN rowGone ELSE rowGone \cup {r}
  BY DEF Reconcile
<1>2. /\ ProviderGrows
      /\ \A q \in Resource : provider'[q].done = provider[q].done
  BY <1>1, SyncGrows
<1>3. OutsideTyped'
  BY <1>1, <1>2 DEF RenewalInv, TypeOK, OutsideTyped, ProviderGrows, walletVars
<1>4. \A j \in Period : EffectsFit(j)'
  BY <1>1, <1>2 DEF RenewalInv, EffectsFit, walletVars, Resource
<1>5. \A q \in rowGone' : ~ provider'[q].alive
  BY <1>1, <1>2, <1>3 DEF RenewalInv, TypeOK, ProviderGrows
<1>6. WorldMoves
  BY <1>1, <1>2, <1>3, <1>4, <1>5 DEF WorldMoves, ProviderGrows, walletVars
<1>7. QED
  BY <1>1, <1>6, WorldOnly DEF RenewalInv, TypeOK

LEMMA ProviderDeletesHolds ==
  ASSUME RenewalInv, NEW r \in Resource, ProviderDeletes(r)
  PROVE  RenewalInv'
<1>1. /\ UNCHANGED <<now, workspace, operation, expired, handler, requestVars, walletVars,
                     rowGone, receipts, inFlight, faults>>
      /\ provider' = [provider EXCEPT ![r].alive = FALSE]
      /\ external' \in 0 .. MaxExternal
  BY DEF ProviderDeletes, Outside, RenewalInv, TypeOK
<1> PICK at \in ResourceType : at = provider[r]
  BY DEF RenewalInv, TypeOK, ResourceType
<1> DEFINE new == [at EXCEPT !.alive = FALSE]
<1>2. /\ new \in ResourceType /\ ~ new.alive /\ new.deadline = at.deadline
      /\ new.done = at.done
  BY DEF ResourceType
<1>3. provider \in [Resource -> ResourceType]
  BY DEF RenewalInv, TypeOK, ResourceType
<1>4. provider' = [provider EXCEPT ![r] = new]
  BY <1>1, <1>3
<1> HIDE DEF new
<1>5. /\ provider' \in [Resource -> ResourceType]
      /\ \A q \in Resource : provider'[q] = provider[q] \/ (q = r /\ provider'[q] = new)
  BY <1>2, <1>3, <1>4
<1>6. \A q \in Resource : provider[q].deadline \in Nat
  BY <1>3 DEF ResourceType
<1>7. \A q \in Resource : /\ provider[q].deadline <= provider'[q].deadline
                          /\ provider'[q].done = provider[q].done
                          /\ provider'[q].alive => provider[q].alive
  BY <1>2, <1>5, <1>6
<1>8. OutsideTyped'
  BY <1>1, <1>5 DEF RenewalInv, TypeOK, OutsideTyped, walletVars
<1>9. \A j \in Period : EffectsFit(j)'
  BY <1>1, <1>7 DEF RenewalInv, EffectsFit, walletVars, Resource
<1>10. \A q \in rowGone' : ~ provider'[q].alive
  BY <1>1, <1>7 DEF RenewalInv, TypeOK
<1>11. WorldMoves
  BY <1>1, <1>7, <1>8, <1>9, <1>10 DEF WorldMoves, walletVars
<1>12. QED
  BY <1>1, <1>11, WorldOnly DEF RenewalInv, TypeOK

LEMMA BalanceMovesHolds ==
  ASSUME RenewalInv, BalanceMoves
  PROVE  RenewalInv'
<1>1. /\ UNCHANGED <<now, workspace, operation, expired, handler, requestVars, charged,
                     refunded, outsideVars, faults>>
      /\ balance' \in Nat /\ external' \in 0 .. MaxExternal
  BY DEF BalanceMoves, Outside, RenewalInv, TypeOK
<1>2. OutsideTyped' /\ \A j \in Period : EffectsFit(j)'
  BY <1>1 DEF RenewalInv, TypeOK, OutsideTyped, ResourceType, EffectsFit, outsideVars
<1>3. WorldMoves
  BY <1>1, <1>2 DEF RenewalInv, TypeOK, WorldMoves, outsideVars
<1>4. QED
  BY <1>1, <1>3, WorldOnly DEF RenewalInv, TypeOK

LEMMA TickHolds ==
  ASSUME RenewalInv, Tick
  PROVE  RenewalInv'
<1>1. /\ UNCHANGED <<workspace, operation, expired, handler, requestVars, walletVars,
                     outsideVars, faults, external>>
      /\ now' \in Nat /\ now <= now'
  BY DEF Tick, RenewalInv, TypeOK
<1>2. WorldMoves
  BY <1>1, NoCall DEF RenewalInv, TypeOK
<1>3. QED
  BY <1>1, <1>2, WorldOnly DEF RenewalInv, TypeOK

LEMMA LeaseExpiresHolds ==
  ASSUME RenewalInv, NEW k \in Period, LeaseExpires(k)
  PROVE  RenewalInv'
<1>1. /\ UNCHANGED <<now, workspace, operation, handler, requestVars, walletVars,
                     outsideVars, faults, external>>
      /\ expired' = expired \cup {k}
  BY DEF LeaseExpires
<1>2. WorldMoves
  BY <1>1, NoCall DEF RenewalInv, TypeOK
<1>3. QED
  BY <1>1, <1>2, WorldOnly DEF RenewalInv, TypeOK

(* The customer's cancellation.                                            *)
LEMMA RequestCancelHolds ==
  ASSUME RenewalInv, RequestCancel
  PROVE  RenewalInv'
<1>1. /\ UNCHANGED <<now, workspace, operation, expired, handler, promised, walletVars,
                     outsideVars, faults, external>>
      /\ requests' = requests + 1 /\ requests < MaxRequests
      /\ request' = [paid |-> workspace.paid, autoRenew |-> workspace.autoRenew,
                     seen |-> operation,
                     told |-> IF RenewalUnderWay THEN workspace.paid + 1 ELSE workspace.paid]
  BY DEF RequestCancel
<1>2. workspace.paid \in Nat /\ operation \in [Period -> OperationType]
  BY DEF RenewalInv, TypeOK, WorkspaceType
<1>3. /\ request'.paid = workspace.paid /\ request'.seen = operation
      /\ request'.told = IF RenewalUnderWay THEN workspace.paid + 1 ELSE workspace.paid
  BY <1>1
<1>4. request'.told \in Nat /\ requests' \in 0 .. MaxRequests
  BY <1>1, <1>2, <1>3 DEF RenewalInv, TypeOK
<1>5. TypeOK'
  BY <1>1, <1>4 DEF RenewalInv, TypeOK, walletVars, outsideVars
<1>6. Grows
  BY <1>1 DEF RenewalInv, TypeOK, Grows, walletVars, outsideVars
<1>7. \A j \in Period : RowFits(j)'
  BY <1>1, <1>5, <1>6, RowStaysFit
<1>8. \A j \in Period : EffectsFit(j)'
  BY <1>1 DEF RenewalInv, EffectsFit, walletVars, outsideVars
<1>9. \A q \in Process : HandlerFits(q)'
  BY <1>1, <1>5, <1>6, HandlerStaysFit
<1>10. WorkspaceFits'
  BY <1>1, <1>6, WorkspaceStaysFit
<1>11. RequestFits'
  <2>1. CASE RenewalUnderWay
    BY <1>2, <1>3, <2>1 DEF RenewalUnderWay, RequestFits
  <2>2. CASE ~ RenewalUnderWay
    <3>1. workspace.paid \in Period =>
            operation[workspace.paid].status
              \in {"none", "active", "cancelled", "expired_unpaid", "refunded"}
      BY <2>2 DEF RenewalUnderWay
    <3>2. workspace.paid \in Period => operation[workspace.paid].status \in Status
      BY <1>2 DEF OperationType
    <3>3. QED
      BY <1>2, <1>3, <2>2, <3>1, <3>2 DEF RequestFits, Status
  <2>3. QED
    BY <2>1, <2>2
<1>12. receipts' = receipts /\ \A r \in rowGone' : ~ provider'[r].alive
  BY <1>1 DEF RenewalInv, outsideVars
<1>13. ReceiptsTrue' /\ \A e \in receipts' : ReceiptFits(e)'
  BY <1>1, <1>2, <1>5, <1>6, <1>7, <1>8, <1>12, ReceiptsStayTrue
<1>14. QED
  BY <1>5, <1>7, <1>8, <1>9, <1>10, <1>11, <1>12, <1>13, PromisesFollow DEF RenewalInv

(* What the customer is told is so: no period announced as free of charge  *)
(* has a renewal that was begun and not ended.                             *)
LEMMA AnnouncedIsFree ==
  ASSUME RenewalInv, request # NoRequest, Unchanged, NEW k \in Period, k = request.told
  PROVE  operation[k].status \in {"none", "expired_unpaid", "refunded"}
<1> PICK row \in OperationType : row = operation[k]
  BY DEF RenewalInv, TypeOK
<1>1. workspace.paid \in Nat /\ k \in Nat /\ request.paid = workspace.paid
  BY DEF RenewalInv, TypeOK, WorkspaceType, Period, Unchanged
<1>2. /\ request.told # request.paid => request.told = request.paid + 1
      /\ request.told = request.paid /\ request.paid \in Period =>
           operation[request.paid].status \in {"none", "active", "expired_unpaid", "refunded"}
  BY DEF RenewalInv, RequestFits, Unchanged
<1>3. /\ row.status # "none" => k <= workspace.paid
      /\ row.committed <=> k < workspace.paid
      /\ row.status = "active" => row.committed
  BY DEF RenewalInv, RowFits, CopyFits, PhaseFits
<1>4. CASE k = workspace.paid
  BY <1>1, <1>2, <1>3, <1>4
<1>5. CASE k # workspace.paid
  BY <1>1, <1>2, <1>3, <1>5
<1>6. QED
  BY <1>4, <1>5

LEMMA ApplyCancelHolds ==
  ASSUME RenewalInv, ApplyCancel
  PROVE  RenewalInv'
<1> PICK ws \in WorkspaceType : ws = workspace
  BY DEF RenewalInv, TypeOK
<1>1. /\ UNCHANGED <<now, operation, expired, handler, requests, walletVars, outsideVars,
                     faults, external>>
      /\ request # NoRequest /\ request' = NoRequest
  BY DEF ApplyCancel
<1>2. /\ workspace' = ws \/ workspace' = [ws EXCEPT !.autoRenew = FALSE]
      /\ promised' = promised
           \/ (workspace' = [ws EXCEPT !.autoRenew = FALSE] /\ Unchanged
                 /\ promised' = promised \cup {request.told})
  BY DEF ApplyCancel
<1>3. /\ workspace' \in WorkspaceType /\ workspace'.paid = ws.paid
      /\ workspace'.status = ws.status /\ workspace'.state = ws.state
      /\ workspace'.autoRenew => ws.autoRenew
      /\ promised' # promised => ~ workspace'.autoRenew
  BY <1>2 DEF WorkspaceType
<1>4. ws.paid \in 1 .. (LastPeriod + 1) /\ request'.told \in Nat
  BY <1>1 DEF RenewalInv, WorkspaceFits, NoRequest
<1>5. promised' \subseteq 1 .. (LastPeriod + 1)
  <2>1. CASE promised' = promised
    BY <2>1 DEF RenewalInv, TypeOK
  <2>2. CASE Unchanged /\ promised' = promised \cup {request.told}
    <3>1. request.paid = ws.paid
      BY <2>2 DEF Unchanged
    <3>2. request.told # request.paid =>
            request.told = request.paid + 1 /\ request.paid \in Period
      BY <1>1 DEF RenewalInv, RequestFits
    <3>3. request.told \in 1 .. (LastPeriod + 1)
      BY <1>4, <3>1, <3>2 DEF Period
    <3>4. QED
      BY <2>2, <3>3 DEF RenewalInv, TypeOK
  <2>3. QED
    BY <1>2, <2>1, <2>2
<1>6. TypeOK'
  BY <1>1, <1>3, <1>4, <1>5 DEF RenewalInv, TypeOK, walletVars, outsideVars
<1>7. Grows
  BY <1>1 DEF RenewalInv, TypeOK, Grows, walletVars, outsideVars
<1>8. ASSUME NEW j \in Period
      PROVE  RowFits(j)'
  <2> PICK row \in OperationType : row = operation[j]
    BY DEF RenewalInv, TypeOK
  <2>1. operation'[j] = row /\ RowFits(j) /\ TypeOK
    BY <1>1 DEF RenewalInv
  <2>2. CopyFits(j, row)
    BY <2>1 DEF RowFits
  <2>3. CopyFits(j, row)' /\ (row.committed => Granted(j)')
    BY <1>6, <1>7, <2>1, <2>2, CopyStaysFit, GrantedStays DEF RowFits
  <2>4. j \in promised' =>
          ~ workspace'.autoRenew /\ row.status \in {"none", "expired_unpaid", "refunded"}
    <3>1. CASE j \in promised
      BY <1>3, <2>1, <3>1 DEF RowFits
    <3>2. CASE j \notin promised
      BY <1>1, <1>2, <1>3, <3>2, AnnouncedIsFree
    <3>3. QED
      BY <3>1, <3>2
  <2>5. QED
    BY <1>1, <1>3, <2>1, <2>3, <2>4 DEF RowFits
<1>9. \A j \in Period : EffectsFit(j)'
  BY <1>1 DEF RenewalInv, EffectsFit, walletVars, outsideVars
<1>10. \A q \in Process : HandlerFits(q)'
  BY <1>1, <1>3, <1>6, <1>7, HandlerStaysFit
<1>11. WorkspaceFits'
  BY <1>1, <1>3 DEF RenewalInv, WorkspaceFits
<1>12. RequestFits'
  BY <1>1 DEF RequestFits
<1>13. receipts' = receipts /\ \A r \in rowGone' : ~ provider'[r].alive
  BY <1>1 DEF RenewalInv, outsideVars
<1>14. ReceiptsTrue' /\ \A e \in receipts' : ReceiptFits(e)'
  BY <1>1, <1>3, <1>4, <1>6, <1>7, <1>8, <1>9, <1>13, ReceiptsStayTrue
<1>15. QED
  BY <1>6, <1>8, <1>9, <1>10, <1>11, <1>12, <1>13, <1>14, PromisesFollow DEF RenewalInv
-----------------------------------------------------------------------------
(* The theorems.                                                           *)

LEMMA InitHolds ==
  ASSUME Init
  PROVE  RenewalInv
<1>1. /\ Blank \in OperationType /\ Idle \in HandlerType
      /\ Blank.status = "none" /\ Blank.phase = "none" /\ ~ Blank.attempted /\ ~ Blank.confirmed
      /\ ~ Blank.refundAttempted /\ ~ Blank.refundConfirmed /\ ~ Blank.committed
      /\ Blank.expiry = "none" /\ Blank.expiryPhase = "none" /\ Blank.resolution = "none"
      /\ Idle.pc = "idle"
  BY BlankTyped, IdleTyped DEF Blank, Idle
<1>2. PICK auto \in BOOLEAN :
        workspace = [paid |-> 1, autoRenew |-> auto, status |-> "active", state |-> "running"]
  BY DEF Init
<1>3. /\ workspace \in WorkspaceType /\ workspace.paid = 1 /\ workspace.status = "active"
      /\ workspace.state = "running"
  BY <1>2 DEF WorkspaceType
<1>4. \A r \in Resource :
        provider[r] = [alive |-> TRUE, deadline |-> 1, known |-> 1, marked |-> FALSE, done |-> {}]
  BY DEF Init
<1>5. provider \in [Resource -> [alive : BOOLEAN, deadline : Nat, known : Nat,
                                 marked : BOOLEAN, done : SUBSET Period]]
  BY DEF Init
<1>6. TypeOK
  <2>1. request.told \in Nat /\ requests \in 0 .. MaxRequests
    BY DEF Init, NoRequest
  <2>2. /\ operation \in [Period -> OperationType]
        /\ handler \in [Process -> HandlerType]
    BY <1>1 DEF Init
  <2>3. QED
    BY <1>3, <1>5, <2>1, <2>2 DEF Init, TypeOK
<1>7. ASSUME NEW k \in Period
      PROVE  RowFits(k) /\ EffectsFit(k)
  <2>1. operation[k] = Blank /\ k \in Nat /\ ~ k < 1 /\ k \notin promised
    BY DEF Init, Period
  <2>2. CopyFits(k, Blank)
    BY <1>1 DEF CopyFits, MoneyFits, PhaseFits, PastRefund, ExpiryFits, IsTrue
  <2>3. RowFits(k)
    BY <1>1, <1>3, <2>1, <2>2 DEF RowFits
  <2>4. EffectsFit(k)
    BY <1>4 DEF Init, EffectsFit, Resource
  <2>5. QED
    BY <2>3, <2>4
<1>8. \A p \in Process : HandlerFits(p)
  BY <1>1 DEF Init, HandlerFits
<1>9. WorkspaceFits /\ RequestFits
  BY <1>3 DEF Init, WorkspaceFits, RequestFits
<1>10. /\ \A r \in rowGone : ~ provider[r].alive
       /\ \A e \in receipts : ReceiptFits(e)
       /\ ReceiptsTrue /\ SuspendedOnlyExpired /\ RefundOnlyWithoutMachine /\ EndedOnlyUnpaid
  BY <1>3 DEF Init, ReceiptsTrue, SuspendedOnlyExpired, RefundOnlyWithoutMachine,
              EndedOnlyUnpaid
<1>11. QED
  BY <1>6, <1>7, <1>8, <1>9, <1>10 DEF RenewalInv

LEMMA HandlerHolds ==
  ASSUME RenewalInv, NEW p \in Process, HandlerStep(p)
  PROVE  RenewalInv'
<1>1. ASSUME NEW r \in Resource,
             Renew(p, r) \/ Verify(p, r) \/ VerifyAgain(p, r) \/ ResolveVerify(p, r)
      PROVE  RenewalInv'
  BY <1>1, RenewHolds, VerifyHolds, VerifyAgainHolds, ResolveVerifyHolds
<1>2. CASE \/ Persist(p) \/ Reload(p) \/ Expiry(p) \/ ExpiryReceipt(p) \/ Preflight(p)
           \/ Advance(p) \/ Debit(p) \/ History(p) \/ Charge(p) \/ ReadPost(p)
  BY <1>2, PersistHolds, ReloadHolds, ExpiryHolds, ExpiryReceiptHolds, PreflightHolds,
     AdvanceHolds, DebitHolds, HistoryHolds, ChargeHolds, ReadPostHolds
<1>3. CASE \/ Commit(p) \/ RenewalReceipt(p) \/ ResumeRefund(p) \/ RefundHistory(p)
           \/ RefundCall(p) \/ RefundReceipt(p)
  BY <1>3, CommitHolds, RenewalReceiptHolds, ResumeRefundHolds, RefundHistoryHolds,
     RefundCallHolds, RefundReceiptHolds
<1>4. QED
  BY <1>1, <1>2, <1>3 DEF HandlerStep

LEMMA EnvironmentHolds ==
  ASSUME RenewalInv, Environment
  PROVE  RenewalInv'
BY LeaseExpiresHolds, LateRequestHolds, ReconcileHolds, ProviderDeletesHolds,
   BalanceMovesHolds, TickHolds DEF Environment

LEMMA StutterHolds ==
  ASSUME RenewalInv, UNCHANGED vars
  PROVE  RenewalInv'
<1>1. UNCHANGED <<now, workspace, operation, expired, handler, requestVars, walletVars,
                  outsideVars, faults, external>>
  BY DEF vars
<1>2. WorldMoves
  BY <1>1, NoCall DEF RenewalInv, TypeOK
<1>3. QED
  BY <1>1, <1>2, WorldOnly DEF RenewalInv, TypeOK

\* At every step every part of a renewal fits the others: rows are typed and say
\* only what is so, an effect is written down before it can happen, a handler's
\* copy follows the row it compares itself with, and the Workspace row, the
\* receipts and the refunds follow the rows (PersistWorkspaceRenewal,
\* ClaimWorkspaceRenewal and every call between them).
THEOREM RenewalsFit == Spec => []RenewalInv
<1>1. ASSUME RenewalInv, Next
      PROVE  RenewalInv'
  <2>1. ASSUME NEW p \in Process, HandlerStep(p) \/ Abort(p)
        PROVE  RenewalInv'
    BY <1>1, <2>1, HandlerHolds, AbortHolds
  <2>2. ASSUME NEW p \in Process, NEW k \in Period, Claim(p, k) \/ Resolve(p, k)
        PROVE  RenewalInv'
    BY <1>1, <2>2, ClaimHolds, ResolveHolds
  <2>3. QED
    BY <1>1, <2>1, <2>2, RequestCancelHolds, ApplyCancelHolds, EnvironmentHolds DEF Next
<1>2. RenewalInv /\ [Next]_vars => RenewalInv'
  BY <1>1, StutterHolds
<1>3. QED
  BY <1>2, InitHolds, PTL DEF Spec

LEMMA InvGivesEntitlement ==
  ASSUME RenewalInv
  PROVE  EntitlementBacked
<1> SUFFICES ASSUME NEW k \in Period, k < workspace.paid
             PROVE  /\ k \in Paid /\ operation[k].committed
                    /\ \A r \in Resource : provider[r].deadline > k
  BY DEF EntitlementBacked
<1>1. operation[k].committed /\ Granted(k)
  BY DEF RenewalInv, RowFits
<1>2. k \in charged /\ ~ operation[k].refundAttempted
  BY <1>1 DEF RenewalInv, RowFits, CopyFits, MoneyFits, PhaseFits, PastRefund, IsTrue
<1>3. k \notin refunded
  BY <1>2 DEF RenewalInv, EffectsFit
<1>4. QED
  BY <1>1, <1>2, <1>3 DEF Granted, Paid

\* A period is granted only for money that was taken and not given back, by a row
\* that says so, and with both resources kept past it
\* (commitWorkspaceRenewalEntitlement after its readbacks).
THEOREM EntitlementIsBacked == Spec => []EntitlementBacked
BY RenewalsFit, InvGivesEntitlement, PTL

LEMMA InvGivesPromise ==
  ASSUME RenewalInv
  PROVE  PromiseKept
<1> SUFFICES ASSUME NEW k \in promised, k \in charged, k \notin refunded
             PROVE  FALSE
  BY DEF PromiseKept, Paid
<1>1. k \in Period
  BY DEF RenewalInv, TypeOK
<1>2. /\ operation[k].status \in {"none", "expired_unpaid", "refunded"}
      /\ operation[k].attempted
  BY <1>1 DEF RenewalInv, RowFits, EffectsFit
<1>3. operation[k].refundConfirmed
  BY <1>1, <1>2 DEF RenewalInv, RowFits, CopyFits, MoneyFits
<1>4. QED
  BY <1>1, <1>3 DEF RenewalInv, RowFits, CopyFits, IsTrue

\* A period the answer to a cancellation left out is never charged afterwards,
\* whatever pass, late request or resolution was under way
\* (planWorkspaceRenewalIntent, ApplyWorkspaceRenewalIntent).
THEOREM PromisesAreKept == Spec => []PromiseKept
BY RenewalsFit, InvGivesPromise, PTL

LEMMA InvGivesWork ==
  ASSUME RenewalInv
  PROVE  NoStrandedRenewal
<1>1. ASSUME NEW k \in Period, operation[k] # Blank, ~ Terminal(operation[k])
      PROVE  /\ operation[k].status # "none"
             /\ k = workspace.paid \/ operation[k].committed
             /\ \A j \in Period : j > k => operation[j] = Blank \/ k = workspace.paid
  <2>1. RowFits(k) /\ k \in Nat /\ workspace.paid \in Nat
    BY DEF RenewalInv, TypeOK, WorkspaceType, Period
  <2>2. operation[k].status # "none"
    BY <1>1, <2>1 DEF RowFits, CopyFits, MoneyFits
  <2>3. k = workspace.paid \/ (operation[k].committed /\ k < workspace.paid)
    BY <2>1, <2>2 DEF RowFits
  <2>4. ASSUME NEW j \in Period, j > k, k # workspace.paid
        PROVE  operation[j] = Blank
    <3>1. operation[j].status = "none"
      BY <1>1, <2>1, <2>3, <2>4 DEF RowFits
    <3>2. QED
      BY <3>1 DEF RenewalInv, RowFits, CopyFits, MoneyFits
  <2>5. QED
    BY <2>2, <2>3, <2>4
<1>2. ASSUME NEW k \in Period, operation[k] # Blank, ~ Terminal(operation[k]),
             NEW j \in Period, operation[j] # Blank, ~ Terminal(operation[j]), j > k
      PROVE  FALSE
  <2>1. k = workspace.paid
    BY <1>1, <1>2
  <2>2. j <= workspace.paid
    BY <1>1, <1>2 DEF RenewalInv, RowFits
  <2>3. QED
    BY <1>2, <2>1, <2>2 DEF Period
<1>3. \A j, k \in Period : j = k \/ j > k \/ k > j
  BY DEF Period
<1>4. QED
  BY <1>1, <1>2, <1>3 DEF NoStrandedRenewal

\* However many periods and workers there are, at most one operation is
\* unfinished, and it is of the current period or its period was granted: no
\* operation is left that every later pass would refuse (processWorkspaceRenewal).
THEOREM NoneIsStranded == Spec => []NoStrandedRenewal
BY RenewalsFit, InvGivesWork, PTL

(* A row only changes by a claim and by a write that wins the compare.     *)
LEMMA RowsFollow ==
  ASSUME RenewalInv, [Next]_vars, NEW k \in Period
  PROVE  operation'[k] = operation[k] \/ Follows(operation[k], operation'[k])
<1>1. operation \in [Period -> OperationType]
  BY DEF RenewalInv, TypeOK
<1>2. ASSUME NEW p \in Process, Persist(p)
      PROVE  operation'[k] = operation[k] \/ Follows(operation[k], operation'[k])
  <2> PICK h \in HandlerType : h = handler[p]
    BY DEF RenewalInv, TypeOK
  <2>1. h.pc = "persist" /\ h.period \in Period
    BY <1>2 DEF Persist, HandlerType
  <2>2. Follows(h.base, h.op)
    BY <2>1 DEF RenewalInv, HandlerFits
  <2>3. \/ operation' = operation
        \/ operation[h.period] = h.base /\ operation' = [operation EXCEPT ![h.period] = h.op]
    BY <1>2 DEF Persist, Current
  <2>4. QED
    BY <1>1, <2>1, <2>2, <2>3
<1>3. ASSUME NEW p \in Process, NEW j \in Period, Claim(p, j)
      PROVE  operation'[k] = operation[k] \/ Follows(operation[k], operation'[k])
  <2> PICK new : new = Opened(p, j)
    OBVIOUS
  <2>1. j \in Selected /\ ToDo(j) /\ operation' = [operation EXCEPT ![j] = new]
    BY <1>3 DEF Claim, Opened
  <2>2. workspace \in WorkspaceType /\ operation[j] \in OperationType
    BY DEF RenewalInv, TypeOK
  <2>3. Follows(operation[j], new)
    BY <2>1, <2>2, OpenedFits
  <2>4. QED
    BY <1>1, <2>1, <2>3
<1>4. ASSUME NEW p \in Process,
             \/ Reload(p) \/ Expiry(p) \/ ExpiryReceipt(p) \/ Preflight(p)
             \/ Advance(p) \/ Debit(p) \/ History(p) \/ Charge(p) \/ ReadPost(p)
             \/ Commit(p) \/ RenewalReceipt(p) \/ ResumeRefund(p) \/ RefundHistory(p)
             \/ RefundCall(p) \/ RefundReceipt(p) \/ Abort(p)
      PROVE  operation' = operation
  BY <1>4 DEF Reload, Expiry, ExpiryReceipt, Preflight, Advance, Debit, History, Charge, ReadPost,
              Commit, RenewalReceipt, ResumeRefund, RefundHistory, RefundCall, RefundReceipt, Abort
<1>5. ASSUME NEW p \in Process, NEW r \in Resource,
             Renew(p, r) \/ Verify(p, r) \/ VerifyAgain(p, r) \/ ResolveVerify(p, r)
      PROVE  operation' = operation
  BY <1>5 DEF Renew, Verify, VerifyAgain, ResolveVerify
<1>6. ASSUME NEW p \in Process, NEW j \in Period, Resolve(p, j)
      PROVE  operation' = operation
  BY <1>6 DEF Resolve
<1>7. ASSUME RequestCancel \/ ApplyCancel \/ Environment \/ UNCHANGED vars
      PROVE  operation' = operation
  BY <1>7 DEF RequestCancel, ApplyCancel, Environment, LeaseExpires, LateRequest, Reconcile,
              ProviderDeletes, BalanceMoves, Tick, vars
<1>8. ASSUME NEW p \in Process, HandlerStep(p) \/ Abort(p)
      PROVE  operation'[k] = operation[k] \/ Follows(operation[k], operation'[k])
  BY <1>2, <1>4, <1>5, <1>8 DEF HandlerStep
<1>9. QED
  BY <1>3, <1>6, <1>7, <1>8 DEF Next

\* Whatever is retried, resolved or expired later, no write takes back what a row
\* says about the wallet or the outcome of its period: a handler only writes what
\* follows the row it compares with (PersistWorkspaceRenewal's compare-and-swap,
\* the phases of runWorkspaceRenewal).
THEOREM OutcomesAreFinal == Spec => OutcomeIsFinal
<1>1. RenewalInv /\ [Next]_vars =>
        [\A k \in Period :
           /\ Preserves(operation[k], operation'[k])
           /\ operation[k].status \in {"active", "refunded", "expired_unpaid"} =>
                operation'[k].status = operation[k].status]_vars
  <2> SUFFICES ASSUME RenewalInv, [Next]_vars, NEW k \in Period
               PROVE  /\ Preserves(operation[k], operation'[k])
                      /\ operation[k].status \in {"active", "refunded", "expired_unpaid"} =>
                           operation'[k].status = operation[k].status
    OBVIOUS
  <2>1. operation'[k] = operation[k] \/ Follows(operation[k], operation'[k])
    BY RowsFollow
  <2>2. QED
    BY <2>1 DEF Follows, Preserves
<1>2. QED
  BY <1>1, RenewalsFit, PTL DEF Spec, OutcomeIsFinal
-----------------------------------------------------------------------------
(* The subscription the customer sees.                                     *)

(* The money of a period, as the contract has it.                          *)
Money(k) ==
  IF k \in refunded THEN "returned" ELSE IF k \in charged THEN "taken" ELSE "due"

ContractSteps == Subscription!Next \/ UNCHANGED Subscription!vars

LEMMA ContractStutters ==
  ASSUME UNCHANGED <<now, charged, refunded, promised>>,
         workspace'.paid = workspace.paid,
         (workspace'.state = "running") = (workspace.state = "running")
  PROVE  ContractSteps
BY DEF ContractSteps, Subscription!vars

LEMMA ChargeTakes ==
  ASSUME RenewalInv, NEW k \in Period, UseChargeCode(k), operation[k].attempted,
         UNCHANGED <<now, workspace, promised>>
  PROVE  ContractSteps
<1>1. charged' = charged \cup {k} /\ refunded' = refunded
  BY ChargeCodeUsed
<1>2. CASE k \in charged
  BY <1>1, <1>2, ContractStutters
<1>3. CASE k \notin charged
  <2>1. k \notin refunded
    BY <1>3 DEF RenewalInv, RefundOnlyWithoutMachine
  <2>2. ~ operation[k].committed /\ operation[k].status # "none" /\ k \notin promised
    BY <1>3, <2>1 DEF RenewalInv, RowFits, CopyFits, MoneyFits, IsTrue
  <2>3. workspace.paid = k
    BY <2>2 DEF RenewalInv, RowFits, TypeOK, WorkspaceType, Period
  <2>4. [j \in Period |-> IF j \in refunded' THEN "returned"
                          ELSE IF j \in charged' THEN "taken" ELSE "due"]
          = [[j \in Period |-> Money(j)] EXCEPT ![k] = "taken"]
    BY <1>1, <2>1 DEF Money
  <2>5. Money(k) = "due"
    BY <1>3, <2>1 DEF Money
  <2>6. Subscription!Take
    BY <2>2, <2>3, <2>4, <2>5 DEF Subscription!Take, Subscription!Period, Period, Money
  <2>7. QED
    BY <2>6 DEF ContractSteps, Subscription!Next
<1>4. QED
  BY <1>2, <1>3

LEMMA RefundGivesBack ==
  ASSUME RenewalInv, NEW k \in Period, UseRefundCode(k), operation[k].refundAttempted,
         UNCHANGED <<now, workspace, promised>>
  PROVE  ContractSteps
<1>1. refunded' = refunded \cup {k} /\ charged' = charged
  BY RefundCodeUsed
<1>2. CASE k \in refunded
  BY <1>1, <1>2, ContractStutters
<1>3. CASE k \notin refunded
  <2>1. k \in charged /\ ~ operation[k].committed /\ operation[k].status # "none"
    BY DEF RenewalInv, RowFits, CopyFits, MoneyFits, PhaseFits, PastRefund, IsTrue
  <2>2. workspace.paid = k
    BY <2>1 DEF RenewalInv, RowFits, TypeOK, WorkspaceType, Period
  <2>3. [j \in Period |-> IF j \in refunded' THEN "returned"
                          ELSE IF j \in charged' THEN "taken" ELSE "due"]
          = [[j \in Period |-> Money(j)] EXCEPT ![k] = "returned"]
    BY <1>1 DEF Money
  <2>4. Money(k) = "taken"
    BY <1>3, <2>1 DEF Money
  <2>5. Subscription!GiveBack
    BY <2>2, <2>3, <2>4 DEF Subscription!GiveBack, Subscription!Period, Period, Money
  <2>6. QED
    BY <2>5 DEF ContractSteps, Subscription!Next
<1>4. QED
  BY <1>2, <1>3

LEMMA WriteKeepsContract ==
  ASSUME RenewalInv, RenewalInv', NEW p \in Process, Persist(p)
  PROVE  ContractSteps
<1> PICK h \in HandlerType : h = handler[p]
  BY DEF RenewalInv, TypeOK
<1> PICK ws \in WorkspaceType : ws = workspace
  BY DEF RenewalInv, TypeOK
<1>1. /\ h.pc = "persist" /\ h.period \in Period
      /\ h.op \in OperationType /\ h.base \in OperationType
      /\ UNCHANGED <<now, charged, refunded, promised>>
  BY DEF Persist, HandlerType, requestVars, walletVars
<1>2. CASE workspace' = workspace
  BY <1>1, <1>2, ContractStutters
<1>3. CASE /\ h.patch \in Patch \ {"none"} /\ workspace' = Patched(h.patch)
           /\ operation[h.period] = h.base /\ ExpectedWorkspace(h)
  <2>1. PatchFits(h.period, h.base, h.op, h.patch) /\ Follows(h.base, h.op)
        /\ CopyFits(h.period, h.op) /\ CopyFits(h.period, h.base)
    BY <1>1 DEF RenewalInv, HandlerFits, CopyOf
  <2> PICK new \in WorkspaceType : new = Patched(h.patch)
    BY <1>3, PatchedFields
  <2>2. workspace' = new
    BY <1>3
  <2>3. CASE h.patch \in {"extend", "extend_running"}
    <3>1. new.paid = ws.paid + 1 /\ ws.paid = h.period
      BY <1>3, <2>3, PatchedFields DEF ExpectedWorkspace
    <3>2. h.op.committed /\ h.base.status = "verifying"
      BY <2>1, <2>3 DEF PatchFits
    <3>3. h.period \in charged /\ ~ h.op.refundAttempted
      BY <2>1, <3>2 DEF CopyFits, MoneyFits, PhaseFits, PastRefund, IsTrue
    <3>4. h.period \notin refunded
      BY <1>1, <1>3, <2>1, <3>3 DEF RenewalInv, EffectsFit, Follows, Preserves
    <3>5. new.state = "running"
      <4>1. CASE h.patch = "extend_running"
        BY <1>3, <4>1, PatchedFields
      <4>2. CASE h.patch = "extend"
        <5>1. new.state = ws.state /\ ws.state \in {"running", "suspended"}
          BY <1>3, <4>2, PatchedFields DEF WorkspaceType
        <5>2. h.base.expiry = "none"
          <6>1. h.op.status # "refunded" /\ ~ h.base.committed /\ h.op.expiry # "past_due"
            BY <2>1, <3>2, <4>2 DEF CopyFits, PhaseFits, PatchFits
          <6>2. h.base.expiry # "past_due"
            BY <2>1, <4>2, <6>1 DEF PatchFits, ExpiryAdvances
          <6>3. h.base.expiry # "expired_unpaid"
            BY <2>1, <3>2, <6>1 DEF CopyFits, ExpiryFits
          <6>4. QED
            BY <1>1, <6>2, <6>3 DEF OperationType, ExpiryStatus
        <5>3. ws.state # "suspended"
          BY <1>1, <1>3, <3>1, <3>2, <5>2 DEF RenewalInv, WorkspaceFits
        <5>4. QED
          BY <5>1, <5>3
      <4>3. QED
        BY <2>3, <4>1, <4>2
    <3>6. Money(h.period) = "taken"
      BY <3>3, <3>4 DEF Money
    <3>7. Subscription!Grant
      BY <1>1, <2>2, <3>1, <3>5, <3>6 DEF Subscription!Grant, Subscription!Period, Period, Money
    <3>8. QED
      BY <3>7 DEF ContractSteps, Subscription!Next
  <2>4. CASE h.patch \in {"suspend", "suspend_cancel"}
    <3>1. new.paid = ws.paid /\ new.state = "suspended"
      BY <1>3, <2>4, PatchedFields
    <3>2. now' >= 2 * workspace'.paid
      BY <2>2, <3>1 DEF RenewalInv, SuspendedOnlyExpired
    <3>3. Subscription!Deny
      BY <1>1, <2>2, <3>1, <3>2 DEF Subscription!Deny
    <3>4. QED
      BY <3>3 DEF ContractSteps, Subscription!Next
  <2>5. CASE h.patch = "cancel"
    <3>1. new.paid = ws.paid /\ new.state = ws.state
      BY <1>3, <2>5, PatchedFields
    <3>2. QED
      BY <1>1, <2>2, <3>1, ContractStutters
  <2>6. QED
    BY <1>3, <2>3, <2>4, <2>5 DEF Patch
<1>4. QED
  BY <1>2, <1>3 DEF Persist, Current, HandlerType

LEMMA CancelKeepsContract ==
  ASSUME RenewalInv, ApplyCancel
  PROVE  ContractSteps
<1> PICK ws \in WorkspaceType : ws = workspace
  BY DEF RenewalInv, TypeOK
<1>1. /\ UNCHANGED <<now, charged, refunded>> /\ request # NoRequest
      /\ workspace' = ws \/ workspace' = [ws EXCEPT !.autoRenew = FALSE]
  BY DEF ApplyCancel, walletVars
<1>2. workspace'.paid = ws.paid /\ workspace'.state = ws.state
  BY <1>1 DEF WorkspaceType
<1>3. CASE promised' = promised
  BY <1>1, <1>2, <1>3, ContractStutters
<1>4. CASE Unchanged /\ promised' = promised \cup {request.told}
  <2> DEFINE k == request.told
  <2>1. k \in {ws.paid, ws.paid + 1} /\ ws.paid \in 1 .. (LastPeriod + 1)
    BY <1>1, <1>4 DEF RenewalInv, RequestFits, WorkspaceFits, Unchanged
  <2>2. k \in 1 .. (LastPeriod + 1)
    <3>1. request.told # request.paid => request.paid \in Period
      BY <1>1 DEF RenewalInv, RequestFits
    <3>2. QED
      BY <1>4, <2>1, <3>1 DEF Unchanged, Period
  <2>3. k \in Period => Money(k) # "taken"
    <3> SUFFICES ASSUME k \in Period, k \in charged, k \notin refunded PROVE FALSE
      BY DEF Money
    <3>1. operation[k].status \in {"none", "expired_unpaid", "refunded"}
      BY <1>1, <1>4, AnnouncedIsFree
    <3>2. operation[k].attempted
      BY DEF RenewalInv, EffectsFit
    <3>3. operation[k].refundConfirmed
      BY <3>1, <3>2 DEF RenewalInv, RowFits, CopyFits, MoneyFits
    <3>4. QED
      BY <3>3 DEF RenewalInv, RowFits, CopyFits, IsTrue
  <2>4. Subscription!Announce(k)
    BY <1>1, <1>2, <1>4, <2>1, <2>3 DEF Subscription!Announce, Subscription!Period, Period, Money
  <2>5. QED
    BY <2>2, <2>4 DEF ContractSteps, Subscription!Next
<1>5. QED
  BY <1>3, <1>4 DEF ApplyCancel

LEMMA CallsKeepContract ==
  ASSUME RenewalInv, NEW p \in Process, Charge(p) \/ RefundCall(p)
  PROVE  ContractSteps
<1> DEFINE k == handler[p].period
<1>1. handler[p].pc \in {"charge", "refund_call"}
      /\ UNCHANGED <<now, workspace, promised>>
  BY DEF Charge, RefundCall, requestVars
<1>2. k \in Period
  BY <1>1, AtWork
<1>3. CASE Charge(p)
  <2>1. operation[k].attempted
    BY <1>3, AtWork DEF Charge, StepFits, Follows, Preserves
  <2>2. UseChargeCode(k) \/ UNCHANGED walletVars
    BY <1>3 DEF Charge, LostRequest
  <2>3. QED
    BY <1>1, <1>2, <2>1, <2>2, ChargeTakes, ContractStutters DEF walletVars
<1>4. CASE RefundCall(p)
  <2>1. operation[k].refundAttempted
    BY <1>4, AtWork DEF RefundCall, StepFits, Follows, Preserves, CopyFits, MoneyFits
  <2>2. UseRefundCode(k) \/ UNCHANGED walletVars
    BY <1>4 DEF RefundCall, LostRequest
  <2>3. QED
    BY <1>1, <1>2, <2>1, <2>2, RefundGivesBack, ContractStutters DEF walletVars
<1>5. QED
  BY <1>3, <1>4

LEMMA EnvironmentKeepsContract ==
  ASSUME RenewalInv, Environment
  PROVE  ContractSteps
<1>1. ASSUME NEW k \in Period, NEW kind \in {"charge", "refund"} \cup Resource,
             LateRequest(k, kind)
      PROVE  ContractSteps
  <2>1. UNCHANGED <<now, workspace, promised>> /\ <<k, kind>> \in inFlight
    BY <1>1 DEF LateRequest, requestVars
  <2>2. CASE kind = "charge"
    BY <1>1, <2>1, <2>2, ChargeTakes DEF LateRequest, RenewalInv, EffectsFit
  <2>3. CASE kind = "refund"
    BY <1>1, <2>1, <2>3, RefundGivesBack DEF LateRequest, RenewalInv, EffectsFit
  <2>4. CASE kind \in Resource
    BY <1>1, <2>1, <2>4, ContractStutters DEF LateRequest, walletVars, Resource
  <2>5. QED
    BY <2>2, <2>3, <2>4
<1>2. ASSUME Tick
      PROVE  ContractSteps
  BY <1>2 DEF Tick, ContractSteps, Subscription!Next, Subscription!Tick, requestVars, walletVars
<1>3. ASSUME NEW k \in Period, LeaseExpires(k)
      PROVE  ContractSteps
  BY <1>3, ContractStutters DEF LeaseExpires, requestVars, walletVars
<1>4. ASSUME NEW r \in Resource, Reconcile(r) \/ ProviderDeletes(r)
      PROVE  ContractSteps
  BY <1>4, ContractStutters DEF Reconcile, ProviderDeletes, requestVars, walletVars
<1>5. ASSUME BalanceMoves
      PROVE  ContractSteps
  BY <1>5, ContractStutters DEF BalanceMoves, requestVars
<1>6. QED
  BY <1>1, <1>2, <1>3, <1>4, <1>5 DEF Environment

LEMMA NextKeepsContract ==
  ASSUME RenewalInv, RenewalInv', [Next]_vars
  PROVE  ContractSteps
<1>1. ASSUME NEW p \in Process,
             \/ Reload(p) \/ Expiry(p) \/ ExpiryReceipt(p) \/ Preflight(p)
             \/ Advance(p) \/ Debit(p) \/ History(p) \/ ReadPost(p)
             \/ Commit(p) \/ RenewalReceipt(p) \/ ResumeRefund(p) \/ RefundHistory(p)
             \/ RefundReceipt(p) \/ Abort(p)
      PROVE  UNCHANGED <<now, workspace, charged, refunded, promised>>
  BY <1>1 DEF Reload, Expiry, ExpiryReceipt, Preflight, Advance, Debit, History, ReadPost, Commit,
              RenewalReceipt, ResumeRefund, RefundHistory, RefundReceipt, Abort, requestVars,
              walletVars
<1>2. ASSUME NEW p \in Process, NEW r \in Resource,
             Renew(p, r) \/ Verify(p, r) \/ VerifyAgain(p, r) \/ ResolveVerify(p, r)
      PROVE  UNCHANGED <<now, workspace, charged, refunded, promised>>
  BY <1>2 DEF Renew, Verify, VerifyAgain, ResolveVerify, requestVars, walletVars
<1>3. ASSUME NEW p \in Process, NEW k \in Period, Claim(p, k) \/ Resolve(p, k)
      PROVE  UNCHANGED <<now, workspace, charged, refunded, promised>>
  BY <1>3 DEF Claim, Resolve, requestVars, walletVars
<1>4. ASSUME RequestCancel \/ UNCHANGED vars
      PROVE  UNCHANGED <<now, workspace, charged, refunded, promised>>
  BY <1>4 DEF RequestCancel, vars, requestVars, walletVars
<1>5. ASSUME UNCHANGED <<now, workspace, charged, refunded, promised>>
      PROVE  ContractSteps
  BY <1>5, ContractStutters
<1>6. ASSUME NEW p \in Process, HandlerStep(p) \/ Abort(p)
      PROVE  ContractSteps
  BY <1>1, <1>2, <1>5, <1>6, WriteKeepsContract, CallsKeepContract DEF HandlerStep
<1>7. QED
  BY <1>3, <1>4, <1>5, <1>6, CancelKeepsContract, EnvironmentKeepsContract DEF Next

\* Under every pass, retry, crash and late answer the customer sees only what the
\* subscription promises: a period is taken once, while it is the next and was not
\* announced as free; it is granted for that money or given back; and access ends
\* only after the granted periods (the renewal saga as a whole).
THEOREM RenewalKeepsSubscription == Spec => KeepsSubscription
<1>1. Init => Subscription!Init
  <2> SUFFICES ASSUME Init PROVE Subscription!Init
    OBVIOUS
  <2>1. workspace.paid = 1 /\ workspace.state = "running"
    BY DEF Init
  <2>2. QED
    BY <2>1 DEF Init, Subscription!Init, Subscription!Period, Period
<1>2. RenewalInv /\ RenewalInv' /\ [Next]_vars => [Subscription!Next]_Subscription!vars
  BY NextKeepsContract DEF ContractSteps
<1>3. QED
  BY <1>1, <1>2, RenewalsFit, PTL DEF Spec, KeepsSubscription, Subscription!Spec
=============================================================================
