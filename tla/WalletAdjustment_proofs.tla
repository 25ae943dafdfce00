---------------------- MODULE WalletAdjustment_proofs ----------------------
(***************************************************************************)
(* What WalletAdjustment promises of each adjustment holds for any number  *)
(* of adjustments, recoveries, failures and movements of the wallet.       *)
(* AdjustmentInv is inductive: a step of a request touches one adjustment, *)
(* so each lemma shows that one action keeps that adjustment fit.  The     *)
(* second half says what a step does to a verdict and to the wallet, what  *)
(* a sum of amounts is, and with both that refunds stay within the charge  *)
(* and that the rows implement AdjustmentContract.                         *)
(***************************************************************************)
EXTENDS WalletAdjustment, FiniteSetTheorems, WellFoundedInduction, TLAPS

USE KindAssumption, AmountAssumption, LegacyAssumption, EvidenceAssumption, BoundAssumption

LEMMA AtMostOne ==
  ASSUME NEW S \in SUBSET {"legacy", "v2"}, "legacy" \in S => S = {"legacy"}
  PROVE  Cardinality(S) <= 1
<1>1. CASE S = {}
  BY <1>1, FS_EmptySet
<1>2. CASE S # {}
  <2>1. S = {"legacy"} \/ S = {"v2"}
    <3>1. CASE "legacy" \in S
      BY <3>1
    <3>2. CASE "legacy" \notin S
      <4>1. S \subseteq {"v2"}
        BY <3>2
      <4>2. QED
        BY <4>1, <1>2
    <3>3. QED
      BY <3>1, <3>2
  <2>2. \E code : S = {code}
    BY <2>1
  <2>3. Cardinality(S) = 1
    BY <2>2, FS_Singleton
  <2>4. QED
    BY <2>3
<1>3. QED
  BY <1>1, <1>2

LEMMA SignedIsInt == \A a \in Adjustment : Signed(a) \in Int
BY DEF Signed

(* The named properties follow from what holds of each adjustment.         *)
LEMMA FitIsEnough ==
  ASSUME TypeOK, \A a \in Adjustment : Fits(a)
  PROVE  AdjustmentInv
<1>1. OneEffect
  BY AtMostOne DEF OneEffect, TypeOK, Fits, LegacyFits
<1>2. SettledIsProven
  BY DEF SettledIsProven, TypeOK, Fits, ProofFits
<1>3. NoDelayedDebit
  BY DEF NoDelayedDebit, Fits, SendsFit
<1>4. SendsAreAuthorized
  BY DEF SendsAreAuthorized, TypeOK, OperationType, Fits, SendsFit
<1>5. QED
  BY <1>1, <1>2, <1>3, <1>4 DEF AdjustmentInv

LEMMA FitIsEnoughNext ==
  ASSUME TypeOK', \A a \in Adjustment : Fits(a)'
  PROVE  AdjustmentInv'
<1>1. OneEffect'
  BY AtMostOne DEF OneEffect, TypeOK, Fits, LegacyFits
<1>2. SettledIsProven'
  BY DEF SettledIsProven, TypeOK, Fits, ProofFits
<1>3. NoDelayedDebit'
  BY DEF NoDelayedDebit, Fits, SendsFit
<1>4. SendsAreAuthorized'
  BY DEF SendsAreAuthorized, TypeOK, OperationType, Fits, SendsFit
<1>5. QED
  BY <1>1, <1>2, <1>3, <1>4 DEF AdjustmentInv
-----------------------------------------------------------------------------
(* What an older release left is fit.                                      *)

LEMMA InitHolds == Init => AdjustmentInv
<1> SUFFICES ASSUME Init PROVE TypeOK /\ \A a \in Adjustment : Fits(a)
  BY FitIsEnough
<1>1. PICK legacy \in SUBSET Legacy, before \in {Unread, InitialBalance} :
        /\ operation = [a \in Adjustment |->
             IF a \in legacy THEN LegacyReview(before) ELSE Blank]
        /\ handler \in [pc : {"idle"}, adjustment : Adjustment]
        /\ \/ balance = InitialBalance /\ used = [a \in Adjustment |-> {}]
           \/ \E landed \in legacy :
                /\ balance = InitialBalance + Signed(landed)
                /\ used = [a \in Adjustment |-> IF a = landed THEN {"legacy"} ELSE {}]
        /\ sent = [a \in Adjustment |-> IF a \in legacy THEN 1 ELSE 0]
        /\ audit = [a \in Adjustment |-> IF a \in legacy THEN "manual_review" ELSE "none"]
        /\ inFlight = {} /\ receipts = {} /\ faults = 0 /\ external = 0
  BY DEF Init
<1>2. Blank \in OperationType /\ LegacyReview(before) \in OperationType
  <2>1. Blank \in OperationType
    BY DEF Blank, OperationType, Status, Phase, Identity, Error, Unread
  <2>2. before \in Int
    BY DEF Unread
  <2>3. /\ "manual_review" \in Status /\ "authoritative_readback" \in Phase
        /\ "legacy" \in Identity /\ "unconfirmed" \in Error
    BY DEF Status, Phase, Identity, Error
  <2>4. PICK blank \in OperationType : blank = Blank
    BY <2>1
  <2>5. LegacyReview(before) =
          [blank EXCEPT !.status = "manual_review", !.phase = "authoritative_readback",
                        !.identity = "legacy", !.attempted = TRUE,
                        !.before = before, !.error = "unconfirmed"]
    BY <2>4 DEF LegacyReview
  <2>6. LegacyReview(before) \in OperationType
    BY <2>2, <2>3, <2>5 DEF OperationType
  <2>7. QED
    BY <2>1, <2>6
<1>3. balance \in Nat /\ used \in [Adjustment -> SUBSET {"legacy", "v2"}]
  BY <1>1 DEF Signed
<1>4. TypeOK
  BY <1>1, <1>2, <1>3 DEF TypeOK, HandlerType, Step
<1>5. ASSUME NEW a \in Adjustment PROVE Fits(a)
  <2>1. CASE a \in legacy
    <3>1. operation[a] = LegacyReview(before) /\ sent[a] = 1 /\ used[a] \in {{}, {"legacy"}}
      BY <1>1, <2>1
    <3>. Blank \in OperationType /\ ~ Blank.proof /\ ~ Blank.recoveryAttempted
      BY <1>2 DEF Blank
    <3>2. Kind[a] = "debit" => ~ before \in 0 .. (Amount[a] - 1)
      BY <2>1 DEF Unread
    <3>3. QED
      BY <1>1, <3>1, <3>2
      DEF LegacyReview, OperationType, Fits, StatusFits, HandlerFits, SendsFit, ProofFits, LegacyFits,
          Holds, Stopped
  <2>2. CASE a \notin legacy
    <3>1. operation[a] = Blank /\ sent[a] = 0 /\ used[a] = {}
      BY <1>1, <2>2
    <3>2. QED
      BY <1>1, <3>1
      DEF Blank, Unread, Fits, StatusFits, HandlerFits, SendsFit, ProofFits, LegacyFits, Holds,
          Stopped
  <2>3. QED
    BY <2>1, <2>2
<1>6. QED
  BY <1>4, <1>5
-----------------------------------------------------------------------------
(* A step of a request.                                                    *)

\* Nothing changes but what belongs to a.
Only(a) ==
  /\ handler'.pc = "idle" \/ handler'.adjustment = a
  /\ \A b \in Adjustment \ {a} :
       /\ operation'[b] = operation[b] /\ used'[b] = used[b] /\ sent'[b] = sent[b]
       /\ audit'[b] = audit[b]
       /\ b \in inFlight' <=> b \in inFlight
       /\ b \in receipts' <=> b \in receipts

LEMMA OthersStayFit ==
  ASSUME AdjustmentInv, NEW a \in Adjustment, Only(a),
         NEW b \in Adjustment, b # a
  PROVE  Fits(b)'
<1>1. Fits(b)
  BY DEF AdjustmentInv
<1>2. \A pc \in Step \ {"idle"} : ~ Holds(b, pc)'
  BY DEF Only, Holds
<1>3. QED
  BY <1>1, <1>2
  DEF Only, Fits, StatusFits, HandlerFits, SendsFit, ProofFits, LegacyFits, Stopped, Step

LEMMA RequestStep ==
  ASSUME AdjustmentInv, NEW a \in Adjustment, Only(a), TypeOK', Fits(a)'
  PROVE  AdjustmentInv'
BY OthersStayFit, FitIsEnoughNext

(* What Save does, whether it is answered or not.                          *)
LEMMA Saved ==
  ASSUME AdjustmentInv, NEW a \in Adjustment, NEW op \in OperationType, NEW pc \in Step,
         Save(a, op, pc)
  PROVE  /\ operation' \in [Adjustment -> OperationType]
         /\ handler' \in HandlerType
         /\ faults' \in 0 .. MaxFaults
         /\ \A b \in Adjustment \ {a} : operation'[b] = operation[b]
         /\ handler'.pc = "idle" \/ handler'.adjustment = a
         /\ \/ operation'[a] = op /\ handler'.pc \in {pc, "idle"}
            \/ operation'[a] = operation[a] /\ handler'.pc = "idle"
<1>1. /\ operation \in [Adjustment -> OperationType]
      /\ handler \in HandlerType
      /\ faults \in 0 .. MaxFaults
  BY DEF AdjustmentInv, TypeOK
<1>2. CASE Sound /\ operation' = [operation EXCEPT ![a] = op] /\ At(a, pc)
  BY <1>1, <1>2 DEF Sound, At, HandlerType
<1>3. CASE /\ Fault /\ Release
           /\ operation' \in {operation, [operation EXCEPT ![a] = op]}
  BY <1>1, <1>3 DEF Fault, Release, HandlerType, Step
<1>4. QED
  BY <1>2, <1>3 DEF Save

(* A step that writes the row of a and touches nothing outside it.         *)
LEMMA SaveStep ==
  ASSUME AdjustmentInv, NEW a \in Adjustment, NEW op \in OperationType, NEW pc \in Step,
         Save(a, op, pc),
         UNCHANGED <<walletVars, sent, inFlight, receipts, audit, external>>,
         operation'[a] = op /\ handler'.pc \in {pc, "idle"} => Fits(a)'
  PROVE  AdjustmentInv'
<1>1. TypeOK' /\ Only(a)
  BY Saved DEF AdjustmentInv, TypeOK, Only, walletVars
<1>2. CASE operation'[a] = op /\ handler'.pc \in {pc, "idle"}
  BY <1>1, <1>2, RequestStep
<1>3. CASE operation'[a] = operation[a] /\ handler'.pc = "idle"
  <2>1. Fits(a)
    BY DEF AdjustmentInv
  <2>2. Fits(a)'
    BY <1>3, <2>1
    DEF Fits, StatusFits, HandlerFits, SendsFit, ProofFits, LegacyFits, Stopped, Holds, walletVars
  <2>3. QED
    BY <1>1, <2>2, RequestStep
<1>4. QED
  BY <1>2, <1>3, Saved

(* A step that leaves the rows and the outside world alone.                *)
LEMMA HandlerStep ==
  ASSUME AdjustmentInv, NEW a \in Adjustment,
         handler' \in HandlerType, handler'.pc = "idle" \/ handler'.adjustment = a,
         faults' \in 0 .. MaxFaults,
         UNCHANGED <<operation, walletVars, sent, inFlight, receipts, audit, external>>,
         HandlerFits(a)',
         ~ Holds(a, "call")' /\ (Holds(a, "balance")' => Entries(a) = {} /\ Eligible(operation[a]))
  PROVE  AdjustmentInv'
<1>1. TypeOK' /\ Only(a)
  BY DEF AdjustmentInv, TypeOK, Only, walletVars
<1>2. Fits(a)
  BY DEF AdjustmentInv
<1>3. Fits(a)'
  BY <1>2
  DEF Fits, StatusFits, SendsFit, ProofFits, LegacyFits, Stopped, Eligible, Entries, walletVars
<1>4. QED
  BY <1>1, <1>3, RequestStep

LEMMA ReleaseStep ==
  ASSUME AdjustmentInv, NEW a \in Adjustment, Release, faults' \in 0 .. MaxFaults,
         UNCHANGED <<operation, walletVars, sent, inFlight, receipts, audit, external>>
  PROVE  AdjustmentInv'
<1>1. handler' \in HandlerType /\ handler'.pc = "idle"
  BY DEF AdjustmentInv, TypeOK, HandlerType, Release, Step
<1>2. HandlerFits(a)' /\ ~ Holds(a, "call")' /\ ~ Holds(a, "balance")'
  BY <1>1 DEF HandlerFits, Holds
<1>3. QED
  BY <1>1, <1>2, HandlerStep

LEMMA FaultTyped ==
  ASSUME AdjustmentInv, Fault
  PROVE  faults' \in 0 .. MaxFaults
BY DEF AdjustmentInv, TypeOK, Fault

(* A row under way goes to manual review without a trace elsewhere.        *)
LEMMA InReviewTyped ==
  ASSUME NEW op \in OperationType, NEW error \in Error
  PROVE  InReview(op, error) \in OperationType
BY DEF InReview, OperationType, Status, Phase

LEMMA ReviewFitsRow ==
  ASSUME AdjustmentInv, NEW a \in Adjustment, operation[a].status = "pending",
         operation[a].phase \notin {"none", "before_balance"},
         operation'[a] = InReview(operation[a], "unconfirmed"),
         handler'.pc \in {"review", "idle"},
         UNCHANGED <<used, inFlight, receipts, audit>>,
         sent'[a] \in Nat, sent'[a] <= (IF operation[a].recoveryAttempted THEN 2 ELSE 1)
  PROVE  Fits(a)'
<1>1. Fits(a) /\ operation[a] \in OperationType
  BY DEF AdjustmentInv, TypeOK
<1>2. /\ operation'[a].status = "pending" /\ operation'[a].phase = "manual_review_audit"
      /\ operation'[a].error = "unconfirmed"
      /\ operation'[a].recovery = operation[a].recovery
      /\ operation'[a].recoveryAttempted = operation[a].recoveryAttempted
      /\ operation'[a].before = operation[a].before
      /\ operation'[a].proof = operation[a].proof
  BY <1>1 DEF InReview, OperationType
<1>3. QED
  BY <1>1, <1>2
  DEF Fits, StatusFits, HandlerFits, SendsFit, ProofFits, LegacyFits, Stopped, Holds
-----------------------------------------------------------------------------
(* Creating an adjustment, and asking for it again.                        *)

LEMMA CreateHolds ==
  ASSUME AdjustmentInv, NEW a \in Adjustment, Create(a)
  PROVE  AdjustmentInv'
<1> DEFINE op == [Blank EXCEPT !.status = "pending", !.phase = "before_balance"]
<1>1. Fits(a) /\ operation[a].status = "none"
  BY DEF AdjustmentInv, Create
<1>2. Blank \in OperationType
  BY DEF Blank, OperationType, Status, Phase, Identity, Error, Unread
<1>3. op \in OperationType /\ "run" \in Step
  BY <1>2 DEF OperationType, Status, Phase, Step
<1>4. ~ Blank.proof /\ ~ Blank.recoveryAttempted /\ Blank.before = -1 /\ Blank.error = "none"
  BY DEF Blank, Unread
<1>5. operation'[a] = op /\ handler'.pc \in {"run", "idle"} => Fits(a)'
  BY <1>1, <1>2, <1>4
  DEF Create, OperationType, Fits, StatusFits, HandlerFits, SendsFit, ProofFits, LegacyFits, Stopped,
      Holds, walletVars
<1>6. QED
  BY <1>3, <1>5, SaveStep DEF Create

LEMMA ReplayHolds ==
  ASSUME AdjustmentInv, NEW a \in Adjustment, Replay(a)
  PROVE  AdjustmentInv'
<1>1. handler' \in HandlerType /\ handler'.pc = "run" /\ handler'.adjustment = a
  BY DEF Replay, At, HandlerType, Step
<1>2. HandlerFits(a)' /\ ~ Holds(a, "call")' /\ ~ Holds(a, "balance")'
  BY <1>1 DEF Replay, HandlerFits, Holds
<1>3. QED
  BY <1>1, <1>2, HandlerStep DEF Replay, AdjustmentInv, TypeOK
-----------------------------------------------------------------------------
(* The phases.                                                             *)

LEMMA BeforeBalanceHolds ==
  ASSUME AdjustmentInv, NEW a \in Adjustment, BeforeBalance(a)
  PROVE  AdjustmentInv'
<1> DEFINE read == [operation[a] EXCEPT !.before = balance]
<1>1. /\ Fits(a) /\ operation[a] \in OperationType /\ balance \in Nat
      /\ operation[a].phase = "before_balance" /\ Holds(a, "run")
  BY DEF AdjustmentInv, TypeOK, BeforeBalance, Runs
<1>2. operation[a].status = "pending"
  BY <1>1 DEF Fits, HandlerFits
<1>3. read \in OperationType /\ "run" \in Step /\ "idle" \in Step
  BY <1>1 DEF OperationType, Step
<1>4. CASE Fault /\ UNCHANGED operation /\ Release
  BY <1>4, ReleaseStep, FaultTyped DEF BeforeBalance
<1>5. CASE Insufficient(a) /\ Save(a, Rejected(read), "idle")
  <2>1. Rejected(read) \in OperationType
    BY <1>3 DEF Rejected, OperationType, Status, Phase, Error
  <2>2. operation'[a] = Rejected(read) /\ handler'.pc \in {"idle"} => Fits(a)'
    BY <1>1, <1>2
    DEF BeforeBalance, Rejected, OperationType, Fits, StatusFits, HandlerFits, SendsFit, ProofFits,
        LegacyFits, Stopped, Holds, walletVars
  <2>3. QED
    BY <1>3, <1>5, <2>1, <2>2, SaveStep DEF BeforeBalance
<1>6. CASE ~ Insufficient(a) /\ Save(a, [read EXCEPT !.phase = "adjustment"], "run")
  <2>1. [read EXCEPT !.phase = "adjustment"] \in OperationType
    BY <1>3 DEF OperationType, Phase
  <2>2. operation'[a] = [read EXCEPT !.phase = "adjustment"] /\ handler'.pc \in {"run", "idle"}
          => Fits(a)'
    BY <1>1, <1>2, <1>6
    DEF BeforeBalance, Insufficient, OperationType, Fits, StatusFits, HandlerFits, SendsFit,
        ProofFits, LegacyFits, Stopped, Holds, walletVars
  <2>3. QED
    BY <1>3, <1>6, <2>1, <2>2, SaveStep DEF BeforeBalance
<1>7. QED
  BY <1>4, <1>5, <1>6 DEF BeforeBalance

LEMMA AttemptHolds ==
  ASSUME AdjustmentInv, NEW a \in Adjustment, Attempt(a)
  PROVE  AdjustmentInv'
<1> DEFINE op == [operation[a] EXCEPT !.attempted = TRUE, !.phase = "authoritative_readback"]
<1>1. /\ Fits(a) /\ operation[a] \in OperationType
      /\ operation[a].phase = "adjustment" /\ Holds(a, "run")
  BY DEF AdjustmentInv, TypeOK, Attempt, Runs
<1>2. operation[a].status = "pending"
  BY <1>1 DEF Fits, HandlerFits
<1>3. op \in OperationType /\ "call" \in Step
  BY <1>1 DEF OperationType, Phase, Step
<1>4. operation'[a] = op /\ handler'.pc \in {"call", "idle"} => Fits(a)'
  BY <1>1, <1>2
  DEF Attempt, OperationType, Fits, StatusFits, HandlerFits, SendsFit, ProofFits, LegacyFits,
      Stopped, Holds, walletVars
<1>5. QED
  BY <1>3, <1>4, SaveStep DEF Attempt

(* The code takes effect, now or before.                                   *)
LEMMA CodeUsed ==
  ASSUME AdjustmentInv, NEW a \in Adjustment, ~ Refused(a), UseCode(a)
  PROVE  /\ balance' \in Nat
         /\ used' \in [Adjustment -> SUBSET {"legacy", "v2"}]
         /\ used'[a] = used[a] \cup {"v2"}
         /\ \A b \in Adjustment \ {a} : used'[b] = used[b]
<1>1. balance \in Nat /\ used \in [Adjustment -> SUBSET {"legacy", "v2"}] /\ Signed(a) \in Int
  BY SignedIsInt DEF AdjustmentInv, TypeOK
<1>2. CASE "v2" \in used[a]
  BY <1>1, <1>2 DEF UseCode, walletVars
<1>3. CASE "v2" \notin used[a]
  <2>1. used' = [used EXCEPT ![a] = @ \cup {"v2"}] /\ balance' = balance + Signed(a)
    BY <1>3 DEF UseCode
  <2>2. balance' \in Nat
    BY <1>1, <1>3, <2>1 DEF Refused
  <2>3. QED
    BY <1>1, <2>1, <2>2
<1>4. QED
  BY <1>2, <1>3

LEMMA CallHolds ==
  ASSUME AdjustmentInv, NEW a \in Adjustment, Call(a)
  PROVE  AdjustmentInv'
<1>1. /\ Fits(a) /\ operation[a] \in OperationType /\ Holds(a, "call")
      /\ "run" \in Step /\ "review" \in Step /\ "unconfirmed" \in Error
  BY DEF AdjustmentInv, TypeOK, Call, Step, Error
<1>2. /\ operation[a].status = "pending" /\ operation[a].phase = "authoritative_readback"
      /\ sent[a] < (IF operation[a].recoveryAttempted THEN 2 ELSE 1)
      /\ "legacy" \notin used[a]
  BY <1>1 DEF Fits, HandlerFits, SendsFit, LegacyFits
<1>3. /\ sent' \in [Adjustment -> Nat] /\ sent'[a] = sent[a] + 1 /\ sent[a] \in Nat
      /\ \A b \in Adjustment \ {a} : sent'[b] = sent[b]
      /\ UNCHANGED <<receipts, audit, external>>
  BY DEF Call, AdjustmentInv, TypeOK
<1>4. InReview(operation[a], "unconfirmed") \in OperationType
  BY <1>1, InReviewTyped
<1>5. CASE /\ operation' = operation /\ handler' = [pc |-> "run", adjustment |-> a]
           /\ faults' \in 0 .. MaxFaults /\ balance' \in Nat
           /\ used' \in [Adjustment -> SUBSET {"legacy", "v2"}]
           /\ used'[a] \in {used[a], used[a] \cup {"v2"}}
           /\ inFlight' \in {inFlight, inFlight \cup {a}}
           /\ \A b \in Adjustment \ {a} : used'[b] = used[b]
  <2>1. TypeOK' /\ Only(a)
    BY <1>1, <1>3, <1>5 DEF AdjustmentInv, TypeOK, Only, HandlerType
  <2>2. Fits(a)'
    BY <1>1, <1>2, <1>3, <1>5
    DEF Fits, StatusFits, HandlerFits, SendsFit, ProofFits, LegacyFits, Stopped, Holds
  <2>3. QED
    BY <2>1, <2>2, RequestStep
<1>6. CASE /\ operation' \in [Adjustment -> OperationType]
           /\ handler' \in HandlerType /\ faults' \in 0 .. MaxFaults
           /\ \A b \in Adjustment \ {a} : operation'[b] = operation[b]
           /\ handler'.pc = "idle" \/ handler'.adjustment = a
           /\ \/ /\ operation'[a] = InReview(operation[a], "unconfirmed")
                 /\ handler'.pc \in {"review", "idle"}
              \/ operation'[a] = operation[a] /\ handler'.pc = "idle"
           /\ UNCHANGED <<walletVars, inFlight>>
  <2>1. TypeOK' /\ Only(a)
    BY <1>3, <1>6 DEF AdjustmentInv, TypeOK, Only, walletVars
  <2>2. CASE operation'[a] = operation[a] /\ handler'.pc = "idle"
    <3>1. Fits(a)'
      BY <1>1, <1>2, <1>3, <1>6, <2>2
      DEF Fits, StatusFits, HandlerFits, SendsFit, ProofFits, LegacyFits, Stopped, Holds, walletVars
    <3>2. QED
      BY <2>1, <3>1, RequestStep
  <2>3. CASE /\ operation'[a] = InReview(operation[a], "unconfirmed")
             /\ handler'.pc \in {"review", "idle"}
    <3>1. Fits(a)'
      BY <1>2, <1>3, <1>6, <2>3, ReviewFitsRow DEF walletVars
    <3>2. QED
      BY <2>1, <3>1, RequestStep
  <2>4. QED
    BY <1>6, <2>2, <2>3
<1>7. CASE /\ ~ Refused(a) /\ UseCode(a) /\ Sound /\ At(a, "run")
           /\ UNCHANGED <<operation, inFlight>>
  BY <1>5, <1>7, CodeUsed DEF Sound, At, AdjustmentInv, TypeOK
<1>8. CASE /\ Fault /\ inFlight' \in {inFlight, inFlight \cup {a}} /\ At(a, "run")
           /\ UNCHANGED <<operation, walletVars>>
  BY <1>5, <1>8, FaultTyped DEF At, AdjustmentInv, TypeOK, walletVars
<1>9. CASE ToReview(a, "unconfirmed") /\ UNCHANGED <<walletVars, inFlight>>
  BY <1>1, <1>4, <1>6, <1>9, Saved DEF ToReview
<1>10. CASE /\ Fault /\ At(a, "review") /\ UNCHANGED <<walletVars, inFlight>>
            /\ operation' = [operation EXCEPT ![a] = InReview(@, "unconfirmed")]
  <2>1. /\ operation' \in [Adjustment -> OperationType]
        /\ operation'[a] = InReview(operation[a], "unconfirmed")
        /\ \A b \in Adjustment \ {a} : operation'[b] = operation[b]
    BY <1>4, <1>10 DEF AdjustmentInv, TypeOK
  <2>2. handler' \in HandlerType /\ handler'.pc = "review" /\ handler'.adjustment = a
    BY <1>10 DEF At, HandlerType, Step
  <2>3. QED
    BY <1>6, <1>10, <2>1, <2>2, FaultTyped
<1>11. QED
  BY <1>7, <1>8, <1>9, <1>10 DEF Call

(* A phase that cannot confirm the adjustment sends it to review.          *)
LEMMA ReviewStep ==
  ASSUME AdjustmentInv, NEW a \in Adjustment,
         operation[a].status = "pending", operation[a].phase \notin {"none", "before_balance"},
         UNCHANGED <<walletVars, sent, inFlight, receipts, audit, external>>,
         \/ ToReview(a, "unconfirmed")
         \/ /\ Fault /\ At(a, "review")
            /\ operation' = [operation EXCEPT ![a] = InReview(@, "unconfirmed")]
  PROVE  AdjustmentInv'
<1>1. /\ Fits(a) /\ operation[a] \in OperationType /\ sent[a] \in Nat
      /\ "review" \in Step /\ "unconfirmed" \in Error
  BY DEF AdjustmentInv, TypeOK, Step, Error
<1>2. InReview(operation[a], "unconfirmed") \in OperationType
  BY <1>1, InReviewTyped
<1>3. operation'[a] = InReview(operation[a], "unconfirmed") /\ handler'.pc \in {"review", "idle"}
        => Fits(a)'
  BY <1>1, ReviewFitsRow DEF walletVars, Fits, SendsFit
<1>4. CASE ToReview(a, "unconfirmed")
  BY <1>1, <1>2, <1>3, <1>4, SaveStep DEF ToReview
<1>5. CASE /\ Fault /\ At(a, "review")
           /\ operation' = [operation EXCEPT ![a] = InReview(@, "unconfirmed")]
  <2>1. /\ operation' \in [Adjustment -> OperationType]
        /\ operation'[a] = InReview(operation[a], "unconfirmed")
        /\ \A b \in Adjustment \ {a} : operation'[b] = operation[b]
    BY <1>2, <1>5 DEF AdjustmentInv, TypeOK
  <2>2. handler' \in HandlerType /\ handler'.pc = "review" /\ handler'.adjustment = a
    BY <1>5 DEF At, HandlerType, Step
  <2>3. TypeOK' /\ Only(a)
    BY <1>5, <2>1, <2>2, FaultTyped DEF AdjustmentInv, TypeOK, Only, walletVars
  <2>4. QED
    BY <1>3, <2>1, <2>2, <2>3, RequestStep
<1>6. QED
  BY <1>4, <1>5

LEMMA AuthoritativeReadbackHolds ==
  ASSUME AdjustmentInv, NEW a \in Adjustment, AuthoritativeReadback(a)
  PROVE  AdjustmentInv'
<1> DEFINE op == [operation[a] EXCEPT !.proof = TRUE, !.phase = "after_balance"]
<1>1. /\ Fits(a) /\ operation[a] \in OperationType
      /\ operation[a].phase = "authoritative_readback" /\ Holds(a, "run")
  BY DEF AdjustmentInv, TypeOK, AuthoritativeReadback, Runs
<1>2. operation[a].status = "pending"
  BY <1>1 DEF Fits, HandlerFits
<1>3. CASE Shown(a) /\ Save(a, op, "run")
  <2>1. op \in OperationType /\ "run" \in Step
    BY <1>1 DEF OperationType, Phase, Step
  <2>2. operation'[a] = op /\ handler'.pc \in {"run", "idle"} => Fits(a)'
    BY <1>1, <1>2, <1>3
    DEF AuthoritativeReadback, Shown, Entries, OperationType, Fits, StatusFits, HandlerFits,
        SendsFit, ProofFits, LegacyFits, Stopped, Holds, walletVars
  <2>3. QED
    BY <1>3, <2>1, <2>2, SaveStep DEF AuthoritativeReadback
<1>4. QED
  BY <1>1, <1>2, <1>3, ReviewStep DEF AuthoritativeReadback

LEMMA AfterBalanceHolds ==
  ASSUME AdjustmentInv, NEW a \in Adjustment, AfterBalance(a)
  PROVE  AdjustmentInv'
<1> DEFINE op == [operation[a] EXCEPT !.phase = "ledger"]
<1>1. /\ Fits(a) /\ operation[a] \in OperationType
      /\ operation[a].phase = "after_balance" /\ Holds(a, "run")
  BY DEF AdjustmentInv, TypeOK, AfterBalance, Runs
<1>2. operation[a].status = "pending"
  BY <1>1 DEF Fits, HandlerFits
<1>3. CASE Save(a, op, "run")
  <2>1. op \in OperationType /\ "run" \in Step
    BY <1>1 DEF OperationType, Phase, Step
  <2>2. operation'[a] = op /\ handler'.pc \in {"run", "idle"} => Fits(a)'
    BY <1>1, <1>2
    DEF AfterBalance, OperationType, Fits, StatusFits, HandlerFits, SendsFit, ProofFits,
        LegacyFits, Stopped, Holds, walletVars
  <2>3. QED
    BY <1>3, <2>1, <2>2, SaveStep DEF AfterBalance
<1>4. QED
  BY <1>1, <1>2, <1>3, ReviewStep DEF AfterBalance

LEMMA ReceiptHolds ==
  ASSUME AdjustmentInv, NEW a \in Adjustment, Receipt(a)
  PROVE  AdjustmentInv'
<1> DEFINE op == [operation[a] EXCEPT !.receipt = TRUE, !.phase = "audit"]
<1>1. /\ Fits(a) /\ operation[a] \in OperationType
      /\ operation[a].phase = "ledger" /\ Holds(a, "run")
      /\ UNCHANGED <<walletVars, sent, inFlight, audit, external>>
  BY DEF AdjustmentInv, TypeOK, Receipt, Runs
<1>2. operation[a].status = "pending" /\ used[a] # {}
  BY <1>1 DEF Fits, HandlerFits, ProofFits
<1>3. op \in OperationType /\ "run" \in Step
  BY <1>1 DEF OperationType, Phase, Step
<1>4. CASE /\ operation' \in [Adjustment -> OperationType]
           /\ handler' \in HandlerType /\ faults' \in 0 .. MaxFaults
           /\ \A b \in Adjustment \ {a} : operation'[b] = operation[b]
           /\ handler'.pc = "idle" \/ handler'.adjustment = a
           /\ \/ operation'[a] = op /\ handler'.pc \in {"run", "idle"} /\ a \in receipts'
              \/ operation'[a] = operation[a] /\ handler'.pc = "idle"
           /\ receipts' \in {receipts, receipts \cup {a}}
  <2>1. TypeOK' /\ Only(a)
    BY <1>1, <1>4 DEF AdjustmentInv, TypeOK, Only, walletVars
  <2>2. Fits(a)'
    <3>1. PICK old \in OperationType : old = operation[a]
      BY <1>1
    <3>2. /\ op.status = old.status /\ op.phase = "audit" /\ op.before = old.before
          /\ op.proof = old.proof /\ op.error = old.error /\ op.recovery = old.recovery
          /\ op.recoveryAttempted = old.recoveryAttempted
      BY <3>1 DEF OperationType
    <3> HIDE DEF op
    <3>3. CASE operation'[a] = op /\ handler'.pc \in {"run", "idle"} /\ a \in receipts'
      <4>1. StatusFits(a) /\ HandlerFits(a) /\ SendsFit(a) /\ ProofFits(a) /\ LegacyFits(a)
        BY <1>1 DEF Fits
      <4>4. StatusFits(a)' /\ HandlerFits(a)'
        BY <1>1, <1>2, <1>4, <3>1, <3>2, <3>3, <4>1 DEF StatusFits, HandlerFits, Stopped, Holds
      <4>5. SendsFit(a)'
        BY <1>1, <1>2, <1>4, <3>1, <3>2, <3>3, <4>1 DEF SendsFit, Holds, walletVars
      <4>6. ProofFits(a)' /\ LegacyFits(a)'
        BY <1>1, <1>2, <1>4, <3>1, <3>2, <3>3, <4>1 DEF ProofFits, LegacyFits, Holds, walletVars
      <4>7. QED
        BY <4>4, <4>5, <4>6 DEF Fits
    <3>4. CASE operation'[a] = operation[a] /\ handler'.pc = "idle"
      <4>1. StatusFits(a) /\ HandlerFits(a) /\ SendsFit(a) /\ ProofFits(a) /\ LegacyFits(a)
        BY <1>1 DEF Fits
      <4>4. StatusFits(a)' /\ HandlerFits(a)'
        BY <1>1, <1>2, <1>4, <3>4, <4>1 DEF StatusFits, HandlerFits, Stopped, Holds
      <4>5. SendsFit(a)'
        BY <1>1, <1>2, <1>4, <3>4, <4>1 DEF SendsFit, Holds, walletVars
      <4>6. ProofFits(a)' /\ LegacyFits(a)'
        BY <1>1, <1>2, <1>4, <3>4, <4>1 DEF ProofFits, LegacyFits, Holds, walletVars
      <4>7. QED
        BY <4>4, <4>5, <4>6 DEF Fits
    <3>5. QED
      BY <1>4, <3>3, <3>4
  <2>3. QED
    BY <2>1, <2>2, RequestStep
<1>5. CASE receipts' = receipts \cup {a} /\ Save(a, op, "run")
  BY <1>3, <1>4, <1>5, Saved
<1>6. CASE /\ Fault /\ receipts' \in {receipts, receipts \cup {a}} /\ Release
           /\ UNCHANGED operation
  <2>1. handler' \in HandlerType /\ handler'.pc = "idle"
    BY <1>6 DEF AdjustmentInv, TypeOK, HandlerType, Release, Step
  <2>2. QED
    BY <1>4, <1>6, <2>1, FaultTyped DEF AdjustmentInv, TypeOK
<1>7. QED
  BY <1>5, <1>6 DEF Receipt

(* The row and its audit event are written together, and the write of the  *)
(* row may be lost.                                                        *)
LEMMA AuditedStep ==
  ASSUME AdjustmentInv, NEW a \in Adjustment, NEW op \in OperationType, NEW pc \in Step,
         NEW event \in {"manual_review", "succeeded"},
         Save(a, op, pc), audit' = [audit EXCEPT ![a] = event],
         operation[a].status = "pending",
         UNCHANGED <<walletVars, sent, inFlight, receipts, external>>,
         operation'[a] = op /\ handler'.pc \in {pc, "idle"} => Fits(a)'
  PROVE  AdjustmentInv'
<1>1. TypeOK' /\ Only(a)
  BY Saved DEF AdjustmentInv, TypeOK, Only, walletVars
<1>2. CASE operation'[a] = op /\ handler'.pc \in {pc, "idle"}
  BY <1>1, <1>2, RequestStep
<1>3. CASE operation'[a] = operation[a] /\ handler'.pc = "idle"
  <2>1. Fits(a)
    BY DEF AdjustmentInv
  <2>2. Fits(a)'
    BY <1>3, <2>1
    DEF Fits, StatusFits, HandlerFits, SendsFit, ProofFits, LegacyFits, Stopped, Holds, walletVars
  <2>3. QED
    BY <1>1, <2>2, RequestStep
<1>4. QED
  BY <1>2, <1>3, Saved

LEMMA AuditHolds ==
  ASSUME AdjustmentInv, NEW a \in Adjustment, Audit(a)
  PROVE  AdjustmentInv'
<1> DEFINE op == [operation[a] EXCEPT !.status = "succeeded", !.phase = "complete",
                                      !.error = "none"]
<1>1. /\ Fits(a) /\ operation[a] \in OperationType /\ audit' \in {audit, [audit EXCEPT ![a] = "succeeded"]}
      /\ operation[a].phase = "audit" /\ Holds(a, "run")
      /\ UNCHANGED <<walletVars, sent, inFlight, receipts, external>>
  BY DEF AdjustmentInv, TypeOK, Audit, Runs
<1>2. operation[a].status = "pending"
  BY <1>1 DEF Fits, HandlerFits
<1>3. CASE audit' = [audit EXCEPT ![a] = "succeeded"] /\ Save(a, op, "run")
  <2>1. op \in OperationType /\ "run" \in Step
    BY <1>1 DEF OperationType, Status, Phase, Error, Step
  <2>2. audit'[a] = "succeeded"
    BY <1>3 DEF AdjustmentInv, TypeOK
  <2>3. operation'[a] = op /\ handler'.pc \in {"run", "idle"} => Fits(a)'
    BY <1>1, <1>2, <2>2
    DEF OperationType, Fits, StatusFits, HandlerFits, SendsFit, ProofFits, LegacyFits, Stopped,
        Holds, walletVars
  <2>4. QED
    BY <1>1, <1>2, <1>3, <2>1, <2>3, AuditedStep
<1>4. CASE Fault /\ Release /\ UNCHANGED <<operation, audit>>
  BY <1>1, <1>4, ReleaseStep, FaultTyped
<1>5. QED
  BY <1>3, <1>4 DEF Audit

LEMMA ReviewAuditHolds ==
  ASSUME AdjustmentInv, NEW a \in Adjustment, ReviewAudit(a)
  PROVE  AdjustmentInv'
<1> DEFINE op == [operation[a] EXCEPT !.status = "manual_review",
                                      !.phase = "authoritative_readback"]
<1>1. /\ Fits(a) /\ operation[a] \in OperationType
      /\ UNCHANGED <<walletVars, sent, inFlight, receipts, external>>
  BY DEF AdjustmentInv, TypeOK, ReviewAudit
<1>2. operation[a].status = "pending" /\ operation[a].phase = "manual_review_audit"
  BY <1>1 DEF ReviewAudit, Runs, Fits, HandlerFits
<1>3. CASE audit' = [audit EXCEPT ![a] = "manual_review"] /\ Save(a, op, "idle")
  <2>1. op \in OperationType /\ "idle" \in Step
    BY <1>1 DEF OperationType, Status, Phase, Step
  <2>2. operation'[a] = op /\ handler'.pc \in {"idle"} => Fits(a)'
    BY <1>1, <1>2
    DEF OperationType, Fits, StatusFits, HandlerFits, SendsFit, ProofFits, LegacyFits, Stopped,
        Holds, walletVars
  <2>3. QED
    BY <1>1, <1>2, <1>3, <2>1, <2>2, AuditedStep
<1>4. CASE Fault /\ Release /\ UNCHANGED <<operation, audit>>
  BY <1>1, <1>4, ReleaseStep, FaultTyped
<1>5. QED
  BY <1>3, <1>4 DEF ReviewAudit

LEMMA CompleteHolds ==
  ASSUME AdjustmentInv, NEW a \in Adjustment, Complete(a)
  PROVE  AdjustmentInv'
BY ReleaseStep DEF Complete, AdjustmentInv, TypeOK
-----------------------------------------------------------------------------
(* Recoveries.                                                             *)

LEMMA RecoverHolds ==
  ASSUME AdjustmentInv, NEW a \in Adjustment, NEW e \in Evidence, Recover(a, e)
  PROVE  AdjustmentInv'
<1> DEFINE op == [operation[a] EXCEPT !.recovery = e]
<1>1. /\ Fits(a) /\ operation[a] \in OperationType /\ e # NoEvidence
      /\ UNCHANGED <<walletVars, sent, inFlight, receipts, audit, external>>
  BY DEF AdjustmentInv, TypeOK, Recover
<1>2. CASE operation[a].status = "manual_review" /\ Save(a, op, "bound")
  <2>1. op \in OperationType /\ "bound" \in Step
    BY <1>1 DEF OperationType, Step
  <2>2. operation'[a] = op /\ handler'.pc \in {"bound", "idle"} => Fits(a)'
    BY <1>1, <1>2
    DEF OperationType, Fits, StatusFits, HandlerFits, SendsFit, ProofFits, LegacyFits, Stopped,
        Holds, walletVars
  <2>3. QED
    BY <1>1, <1>2, <2>1, <2>2, SaveStep
<1>3. CASE /\ operation[a].status = "manual_review" /\ operation[a].recovery = e
           /\ Sound /\ At(a, "bound") /\ UNCHANGED operation
  <2>1. handler' \in HandlerType /\ handler'.pc = "bound" /\ handler'.adjustment = a
    BY <1>3 DEF At, HandlerType, Step
  <2>2. HandlerFits(a)' /\ ~ Holds(a, "call")' /\ ~ Holds(a, "balance")'
    BY <1>1, <1>3, <2>1 DEF HandlerFits, Holds
  <2>3. QED
    BY <1>1, <1>3, <2>1, <2>2, HandlerStep DEF Sound, AdjustmentInv, TypeOK
<1>4. CASE /\ operation[a].status = "pending" /\ Sound /\ At(a, "run") /\ UNCHANGED operation
  <2>1. handler' \in HandlerType /\ handler'.pc = "run" /\ handler'.adjustment = a
    BY <1>4 DEF At, HandlerType, Step
  <2>2. HandlerFits(a)' /\ ~ Holds(a, "call")' /\ ~ Holds(a, "balance")'
    BY <1>4, <2>1 DEF HandlerFits, Holds
  <2>3. QED
    BY <1>1, <1>4, <2>1, <2>2, HandlerStep DEF Sound, AdjustmentInv, TypeOK
<1>5. QED
  BY <1>2, <1>3, <1>4 DEF Recover

LEMMA BoundHolds ==
  ASSUME AdjustmentInv, NEW a \in Adjustment, Bound(a)
  PROVE  AdjustmentInv'
<1>1. /\ Fits(a) /\ Holds(a, "bound")
      /\ UNCHANGED <<operation, walletVars, sent, inFlight, receipts, audit, faults, external>>
  BY DEF AdjustmentInv, Bound
<1>2. CASE Stopped(operation[a])
  BY <1>1, <1>2, ReleaseStep DEF Bound, AdjustmentInv, TypeOK
<1>3. CASE ~ Stopped(operation[a])
  <2>1. handler' \in HandlerType /\ handler'.pc = "history" /\ handler'.adjustment = a
    BY <1>3 DEF Bound, At, HandlerType, Step
  <2>2. HandlerFits(a)' /\ ~ Holds(a, "call")' /\ ~ Holds(a, "balance")'
    BY <1>1, <1>3, <2>1 DEF Fits, HandlerFits, Holds
  <2>3. QED
    BY <1>1, <2>1, <2>2, HandlerStep DEF AdjustmentInv, TypeOK
<1>4. QED
  BY <1>2, <1>3

(* A recovery that ends leaves the adjustment in manual review.            *)
LEMMA StopStep ==
  ASSUME AdjustmentInv, NEW a \in Adjustment, NEW error \in Error,
         operation[a].status = "manual_review",
         Save(a, [operation[a] EXCEPT !.error = error], "idle"),
         UNCHANGED <<walletVars, sent, inFlight, receipts, audit, external>>
  PROVE  AdjustmentInv'
<1> DEFINE op == [operation[a] EXCEPT !.error = error]
<1>1. Fits(a) /\ operation[a] \in OperationType
  BY DEF AdjustmentInv, TypeOK
<1>2. op \in OperationType /\ "idle" \in Step
  BY <1>1 DEF OperationType, Step
<1>3. operation'[a] = op /\ handler'.pc \in {"idle"} => Fits(a)'
  BY <1>1
  DEF OperationType, Fits, StatusFits, HandlerFits, SendsFit, ProofFits, LegacyFits, Stopped, Holds,
      walletVars
<1>4. QED
  BY <1>2, <1>3, SaveStep

LEMMA UnreadableStep ==
  ASSUME AdjustmentInv, NEW a \in Adjustment, operation[a].status = "manual_review",
         Fault, Release, operation' = [operation EXCEPT ![a].error = "readback_unavailable"],
         UNCHANGED <<walletVars, sent, inFlight, receipts, audit, external>>
  PROVE  AdjustmentInv'
<1>1. "readback_unavailable" \in Error
  BY DEF Error
<1>2. Save(a, [operation[a] EXCEPT !.error = "readback_unavailable"], "idle")
  BY DEF Save
<1>3. QED
  BY <1>1, <1>2, StopStep

LEMMA RecoveryHistoryHolds ==
  ASSUME AdjustmentInv, NEW a \in Adjustment, RecoveryHistory(a)
  PROVE  AdjustmentInv'
<1>1. /\ Fits(a) /\ operation[a] \in OperationType /\ Holds(a, "history")
      /\ used[a] \in SUBSET {"legacy", "v2"}
      /\ UNCHANGED <<walletVars, sent, inFlight, receipts, audit, external>>
      /\ {"history_conflict", "exhausted", "readback_unavailable"} \subseteq Error
  BY DEF AdjustmentInv, TypeOK, RecoveryHistory, Error
<1>2. /\ operation[a].status = "manual_review" /\ operation[a].recovery # NoEvidence
      /\ operation[a].phase = "authoritative_readback" /\ ~ Stopped(operation[a])
  BY <1>1 DEF Fits, HandlerFits, StatusFits
<1>3. ASSUME NEW error \in {"history_conflict", "exhausted"},
             Save(a, [operation[a] EXCEPT !.error = error], "idle")
      PROVE  AdjustmentInv'
  BY <1>1, <1>2, <1>3, StopStep
<1>4. ASSUME NEW code \in Entries(a), Save(a, Confirmed(operation[a], code), "run")
      PROVE  AdjustmentInv'
  <2>1. Confirmed(operation[a], code) \in OperationType /\ "run" \in Step
    <3>1. PICK old \in OperationType : old = operation[a]
      BY <1>1
    <3>2. PICK identity \in Identity :
            identity = IF code = "legacy" THEN "legacy_history_confirmed"
                       ELSE IF old.identity = "legacy" THEN "v2_history_confirmed"
                       ELSE old.identity
      BY <3>1 DEF OperationType, Identity
    <3>3. "pending" \in Status /\ "after_balance" \in Phase /\ "none" \in Error /\ "run" \in Step
      BY DEF Status, Phase, Error, Step
    <3>4. Confirmed(operation[a], code) =
            [old EXCEPT !.status = "pending", !.phase = "after_balance", !.proof = TRUE,
                        !.error = "none", !.identity = identity]
      BY <3>1, <3>2 DEF Confirmed
    <3>5. QED
      BY <3>3, <3>4 DEF OperationType
  <2>2. used[a] # {}
    BY DEF Entries
  <2>3. operation'[a] = Confirmed(operation[a], code) /\ handler'.pc \in {"run", "idle"}
          => Fits(a)'
    <3> DEFINE op == Confirmed(operation[a], code)
    <3>1. PICK old \in OperationType : old = operation[a]
      BY <1>1
    <3>2. /\ op.status = "pending" /\ op.phase = "after_balance" /\ op.before = old.before
          /\ op.proof /\ op.error = "none" /\ op.recovery = old.recovery
          /\ op.recoveryAttempted = old.recoveryAttempted
      BY <3>1 DEF Confirmed, OperationType
    <3> HIDE DEF op
    <3>3. SUFFICES ASSUME operation'[a] = op, handler'.pc \in {"run", "idle"} PROVE Fits(a)'
      BY DEF op
    <3>8. StatusFits(a) /\ HandlerFits(a) /\ SendsFit(a) /\ ProofFits(a) /\ LegacyFits(a)
      BY <1>1 DEF Fits
    <3>4. StatusFits(a)' /\ HandlerFits(a)'
      BY <1>1, <1>2, <2>2, <3>1, <3>2, <3>3, <3>8 DEF StatusFits, HandlerFits, Stopped, Holds
    <3>5. SendsFit(a)'
      BY <1>1, <1>2, <2>2, <3>1, <3>2, <3>3, <3>8 DEF SendsFit, Holds, walletVars
    <3>6. ProofFits(a)' /\ LegacyFits(a)'
      BY <1>1, <1>2, <2>2, <3>1, <3>2, <3>3, <3>8 DEF ProofFits, LegacyFits, Holds, walletVars
    <3>7. QED
      BY <3>4, <3>5, <3>6 DEF Fits
  <2>4. QED
    BY <1>1, <1>4, <2>1, <2>3, SaveStep
<1>5. CASE /\ Entries(a) = {} /\ Eligible(operation[a])
           /\ Sound /\ At(a, "balance") /\ UNCHANGED operation
  <2>1. handler' \in HandlerType /\ handler'.pc = "balance" /\ handler'.adjustment = a
    BY <1>5 DEF At, HandlerType, Step
  <2>2. HandlerFits(a)' /\ ~ Holds(a, "call")'
    BY <1>2, <1>5, <2>1 DEF HandlerFits, Holds
  <2>3. QED
    BY <1>1, <1>5, <2>1, <2>2, HandlerStep DEF Sound, AdjustmentInv, TypeOK
<1>6. CASE /\ Fault /\ Release
           /\ operation' = [operation EXCEPT ![a].error = "readback_unavailable"]
  BY <1>1, <1>2, <1>6, UnreadableStep
<1>7. QED
  BY <1>3, <1>4, <1>5, <1>6 DEF RecoveryHistory

LEMMA RecoveryBalanceHolds ==
  ASSUME AdjustmentInv, NEW a \in Adjustment, RecoveryBalance(a)
  PROVE  AdjustmentInv'
<1> DEFINE op == Authorized(operation[a])
<1>1. /\ Fits(a) /\ operation[a] \in OperationType /\ Holds(a, "balance")
      /\ UNCHANGED <<walletVars, sent, inFlight, receipts, audit, external>>
      /\ "balance_changed" \in Error
  BY DEF AdjustmentInv, TypeOK, RecoveryBalance, Error
<1>2. /\ operation[a].status = "manual_review" /\ operation[a].recovery # NoEvidence
      /\ ~ operation[a].recoveryAttempted /\ "legacy" \notin used[a]
      /\ sent[a] \in Nat /\ sent[a] <= 1
  BY <1>1 DEF Fits, HandlerFits, SendsFit, LegacyFits, AdjustmentInv, TypeOK
<1>3. CASE Save(a, op, "run")
  <2>1. op \in OperationType /\ "run" \in Step
    <3>1. PICK old \in OperationType : old = operation[a]
      BY <1>1
    <3>2. PICK identity \in Identity :
            identity = IF old.identity = "legacy" THEN "v2_adopted" ELSE old.identity
      BY <3>1 DEF OperationType, Identity
    <3>3. "pending" \in Status /\ "adjustment" \in Phase /\ "none" \in Error /\ "run" \in Step
      BY DEF Status, Phase, Error, Step
    <3>4. op = [old EXCEPT !.status = "pending", !.phase = "adjustment", !.error = "none",
                           !.recoveryAttempted = TRUE, !.attempted = FALSE,
                           !.identity = identity]
      BY <3>1, <3>2 DEF Authorized
    <3> HIDE DEF op
    <3>5. QED
      BY <3>3, <3>4 DEF OperationType
  <2>2. operation'[a] = op /\ handler'.pc \in {"run", "idle"} => Fits(a)'
    <3>1. PICK old \in OperationType : old = operation[a]
      BY <1>1
    <3>2. /\ op.status = "pending" /\ op.phase = "adjustment" /\ op.before = old.before
          /\ op.proof = old.proof /\ op.error = "none" /\ op.recovery = old.recovery
          /\ op.recoveryAttempted
      BY <3>1 DEF Authorized, OperationType
    <3> HIDE DEF op
    <3>3. SUFFICES ASSUME operation'[a] = op, handler'.pc \in {"run", "idle"} PROVE Fits(a)'
      OBVIOUS
    <3>8. StatusFits(a) /\ HandlerFits(a) /\ SendsFit(a) /\ ProofFits(a) /\ LegacyFits(a)
      BY <1>1 DEF Fits
    <3>4. StatusFits(a)' /\ HandlerFits(a)'
      BY <1>1, <1>2, <3>1, <3>2, <3>3, <3>8 DEF StatusFits, HandlerFits, Stopped, Holds
    <3>5. SendsFit(a)'
      BY <1>1, <1>2, <3>1, <3>2, <3>3, <3>8 DEF SendsFit, Holds, walletVars
    <3>6. ProofFits(a)' /\ LegacyFits(a)'
      BY <1>1, <1>2, <3>1, <3>2, <3>3, <3>8 DEF ProofFits, LegacyFits, Holds, walletVars
    <3>7. QED
      BY <3>4, <3>5, <3>6 DEF Fits
  <2>3. QED
    BY <1>1, <1>3, <2>1, <2>2, SaveStep
<1>4. CASE Save(a, [operation[a] EXCEPT !.error = "balance_changed"], "idle")
  BY <1>1, <1>2, <1>4, StopStep
<1>5. CASE /\ Fault /\ Release
           /\ operation' = [operation EXCEPT ![a].error = "readback_unavailable"]
  BY <1>1, <1>2, <1>5, UnreadableStep
<1>6. QED
  BY <1>3, <1>4, <1>5 DEF RecoveryBalance
-----------------------------------------------------------------------------
(* The outside world.                                                      *)

LEMMA DeliverHolds ==
  ASSUME AdjustmentInv, NEW a \in Adjustment, Deliver(a)
  PROVE  AdjustmentInv'
<1>1. /\ a \in inFlight /\ inFlight' = inFlight \ {a}
      /\ UNCHANGED <<operation, handler, sent, receipts, audit, faults, external>>
      /\ \A b \in Adjustment : Fits(b)
  BY DEF Deliver, AdjustmentInv
<1>2. /\ balance' \in Nat /\ used' \in [Adjustment -> SUBSET {"legacy", "v2"}]
      /\ used'[a] \in {used[a], used[a] \cup {"v2"}}
      /\ \A b \in Adjustment \ {a} : used'[b] = used[b]
  BY CodeUsed DEF Deliver, AdjustmentInv, TypeOK, walletVars
<1>3. TypeOK'
  BY <1>1, <1>2 DEF AdjustmentInv, TypeOK
<1>4. Fits(a)'
  BY <1>1, <1>2
  DEF Fits, StatusFits, HandlerFits, SendsFit, ProofFits, LegacyFits, Stopped, Holds
<1>5. ASSUME NEW b \in Adjustment \ {a} PROVE Fits(b)'
  BY <1>1, <1>2
  DEF Fits, StatusFits, HandlerFits, SendsFit, ProofFits, LegacyFits, Stopped, Holds
<1>6. QED
  BY <1>3, <1>4, <1>5, FitIsEnoughNext

LEMMA WalletMovesHolds ==
  ASSUME AdjustmentInv, WalletMoves
  PROVE  AdjustmentInv'
<1>1. TypeOK'
  BY DEF WalletMoves, AdjustmentInv, TypeOK
<1>2. ASSUME NEW b \in Adjustment PROVE Fits(b)'
  BY DEF WalletMoves, AdjustmentInv, Fits, StatusFits, HandlerFits, SendsFit, ProofFits, LegacyFits,
         Stopped, Holds
<1>3. QED
  BY <1>1, <1>2, FitIsEnoughNext

LEMMA CrashHolds ==
  ASSUME AdjustmentInv, Crash
  PROVE  AdjustmentInv'
<1> PICK a \in Adjustment : a = handler.adjustment
  BY DEF AdjustmentInv, TypeOK, HandlerType
<1>1. /\ Fits(a) /\ handler \in HandlerType
      /\ faults' \in 0 .. MaxFaults
      /\ UNCHANGED <<operation, walletVars, receipts, audit, external>>
  BY FaultTyped DEF Crash, AdjustmentInv, TypeOK, HandlerType
<1>2. handler' \in HandlerType /\ handler'.pc = "idle"
  BY <1>1 DEF Crash, Release, HandlerType, Step
<1>3. CASE UNCHANGED <<sent, inFlight>>
  BY <1>1, <1>2, <1>3, ReleaseStep DEF Crash
<1>4. CASE /\ handler.pc = "call"
           /\ sent' = [sent EXCEPT ![a] = @ + 1]
           /\ inFlight' = inFlight \cup {a}
  <2>1. /\ sent' \in [Adjustment -> Nat] /\ sent'[a] = sent[a] + 1 /\ sent[a] \in Nat
        /\ \A b \in Adjustment \ {a} : sent'[b] = sent[b]
    BY <1>1, <1>4 DEF AdjustmentInv, TypeOK
  <2>2. Holds(a, "call")
    BY <1>4 DEF Holds
  <2>3. TypeOK' /\ Only(a)
    BY <1>1, <1>2, <1>4, <2>1 DEF AdjustmentInv, TypeOK, Only, walletVars
  <2>4. Fits(a)'
    BY <1>1, <1>2, <1>4, <2>1, <2>2
    DEF Fits, StatusFits, HandlerFits, SendsFit, ProofFits, LegacyFits, Stopped, Holds, walletVars
  <2>5. QED
    BY <1>1, <2>3, <2>4, RequestStep
<1>5. QED
  BY <1>3, <1>4 DEF Crash

LEMMA NextHolds == AdjustmentInv /\ [Next]_vars => AdjustmentInv'
<1> SUFFICES ASSUME AdjustmentInv, [Next]_vars PROVE AdjustmentInv'
  OBVIOUS
<1>1. ASSUME NEW a \in Adjustment, Create(a) \/ Replay(a) \/ Run(a) \/ Deliver(a)
      PROVE  AdjustmentInv'
  BY <1>1, CreateHolds, ReplayHolds, DeliverHolds, BeforeBalanceHolds, AttemptHolds, CallHolds,
     AuthoritativeReadbackHolds, AfterBalanceHolds, ReceiptHolds, AuditHolds, ReviewAuditHolds,
     CompleteHolds, BoundHolds, RecoveryHistoryHolds, RecoveryBalanceHolds
  DEF Run
<1>2. ASSUME NEW a \in Adjustment, NEW e \in Evidence, Recover(a, e)
      PROVE  AdjustmentInv'
  BY <1>2, RecoverHolds
<1>3. CASE WalletMoves
  BY <1>3, WalletMovesHolds
<1>4. CASE Crash
  BY <1>4, CrashHolds
<1>5. CASE UNCHANGED vars
  <2>1. TypeOK'
    BY <1>5 DEF vars, walletVars, AdjustmentInv, TypeOK
  <2>2. ASSUME NEW b \in Adjustment PROVE Fits(b)'
    BY <1>5
    DEF vars, walletVars, AdjustmentInv, Fits, StatusFits, HandlerFits, SendsFit, ProofFits,
        LegacyFits, Stopped, Holds
  <2>3. QED
    BY <2>1, <2>2, FitIsEnoughNext
<1>6. QED
  BY <1>1, <1>2, <1>3, <1>4, <1>5 DEF Next
-----------------------------------------------------------------------------
(* The theorems.                                                           *)

\* Whatever is lost, replayed, recovered or delivered late, the money of an
\* adjustment moves at most once, a settled one has its proof, its receipt and
\* its audit event, a refused debit is never sent later, and a code is sent
\* again only on a recovery: AdjustmentInv, of wallet_adjustment.go.
THEOREM AdjustmentsAreOrderly == Spec => []AdjustmentInv
<1>1. Init => AdjustmentInv
  BY InitHolds
<1>2. AdjustmentInv /\ [Next]_vars => AdjustmentInv'
  BY NextHolds
<1>3. QED
  BY <1>1, <1>2, PTL DEF Spec

(* An adjustment the evidence speaks against waits in manual review, where *)
(* no request of the others can reach it.                                  *)
LEMMA ContradictedWaits ==
  ASSUME AdjustmentInv, NEW a \in Adjustment, Contradicted(a)
  PROVE  /\ operation[a].status = "manual_review" /\ operation[a].phase = "authoritative_readback"
         /\ \A pc \in Step \ {"idle", "bound"} : ~ Holds(a, pc)
<1>1. Fits(a) /\ Stopped(operation[a])
  BY DEF AdjustmentInv, Contradicted, Stopped
<1>2. operation[a].status = "manual_review" /\ operation[a].phase = "authoritative_readback"
  BY <1>1 DEF Fits, StatusFits
<1>3. QED
  BY <1>1, <1>2 DEF Fits, HandlerFits, Step

(* What a step leaves alone when an adjustment waits for good.             *)
LEMMA SaveLeaves ==
  ASSUME AdjustmentInv, NEW a \in Adjustment, NEW b \in Adjustment, NEW op, NEW pc,
         Save(b, op, pc), b # a \/ op.error = operation[a].error
  PROVE  operation'[a].error = operation[a].error
BY DEF Save, AdjustmentInv, TypeOK

LEMMA RunLeavesWaiting ==
  ASSUME AdjustmentInv, NEW a \in Adjustment, Contradicted(a), NEW b \in Adjustment, Run(b)
  PROVE  sent'[a] = sent[a] /\ operation'[a].error = operation[a].error
<1>1. operation[a].status = "manual_review"
      /\ operation[a].phase = "authoritative_readback"
      /\ \A pc \in Step \ {"idle", "bound"} : ~ Holds(a, pc)
  BY ContradictedWaits
<1>2. operation \in [Adjustment -> OperationType] /\ sent \in [Adjustment -> Nat]
  BY DEF AdjustmentInv, TypeOK
<1>3. CASE b # a
  <2>1. operation'[a] = operation[a]
    BY <1>2, <1>3
    DEF Run, BeforeBalance, Attempt, Call, AuthoritativeReadback, AfterBalance, Receipt, Audit,
        ReviewAudit, Complete, Bound, RecoveryHistory, RecoveryBalance, ToReview, Save
  <2>2. sent'[a] = sent[a]
    BY <1>2, <1>3
    DEF Run, BeforeBalance, Attempt, Call, AuthoritativeReadback, AfterBalance, Receipt, Audit,
        ReviewAudit, Complete, Bound, RecoveryHistory, RecoveryBalance
  <2>3. QED
    BY <2>1, <2>2
<1>4. CASE b = a
  <2>1. ~ Holds(a, "run") /\ ~ Holds(a, "call") /\ ~ Holds(a, "review")
        /\ ~ Holds(a, "history") /\ ~ Holds(a, "balance")
    BY <1>1 DEF Step
  <2>2. Bound(a)
    BY <1>4, <2>1
    DEF Run, BeforeBalance, Attempt, Call, AuthoritativeReadback, AfterBalance, Receipt, Audit,
        ReviewAudit, Complete, RecoveryHistory, RecoveryBalance, Runs
  <2>3. QED
    BY <2>2 DEF Bound
<1>5. QED
  BY <1>3, <1>4

LEMMA ContradictedStays ==
  ASSUME AdjustmentInv, [Next]_vars, NEW a \in Adjustment, Contradicted(a)
  PROVE  sent'[a] = sent[a] /\ operation'[a].error = operation[a].error
<1>1. /\ operation[a].status = "manual_review"
      /\ \A pc \in Step \ {"idle", "bound"} : ~ Holds(a, pc)
      /\ operation \in [Adjustment -> OperationType] /\ operation[a] \in OperationType
      /\ sent \in [Adjustment -> Nat] /\ handler \in HandlerType
  BY ContradictedWaits DEF AdjustmentInv, TypeOK
<1>2. ASSUME NEW b \in Adjustment, Create(b)
      PROVE  sent'[a] = sent[a] /\ operation'[a].error = operation[a].error
  <2>1. b # a
    BY <1>1, <1>2 DEF Create
  <2>2. QED
    BY <1>2, <2>1, SaveLeaves DEF Create
<1>3. ASSUME NEW b \in Adjustment, Replay(b) \/ Deliver(b)
      PROVE  sent'[a] = sent[a] /\ operation'[a].error = operation[a].error
  BY <1>3 DEF Replay, Deliver
<1>4. ASSUME NEW b \in Adjustment, Run(b)
      PROVE  sent'[a] = sent[a] /\ operation'[a].error = operation[a].error
  BY <1>4, RunLeavesWaiting
<1>5. ASSUME NEW b \in Adjustment, NEW e \in Evidence, Recover(b, e)
      PROVE  sent'[a] = sent[a] /\ operation'[a].error = operation[a].error
  <2>1. CASE UNCHANGED operation
    BY <1>5, <2>1 DEF Recover
  <2>2. CASE Save(b, [operation[b] EXCEPT !.recovery = e], "bound")
    <3>1. b = a => [operation[b] EXCEPT !.recovery = e].error = operation[a].error
      BY <1>1 DEF OperationType
    <3>2. QED
      BY <1>5, <2>2, <3>1, SaveLeaves DEF Recover
  <2>3. QED
    BY <1>5, <2>1, <2>2 DEF Recover
<1>6. CASE WalletMoves
  BY <1>6 DEF WalletMoves
<1>7. CASE Crash
  <2>1. handler.pc = "call" => handler.adjustment # a
    BY <1>1 DEF Holds, Step
  <2>2. QED
    BY <1>1, <1>7, <2>1 DEF Crash
<1>8. CASE UNCHANGED vars
  BY <1>8 DEF vars
<1>9. QED
  BY <1>2, <1>3, <1>4, <1>5, <1>6, <1>7, <1>8 DEF Next

\* Once the history or the balance contradicts an adjustment, no request of it
\* is sent again and its error stays, whoever asks: StoppedForGood, of
\* recoverWalletAdjustment.
THEOREM ContradictionIsFinal == Spec => StoppedForGood
<1>1. AdjustmentInv /\ [Next]_vars =>
        [\A a \in Adjustment : Contradicted(a) =>
           sent'[a] = sent[a] /\ operation'[a].error = operation[a].error]_vars
  BY ContradictedStays
<1>2. Spec => []AdjustmentInv
  BY AdjustmentsAreOrderly
<1>3. QED
  BY <1>1, <1>2, PTL DEF Spec, StoppedForGood
-----------------------------------------------------------------------------
(* What a step does to an adjustment's verdict and to its money.           *)

Alive == {"pending", "manual_review"}

OnlyRow(a) == \A b \in Adjustment \ {a} : operation'[b] = operation[b]

\* a's request goes on: no money moves and nothing is settled.
GoesOn(a) ==
  /\ OnlyRow(a) /\ UNCHANGED used
  /\ \/ operation'[a].status = operation[a].status
     \/ operation[a].status \in Alive /\ operation'[a].status \in Alive
Begins(a) ==
  /\ OnlyRow(a) /\ UNCHANGED used
  /\ operation[a].status = "none" /\ operation'[a].status = "pending"
  /\ Kind[a] = "business_refund" => WithinRefundLimit(a)
Settles(a) ==
  /\ OnlyRow(a) /\ UNCHANGED used
  /\ operation[a].status = "pending"
  /\ \/ operation'[a].status = "succeeded" /\ used[a] # {}
     \/ operation'[a].status = "failed" /\ used[a] = {}
MovesMoney(a) ==
  /\ UNCHANGED operation
  /\ operation[a].status \in Alive
  /\ used' = [used EXCEPT ![a] = @ \cup {"v2"}]

EffectOn(a) == GoesOn(a) \/ Begins(a) \/ Settles(a) \/ MovesMoney(a)

LEMMA SavedRow ==
  ASSUME AdjustmentInv, NEW a \in Adjustment, NEW op, NEW pc, Save(a, op, pc)
  PROVE  OnlyRow(a) /\ operation'[a] \in {operation[a], op}
<1>1. operation \in [Adjustment -> OperationType]
  BY DEF AdjustmentInv, TypeOK
<1>2. operation' = operation \/ operation' = [operation EXCEPT ![a] = op]
  BY DEF Save
<1>3. QED
  BY <1>1, <1>2 DEF OnlyRow

LEMMA SavedOn ==
  ASSUME AdjustmentInv, NEW a \in Adjustment, NEW op, NEW pc, Save(a, op, pc),
         operation[a].status \in Alive, op.status \in Alive, UNCHANGED used
  PROVE  EffectOn(a)
BY SavedRow DEF EffectOn, GoesOn

LEMMA SameRows ==
  ASSUME NEW a \in Adjustment, UNCHANGED <<operation, used>>
  PROVE  EffectOn(a)
BY DEF EffectOn, GoesOn, OnlyRow

LEMMA ReviewOn ==
  ASSUME AdjustmentInv, NEW a \in Adjustment, UNCHANGED used,
         operation[a].status \in Alive,
         \/ ToReview(a, "unconfirmed")
         \/ operation' = [operation EXCEPT ![a] = InReview(@, "unconfirmed")]
  PROVE  EffectOn(a)
<1>1. operation \in [Adjustment -> OperationType] /\ operation[a] \in OperationType
  BY DEF AdjustmentInv, TypeOK
<1>2. InReview(operation[a], "unconfirmed").status = "pending"
  BY <1>1 DEF InReview, OperationType
<1>3. CASE ToReview(a, "unconfirmed")
  BY <1>2, <1>3, SavedOn DEF ToReview, Alive
<1>4. CASE operation' = [operation EXCEPT ![a] = InReview(@, "unconfirmed")]
  <2>1. operation'[a] = InReview(operation[a], "unconfirmed") /\ OnlyRow(a)
    BY <1>1, <1>4 DEF OnlyRow
  <2>2. QED
    BY <1>2, <2>1 DEF EffectOn, GoesOn, Alive
<1>5. QED
  BY <1>3, <1>4

LEMMA CodeMoves ==
  ASSUME NEW a \in Adjustment, UseCode(a), UNCHANGED operation,
         operation[a].status \in Alive
  PROVE  EffectOn(a)
<1>1. CASE UNCHANGED used
  BY <1>1, SameRows
<1>2. CASE used' = [used EXCEPT ![a] = @ \cup {"v2"}]
  BY <1>2 DEF EffectOn, MovesMoney
<1>3. QED
  BY <1>1, <1>2 DEF UseCode, walletVars

LEMMA CreateEffect ==
  ASSUME AdjustmentInv, NEW a \in Adjustment, Create(a)
  PROVE  EffectOn(a)
<1> DEFINE op == [Blank EXCEPT !.status = "pending", !.phase = "before_balance"]
<1>1. op.status = "pending"
  BY DEF Blank
<1>2. Save(a, op, "run") /\ UNCHANGED used
  BY DEF Create, walletVars
<1>. HIDE DEF op
<1>3. OnlyRow(a) /\ operation'[a] \in {operation[a], op}
  BY <1>2, SavedRow
<1>4. QED
  BY <1>1, <1>2, <1>3 DEF Create, EffectOn, GoesOn, Begins

LEMMA BeforeBalanceEffect ==
  ASSUME AdjustmentInv, NEW a \in Adjustment, BeforeBalance(a)
  PROVE  EffectOn(a)
<1> DEFINE read == [operation[a] EXCEPT !.before = balance]
           ready == [read EXCEPT !.phase = "adjustment"]
<1>1. /\ Fits(a) /\ operation[a] \in OperationType
      /\ operation[a].phase = "before_balance" /\ Holds(a, "run")
      /\ UNCHANGED used
  BY DEF AdjustmentInv, TypeOK, BeforeBalance, Runs, walletVars
<1>2. operation[a].status = "pending" /\ used[a] = {}
  BY <1>1 DEF Fits, HandlerFits, SendsFit
<1>3. ready.status = "pending" /\ Rejected(read).status = "failed"
  BY <1>1, <1>2 DEF Rejected, OperationType
<1>4. CASE UNCHANGED operation
  BY <1>1, <1>4, SameRows
<1>5. CASE Save(a, Rejected(read), "idle")
  <2>1. OnlyRow(a) /\ operation'[a] \in {operation[a], Rejected(read)}
    BY <1>5, SavedRow
  <2>. HIDE DEF read
  <2>2. QED
    BY <1>1, <1>2, <1>3, <2>1 DEF EffectOn, GoesOn, Settles
<1>6. CASE Save(a, ready, "run")
  <2>. HIDE DEF ready
  <2>. QED
    BY <1>1, <1>2, <1>3, <1>6, SavedOn DEF Alive
<1>7. QED
  BY <1>4, <1>5, <1>6 DEF BeforeBalance

LEMMA CallEffect ==
  ASSUME AdjustmentInv, NEW a \in Adjustment, Call(a)
  PROVE  EffectOn(a)
<1>1. Fits(a) /\ Holds(a, "call")
  BY DEF AdjustmentInv, Call
<1>2. operation[a].status \in Alive
  BY <1>1 DEF Fits, HandlerFits, Alive
<1>3. CASE UseCode(a) /\ UNCHANGED operation
  BY <1>2, <1>3, CodeMoves
<1>4. CASE UNCHANGED <<operation, walletVars>>
  BY <1>4, SameRows DEF walletVars
<1>5. CASE ToReview(a, "unconfirmed") /\ UNCHANGED walletVars
  BY <1>2, <1>5, ReviewOn DEF walletVars
<1>6. CASE /\ UNCHANGED walletVars
           /\ operation' = [operation EXCEPT ![a] = InReview(@, "unconfirmed")]
  BY <1>2, <1>6, ReviewOn DEF walletVars
<1>7. QED
  BY <1>3, <1>4, <1>5, <1>6 DEF Call

\* The phases that save a row still open, and those that save nothing.
LEMMA PhaseEffect ==
  ASSUME AdjustmentInv, NEW a \in Adjustment,
         \/ Attempt(a) \/ AuthoritativeReadback(a) \/ AfterBalance(a) \/ Receipt(a)
         \/ ReviewAudit(a) \/ Complete(a) \/ Bound(a)
  PROVE  EffectOn(a)
<1>1. Fits(a) /\ operation[a] \in OperationType /\ UNCHANGED used
  BY DEF AdjustmentInv, TypeOK, Attempt, AuthoritativeReadback, AfterBalance, Receipt, ReviewAudit,
         Complete, Bound, walletVars
<1>2. ASSUME UNCHANGED operation PROVE EffectOn(a)
  BY <1>1, <1>2, SameRows
<1>3. operation[a].status \in {"none", "succeeded", "failed"} => operation[a].phase \in {"none", "complete"}
  BY <1>1 DEF Fits, StatusFits
<1>4. operation[a].status \in Alive \/ operation[a].phase \in {"none", "complete"}
  BY <1>1, <1>3 DEF OperationType, Status, Alive
<1>5. CASE Attempt(a)
  <2> DEFINE op == [operation[a] EXCEPT !.attempted = TRUE, !.phase = "authoritative_readback"]
  <2>1. op.status = operation[a].status /\ operation[a].status \in Alive
    BY <1>1, <1>4, <1>5 DEF Attempt, Runs, OperationType
  <2>2. Save(a, op, "call")
    BY <1>5 DEF Attempt
  <2>. HIDE DEF op
  <2>3. QED
    BY <1>1, <2>1, <2>2, SavedOn
<1>6. CASE AuthoritativeReadback(a)
  <2> DEFINE op == [operation[a] EXCEPT !.proof = TRUE, !.phase = "after_balance"]
  <2>1. op.status = operation[a].status /\ operation[a].status \in Alive
    BY <1>1, <1>4, <1>6 DEF AuthoritativeReadback, Runs, OperationType
  <2>2. \/ Save(a, op, "run")
        \/ ToReview(a, "unconfirmed")
        \/ operation' = [operation EXCEPT ![a] = InReview(@, "unconfirmed")]
    BY <1>6 DEF AuthoritativeReadback
  <2>. HIDE DEF op
  <2>3. QED
    BY <1>1, <2>1, <2>2, SavedOn, ReviewOn
<1>7. CASE AfterBalance(a)
  <2> DEFINE op == [operation[a] EXCEPT !.phase = "ledger"]
  <2>1. op.status = operation[a].status /\ operation[a].status \in Alive
    BY <1>1, <1>4, <1>7 DEF AfterBalance, Runs, OperationType
  <2>2. \/ Save(a, op, "run")
        \/ ToReview(a, "unconfirmed")
        \/ operation' = [operation EXCEPT ![a] = InReview(@, "unconfirmed")]
    BY <1>7 DEF AfterBalance
  <2>. HIDE DEF op
  <2>3. QED
    BY <1>1, <2>1, <2>2, SavedOn, ReviewOn
<1>8. CASE Receipt(a)
  <2> DEFINE op == [operation[a] EXCEPT !.receipt = TRUE, !.phase = "audit"]
  <2>1. op.status = operation[a].status /\ operation[a].status \in Alive
    BY <1>1, <1>4, <1>8 DEF Receipt, Runs, OperationType
  <2>2. Save(a, op, "run") \/ UNCHANGED operation
    BY <1>8 DEF Receipt
  <2>. HIDE DEF op
  <2>3. QED
    BY <1>1, <1>2, <2>1, <2>2, SavedOn
<1>9. CASE ReviewAudit(a)
  <2> DEFINE op == [operation[a] EXCEPT !.status = "manual_review",
                                        !.phase = "authoritative_readback"]
  <2>1. op.status \in Alive
    BY <1>1 DEF OperationType, Alive
  <2>2. operation[a].status \in Alive
    BY <1>1, <1>4, <1>9 DEF ReviewAudit, Runs, Fits, HandlerFits, Alive
  <2>3. Save(a, op, "idle") \/ UNCHANGED operation
    BY <1>9 DEF ReviewAudit
  <2>. HIDE DEF op
  <2>4. QED
    BY <1>1, <1>2, <2>1, <2>2, <2>3, SavedOn
<1>10. CASE Complete(a) \/ Bound(a)
  BY <1>2, <1>10 DEF Complete, Bound
<1>11. QED
  BY <1>5, <1>6, <1>7, <1>8, <1>9, <1>10

LEMMA AuditEffect ==
  ASSUME AdjustmentInv, NEW a \in Adjustment, Audit(a)
  PROVE  EffectOn(a)
<1> DEFINE op == [operation[a] EXCEPT !.status = "succeeded", !.phase = "complete",
                                      !.error = "none"]
<1>1. /\ Fits(a) /\ operation[a] \in OperationType /\ UNCHANGED used
      /\ Holds(a, "run") /\ operation[a].phase = "audit"
  BY DEF AdjustmentInv, TypeOK, Audit, Runs, walletVars
<1>2. operation[a].status = "pending" /\ used[a] # {}
  BY <1>1 DEF Fits, HandlerFits, ProofFits
<1>3. op.status = "succeeded"
  BY <1>1 DEF OperationType
<1>4. UNCHANGED operation \/ Save(a, op, "run")
  BY DEF Audit
<1>. HIDE DEF op
<1>5. CASE UNCHANGED operation
  BY <1>1, <1>5, SameRows
<1>6. CASE Save(a, op, "run")
  <2>1. OnlyRow(a) /\ operation'[a] \in {operation[a], op}
    BY <1>6, SavedRow
  <2>2. QED
    BY <1>1, <1>2, <1>3, <2>1 DEF EffectOn, GoesOn, Settles
<1>7. QED
  BY <1>4, <1>5, <1>6

\* A recovery's row is open before and after.
LEMMA ErrorOn ==
  ASSUME AdjustmentInv, NEW a \in Adjustment, NEW error, UNCHANGED used,
         operation[a].status \in Alive,
         \/ Save(a, [operation[a] EXCEPT !.error = error], "idle")
         \/ operation' = [operation EXCEPT ![a].error = error]
  PROVE  EffectOn(a)
<1> DEFINE op == [operation[a] EXCEPT !.error = error]
<1>1. operation \in [Adjustment -> OperationType] /\ operation[a] \in OperationType
  BY DEF AdjustmentInv, TypeOK
<1>2. op.status = operation[a].status
  BY <1>1 DEF OperationType
<1>3. Save(a, op, "idle") \/ operation' = [operation EXCEPT ![a] = op]
  OBVIOUS
<1>. HIDE DEF op
<1>4. CASE Save(a, op, "idle")
  BY <1>2, <1>4, SavedOn
<1>5. CASE operation' = [operation EXCEPT ![a] = op]
  BY <1>1, <1>2, <1>5 DEF EffectOn, GoesOn, OnlyRow
<1>6. QED
  BY <1>3, <1>4, <1>5

LEMMA RecoveryEffect ==
  ASSUME AdjustmentInv, NEW a \in Adjustment, RecoveryHistory(a) \/ RecoveryBalance(a)
  PROVE  EffectOn(a)
<1>1. /\ Fits(a) /\ operation[a] \in OperationType /\ UNCHANGED used
      /\ Holds(a, "history") \/ Holds(a, "balance")
  BY DEF AdjustmentInv, TypeOK, RecoveryHistory, RecoveryBalance, walletVars
<1>2. operation[a].status \in Alive
  BY <1>1 DEF Fits, HandlerFits, Alive
<1>3. CASE \E error \in Error :
             \/ Save(a, [operation[a] EXCEPT !.error = error], "idle")
             \/ operation' = [operation EXCEPT ![a].error = error]
  BY <1>1, <1>2, <1>3, ErrorOn
<1>4. CASE UNCHANGED operation
  BY <1>1, <1>4, SameRows
<1>5. ASSUME NEW code, Save(a, Confirmed(operation[a], code), "run") PROVE EffectOn(a)
  <2>1. Confirmed(operation[a], code).status = "pending"
    BY <1>1 DEF Confirmed, OperationType
  <2>2. QED
    BY <1>1, <1>2, <1>5, <2>1, SavedOn DEF Alive
<1>6. CASE Save(a, Authorized(operation[a]), "run")
  <2>1. Authorized(operation[a]).status = "pending"
    BY <1>1 DEF Authorized, OperationType
  <2>2. QED
    BY <1>1, <1>2, <1>6, <2>1, SavedOn DEF Alive
<1>7. {"history_conflict", "exhausted", "readback_unavailable", "balance_changed"} \subseteq Error
  BY DEF Error
<1>8. CASE RecoveryHistory(a)
  BY <1>3, <1>4, <1>5, <1>7, <1>8 DEF RecoveryHistory
<1>9. CASE RecoveryBalance(a)
  BY <1>3, <1>4, <1>6, <1>7, <1>9 DEF RecoveryBalance
<1>10. QED
  BY <1>8, <1>9

LEMMA RecoverEffect ==
  ASSUME AdjustmentInv, NEW a \in Adjustment, NEW e \in Evidence, Recover(a, e)
  PROVE  EffectOn(a)
<1> DEFINE op == [operation[a] EXCEPT !.recovery = e]
<1>1. operation[a] \in OperationType /\ UNCHANGED used
  BY DEF AdjustmentInv, TypeOK, Recover, walletVars
<1>2. op.status = operation[a].status
  BY <1>1 DEF OperationType
<1>3. UNCHANGED operation \/ (operation[a].status = "manual_review" /\ Save(a, op, "bound"))
  BY DEF Recover
<1>. HIDE DEF op
<1>4. CASE UNCHANGED operation
  BY <1>1, <1>4, SameRows
<1>5. CASE operation[a].status = "manual_review" /\ Save(a, op, "bound")
  BY <1>1, <1>2, <1>5, SavedOn DEF Alive
<1>6. QED
  BY <1>3, <1>4, <1>5

\* A late request finds its adjustment open, or takes no effect.
LEMMA DeliverEffect ==
  ASSUME AdjustmentInv, NEW a \in Adjustment, Deliver(a)
  PROVE  EffectOn(a)
<1>1. Fits(a) /\ operation[a] \in OperationType /\ used[a] \in SUBSET {"legacy", "v2"}
      /\ a \in inFlight /\ UNCHANGED operation
  BY DEF AdjustmentInv, TypeOK, Deliver
<1>2. operation[a].status \notin {"none", "failed"}
  BY <1>1 DEF Fits, StatusFits, SendsFit
<1>3. CASE operation[a].status \in Alive /\ UseCode(a)
  BY <1>1, <1>3, CodeMoves
<1>4. CASE operation[a].status = "succeeded" /\ UseCode(a)
  <2>1. used[a] # {} /\ "legacy" \notin used[a]
    BY <1>1, <1>4 DEF Fits, ProofFits, LegacyFits, AdjustmentInv, SettledIsProven
  <2>2. "v2" \in used[a]
    BY <1>1, <2>1
  <2>3. QED
    BY <1>1, <1>4, <2>2, SameRows DEF UseCode, walletVars
<1>5. CASE UNCHANGED walletVars
  BY <1>1, <1>5, SameRows DEF walletVars
<1>6. QED
  BY <1>1, <1>2, <1>3, <1>4, <1>5 DEF Deliver, OperationType, Status, Alive

LEMMA StepEffect ==
  ASSUME AdjustmentInv, [Next]_vars
  PROVE  UNCHANGED <<operation, used>> \/ \E a \in Adjustment : EffectOn(a)
<1>1. ASSUME NEW a \in Adjustment, Create(a) \/ Replay(a) \/ Run(a) \/ Deliver(a)
      PROVE  EffectOn(a)
  <2>1. CASE Replay(a)
    BY <2>1, SameRows DEF Replay, walletVars
  <2>2. QED
    BY <1>1, <2>1, CreateEffect, DeliverEffect, BeforeBalanceEffect, CallEffect, PhaseEffect,
       AuditEffect, RecoveryEffect
    DEF Run
<1>2. ASSUME NEW a \in Adjustment, NEW e \in Evidence, Recover(a, e) PROVE EffectOn(a)
  BY <1>2, RecoverEffect
<1>3. CASE WalletMoves \/ Crash \/ UNCHANGED vars
  BY <1>3 DEF WalletMoves, Crash, vars, walletVars
<1>4. QED
  BY <1>1, <1>2, <1>3 DEF Next
-----------------------------------------------------------------------------
(* Sums of amounts.  MapThenSumSet is a recursive function on the subsets  *)
(* of its argument: that it is one, and what it returns, follows by taking *)
(* a smallest subset for which it would fail.                              *)

LEMMA SmallestSubset ==
  ASSUME NEW X, IsFiniteSet(X), NEW T, T \subseteq SUBSET X, T # {}
  PROVE  \E s \in T : \A t \in T : t \subseteq s => t = s
<1>1. IsWellFoundedOn(StrictSubsetOrdering(X), SUBSET X)
  BY FS_StrictSubsetOrderingWellFounded, FS_FiniteSubsetsOfFinite
<1>2. PICK s \in T : \A t \in T : ~ (<<t, s>> \in StrictSubsetOrdering(X))
  <2>. HIDE DEF StrictSubsetOrdering, IsWellFoundedOn
  <2>. QED
    BY <1>1, WFMin
<1>3. ASSUME NEW t \in T, t \subseteq s PROVE t = s
  BY <1>2, <1>3 DEF StrictSubsetOrdering
<1>4. QED
  BY <1>3

Chosen(s) == CHOOSE a \in s : TRUE
After(h, s) == IF s = {} THEN 0 ELSE Amount[Chosen(s)] + h[s \ {Chosen(s)}]
Adds(h, X) == h = [s \in SUBSET X |-> After(h, s)]
TheSums(X) == CHOOSE h : Adds(h, X)
Sum(S) == MapThenSumSet(LAMBDA a : Amount[a], S)

LEMMA SumIsRecursive == \A S : Sum(S) = TheSums(S)[S]
BY DEF Sum, MapThenSumSet, MapThenFoldSet, TheSums, Adds, After, Chosen

LEMMA ChosenIsIn == \A s : s # {} => Chosen(s) \in s
BY DEF Chosen

LEMMA AddsAt ==
  ASSUME NEW X, NEW h, Adds(h, X), NEW s, s \subseteq X
  PROVE  h[s] = After(h, s)
<1>1. h = [t \in SUBSET X |-> After(h, t)]
  BY DEF Adds
<1>2. QED
  BY <1>1, Zenon

\* Two solutions agree wherever both are defined.
LEMMA SolutionsAgree ==
  ASSUME NEW X, NEW Y, NEW h, NEW g, Adds(h, X), Adds(g, Y),
         NEW s, s \subseteq X, s \subseteq Y, IsFiniteSet(s)
  PROVE  h[s] = g[s]
<1> DEFINE T == {t \in SUBSET s : h[t] # g[t]}
<1>. SUFFICES ASSUME T # {} PROVE FALSE
  OBVIOUS
<1>1. PICK t \in T : \A u \in T : u \subseteq t => u = t
  <2>1. T \subseteq SUBSET s
    OBVIOUS
  <2>. HIDE DEF T
  <2>. QED
    BY <2>1, SmallestSubset
<1>2. h[t] = After(h, t) /\ g[t] = After(g, t)
  <2>1. t \subseteq X /\ t \subseteq Y
    OBVIOUS
  <2>. HIDE DEF T
  <2>. QED
    BY <2>1, AddsAt
<1>3. t # {}
  BY <1>2 DEF After
<1>4. Chosen(t) \in t
  BY <1>3, ChosenIsIn
<1>5. t \ {Chosen(t)} \notin T
  BY <1>1, <1>4
<1>6. h[t \ {Chosen(t)}] = g[t \ {Chosen(t)}]
  BY <1>5
<1>7. QED
  BY <1>2, <1>3, <1>6 DEF After

LEMMA SumsExist ==
  ASSUME NEW X, IsFiniteSet(X)
  PROVE  Adds(TheSums(X), X)
<1> DEFINE T == {s \in SUBSET X : ~ \E h : Adds(h, s)}
<1>1. SUFFICES T = {}
  <2>1. X \notin T
    BY <1>1
  <2>2. \E h : Adds(h, X)
    BY <2>1
  <2>3. QED
    BY <2>2 DEF TheSums
<1>. SUFFICES ASSUME T # {} PROVE FALSE
  OBVIOUS
<1>2. PICK s \in T : \A t \in T : t \subseteq s => t = s
  <2>1. T \subseteq SUBSET X
    OBVIOUS
  <2>. HIDE DEF T
  <2>. QED
    BY <2>1, SmallestSubset
<1>3. ASSUME NEW t, t \subseteq s, t # s PROVE Adds(TheSums(t), t)
  <2>1. t \notin T
    BY <1>2, <1>3
  <2>2. \E h : Adds(h, t)
    BY <2>1, <1>3
  <2>3. QED
    BY <2>2 DEF TheSums
<1> DEFINE Less(t) == TheSums(t \ {Chosen(t)})[t \ {Chosen(t)}]
           h == [t \in SUBSET s |-> IF t = {} THEN 0 ELSE Amount[Chosen(t)] + Less(t)]
<1>4. ASSUME NEW t \in SUBSET s, t # {} PROVE h[t \ {Chosen(t)}] = Less(t)
  <2> DEFINE u == t \ {Chosen(t)}
  <2>1. u \subseteq s /\ u # s /\ IsFiniteSet(u)
    <3>1. Chosen(t) \in t
      BY <1>4, ChosenIsIn
    <3>2. QED
      BY <3>1, FS_Subset
  <2>2. Adds(TheSums(u), u)
    BY <1>3, <2>1
  <2>3. TheSums(u)[u] = After(TheSums(u), u)
    BY <2>2, AddsAt
  <2>4. CASE u = {}
    BY <2>1, <2>3, <2>4 DEF After
  <2>5. CASE u # {}
    <3> DEFINE v == u \ {Chosen(u)}
    <3>1. v \subseteq u /\ v \subseteq s /\ v # s /\ IsFiniteSet(v)
      <4>1. Chosen(u) \in u
        BY <2>5, ChosenIsIn
      <4>2. QED
        BY <4>1, <2>1, FS_Subset
    <3>2. Adds(TheSums(v), v)
      BY <1>3, <3>1
    <3>3. TheSums(u)[v] = TheSums(v)[v]
      BY <2>2, <3>1, <3>2, SolutionsAgree
    <3>4. h[u] = Amount[Chosen(u)] + TheSums(v)[v]
      BY <2>1, <2>5
    <3>5. QED
      BY <2>3, <2>5, <3>3, <3>4 DEF After
  <2>6. QED
    BY <2>4, <2>5
<1>5. Adds(h, s)
  <2>1. h = [t \in SUBSET s |-> After(h, t)]
    BY <1>4 DEF After
  <2>2. QED
    BY <2>1 DEF Adds
<1>6. QED
  BY <1>5

LEMMA SumEmpty == Sum({}) = 0
<1>1. Adds(TheSums({}), {})
  BY SumsExist, FS_EmptySet
<1>2. TheSums({})[{}] = 0
  BY <1>1, AddsAt DEF After
<1>3. QED
  BY <1>2, SumIsRecursive

LEMMA SumStep ==
  ASSUME NEW S, IsFiniteSet(S), S # {}
  PROVE  Sum(S) = Amount[Chosen(S)] + Sum(S \ {Chosen(S)})
<1> DEFINE R == S \ {Chosen(S)}
<1>1. IsFiniteSet(R)
  BY FS_Subset
<1>2. Adds(TheSums(S), S) /\ Adds(TheSums(R), R)
  BY <1>1, SumsExist
<1>3. TheSums(S)[S] = Amount[Chosen(S)] + TheSums(S)[R]
  BY <1>2, AddsAt DEF After
<1>4. TheSums(S)[R] = TheSums(R)[R]
  BY <1>1, <1>2, SolutionsAgree
<1>5. QED
  BY <1>3, <1>4, SumIsRecursive

LEMMA SumIsNat ==
  ASSUME NEW S \in SUBSET Adjustment, IsFiniteSet(S)
  PROVE  Sum(S) \in Nat
<1> DEFINE T == {s \in SUBSET S : Sum(s) \notin Nat}
<1>. SUFFICES ASSUME T # {} PROVE FALSE
  OBVIOUS
<1>1. PICK s \in T : \A t \in T : t \subseteq s => t = s
  <2>1. T \subseteq SUBSET S
    OBVIOUS
  <2>. HIDE DEF T
  <2>. QED
    BY <2>1, SmallestSubset
<1>2. s # {}
  <2>1. Sum(s) \notin Nat
    OBVIOUS
  <2>. HIDE DEF T
  <2>. QED
    BY <2>1, SumEmpty
<1>3. Chosen(s) \in s
  BY <1>2, ChosenIsIn
<1>4. Sum(s \ {Chosen(s)}) \in Nat
  BY <1>1, <1>3
<1>5. Amount[Chosen(s)] \in Nat
  BY <1>3
<1>6. Sum(s) = Amount[Chosen(s)] + Sum(s \ {Chosen(s)})
  BY <1>2, SumStep, FS_Subset
<1>7. QED
  BY <1>1, <1>4, <1>5, <1>6

\* Whichever amount is taken out, the others remain.
LEMMA SumWithout ==
  ASSUME NEW S \in SUBSET Adjustment, IsFiniteSet(S)
  PROVE  \A a \in S : Sum(S) = Amount[a] + Sum(S \ {a})
<1> DEFINE T == {s \in SUBSET S : \E a \in s : Sum(s) # Amount[a] + Sum(s \ {a})}
<1>. SUFFICES ASSUME T # {} PROVE FALSE
  OBVIOUS
<1>1. PICK s \in T : \A t \in T : t \subseteq s => t = s
  <2>1. T \subseteq SUBSET S
    OBVIOUS
  <2>. HIDE DEF T
  <2>. QED
    BY <2>1, SmallestSubset
<1>2. PICK a \in s : Sum(s) # Amount[a] + Sum(s \ {a})
  OBVIOUS
<1>3. PICK c : c = Chosen(s)
  OBVIOUS
<1>4. c \in s /\ IsFiniteSet(s) /\ s \subseteq Adjustment
  BY <1>2, <1>3, ChosenIsIn, FS_Subset
<1>5. Sum(s) = Amount[c] + Sum(s \ {c})
  BY <1>3, <1>4, SumStep
<1>6. c # a
  BY <1>2, <1>5
<1>7. s \ {c} \notin T /\ s \ {a} \notin T
  BY <1>1, <1>2, <1>4
<1>8. Sum(s \ {c}) = Amount[a] + Sum((s \ {c}) \ {a})
  BY <1>4, <1>6, <1>7, <1>2
<1>9. Sum(s \ {a}) = Amount[c] + Sum((s \ {a}) \ {c})
  BY <1>4, <1>6, <1>7
<1>10. (s \ {a}) \ {c} = (s \ {c}) \ {a}
  OBVIOUS
<1>11. PICK rest \in SUBSET Adjustment : rest = (s \ {c}) \ {a}
  BY <1>4
<1>12. Sum(rest) \in Nat /\ Amount[a] \in Nat /\ Amount[c] \in Nat
  <2>1. IsFiniteSet(rest)
    BY <1>4, <1>11, FS_Subset
  <2>2. QED
    BY <2>1, SumIsNat, <1>2, <1>4
<1>13. Sum(s) = Amount[c] + (Amount[a] + Sum(rest))
  BY <1>5, <1>8, <1>11
<1>14. Sum(s \ {a}) = Amount[c] + Sum(rest)
  BY <1>9, <1>10, <1>11
<1>15. QED
  BY <1>2, <1>12, <1>13, <1>14

\* Amounts are not negative: a part of a set does not weigh more than the set.
LEMMA SumOfPart ==
  ASSUME NEW S \in SUBSET Adjustment, IsFiniteSet(S), NEW R \in SUBSET S
  PROVE  Sum(R) <= Sum(S)
<1> DEFINE T == {s \in SUBSET S : R \subseteq s /\ ~ Sum(R) <= Sum(s)}
<1>. SUFFICES ASSUME T # {} PROVE FALSE
  <2>1. S \notin T
    OBVIOUS
  <2>2. QED
    BY <2>1
<1>1. PICK s \in T : \A t \in T : t \subseteq s => t = s
  <2>1. T \subseteq SUBSET S
    OBVIOUS
  <2>. HIDE DEF T
  <2>. QED
    BY <2>1, SmallestSubset
<1>2. /\ IsFiniteSet(s) /\ IsFiniteSet(R) /\ s \subseteq Adjustment /\ R \subseteq Adjustment
      /\ R \subseteq s
  BY FS_Subset
<1>3. Sum(R) \in Nat
  BY <1>2, SumIsNat
<1>4. s # R
  BY <1>3
<1>5. PICK a \in s : a \notin R
  BY <1>2, <1>4
<1>6. s \ {a} \notin T
  BY <1>1, <1>5
<1>7. Sum(R) <= Sum(s \ {a})
  BY <1>2, <1>5, <1>6
<1>8. Sum(s) = Amount[a] + Sum(s \ {a})
  BY <1>2, <1>5, SumWithout
<1>9. Sum(s \ {a}) \in Nat /\ Amount[a] \in Nat
  <2>1. IsFiniteSet(s \ {a})
    BY <1>2, FS_Subset
  <2>2. QED
    BY <2>1, <1>2, <1>5, SumIsNat
<1>10. QED
  BY <1>3, <1>7, <1>8, <1>9
-----------------------------------------------------------------------------
(* The refunds of a purchase.                                              *)

Given == {a \in Adjustment : Kind[a] = "business_refund" /\ operation[a].status # "none"}

LEMMA GivenSum == RefundsWithinCharge <=> Sum(Given) <= Charge
BY DEF RefundsWithinCharge, Sum, Given

LEMMA EarlierSum ==
  ASSUME NEW a \in Adjustment, WithinRefundLimit(a), operation[a].status = "none"
  PROVE  Sum(Given) + Amount[a] <= Charge
<1>1. EarlierRefunds(a) = Given
  BY DEF EarlierRefunds, Given
<1>2. Sum(EarlierRefunds(a)) + Amount[a] <= Charge
  BY DEF WithinRefundLimit, Sum
<1>3. QED
  BY <1>1, <1>2

LEMMA RefundsInit == Init => RefundsWithinCharge
<1> SUFFICES ASSUME Init PROVE RefundsWithinCharge
  OBVIOUS
<1>1. PICK legacy \in SUBSET Legacy, before \in {Unread, InitialBalance} :
        operation = [a \in Adjustment |->
          IF a \in legacy THEN LegacyReview(before) ELSE Blank]
  BY DEF Init
<1>2. Given = {}
  <2>1. Blank.status = "none"
    BY DEF Blank
  <2>2. QED
    BY <1>1, <2>1 DEF Given
<1>3. QED
  BY <1>2, SumEmpty, GivenSum

LEMMA GivenGrows ==
  ASSUME AdjustmentInv, [Next]_vars
  PROVE  \/ Given' = Given
         \/ \E a \in Adjustment : /\ a \notin Given /\ Given' = Given \cup {a}
                                  /\ Sum(Given) + Amount[a] <= Charge
<1>1. ASSUME NEW a \in Adjustment, OnlyRow(a),
             operation'[a].status = "none" <=> operation[a].status = "none"
      PROVE  Given' = Given
  BY <1>1 DEF Given, OnlyRow
<1>2. ASSUME NEW a \in Adjustment, Begins(a)
      PROVE  \/ Given' = Given
             \/ /\ a \notin Given /\ Given' = Given \cup {a}
                /\ Sum(Given) + Amount[a] <= Charge
  <2>1. CASE Kind[a] = "business_refund"
    <3>1. Given' = Given \cup {a} /\ a \notin Given
      BY <1>2, <2>1 DEF Begins, OnlyRow, Given
    <3>2. QED
      BY <1>2, <2>1, <3>1, EarlierSum DEF Begins
  <2>2. CASE Kind[a] # "business_refund"
    BY <1>2, <2>2 DEF Begins, OnlyRow, Given
  <2>3. QED
    BY <2>1, <2>2
<1>3. ASSUME NEW a \in Adjustment, MovesMoney(a) PROVE Given' = Given
  BY <1>3 DEF MovesMoney, Given
<1>4. ASSUME NEW a \in Adjustment, GoesOn(a) \/ Settles(a) PROVE Given' = Given
  BY <1>1, <1>4 DEF GoesOn, Settles, Alive
<1>5. CASE UNCHANGED <<operation, used>>
  BY <1>5 DEF Given
<1>6. QED
  BY <1>2, <1>3, <1>4, <1>5, StepEffect DEF EffectOn

LEMMA GivenWith ==
  ASSUME NEW a \in Adjustment, a \notin Given
  PROVE  Sum(Given \cup {a}) = Amount[a] + Sum(Given)
<1>1. PICK S \in SUBSET Adjustment : S = Given \cup {a}
  BY DEF Given
<1>2. IsFiniteSet(S)
  BY FiniteAssumption, FS_Subset
<1>3. S \ {a} = Given /\ a \in S
  BY <1>1
<1>4. Sum(S) = Amount[a] + Sum(S \ {a})
  BY <1>2, <1>3, SumWithout
<1>5. QED
  BY <1>1, <1>3, <1>4

LEMMA GivenNat == Sum(Given) \in Nat
<1>1. Given \in SUBSET Adjustment
  BY DEF Given
<1>2. IsFiniteSet(Given)
  BY <1>1, FiniteAssumption, FS_Subset
<1>3. QED
  BY <1>1, <1>2, SumIsNat

\* The refunds of one purchase that were ever begun, settled or not, never add
\* up to more than it was charged, whatever is lost, replayed or recovered and
\* however many there are: RefundsWithinCharge, of the limit in
\* validateWalletRefundLimit and of every write after it.
THEOREM RefundsAreCovered == Spec => []RefundsWithinCharge
<1>1. Init => RefundsWithinCharge
  BY RefundsInit
<1>2. AdjustmentInv /\ RefundsWithinCharge /\ [Next]_vars => RefundsWithinCharge'
  <2> SUFFICES ASSUME AdjustmentInv, RefundsWithinCharge, [Next]_vars
               PROVE  RefundsWithinCharge'
    OBVIOUS
  <2>1. Sum(Given) <= Charge
    BY GivenSum
  <2>2. (RefundsWithinCharge <=> Sum(Given) <= Charge)'
    BY GivenSum, PTL
  <2>3. CASE Given' = Given
    BY <2>1, <2>2, <2>3
  <2>4. ASSUME NEW a \in Adjustment, a \notin Given, Given' = Given \cup {a},
               Sum(Given) + Amount[a] <= Charge
        PROVE  RefundsWithinCharge'
    <3>1. Sum(Given') = Amount[a] + Sum(Given)
      BY <2>4, GivenWith
    <3>2. Amount[a] \in Nat
      OBVIOUS
    <3>3. QED
      BY <2>2, <2>4, <3>1, <3>2, GivenNat
  <2>5. QED
    BY <2>3, <2>4, GivenGrows
<1>3. Spec => []AdjustmentInv
  BY AdjustmentsAreOrderly
<1>4. QED
  BY <1>1, <1>2, <1>3, PTL DEF Spec
-----------------------------------------------------------------------------
(* The contract.                                                           *)

Moved == {a \in Adjustment : used[a] # {}}
MovedRefunds == {a \in Moved : Kind[a] = "business_refund"}
VerdictOf(op) == IF op.status \in {"succeeded", "failed"} THEN op.status ELSE "open"
Verdict == [a \in Adjustment |-> VerdictOf(operation[a])]

\* The money that moved is of adjustments that were begun.
LEMMA MovedRefundsAreGiven ==
  AdjustmentInv => MovedRefunds \subseteq Given
<1>. SUFFICES ASSUME AdjustmentInv PROVE MovedRefunds \subseteq Given
  OBVIOUS
<1>1. ASSUME NEW a \in Adjustment, operation[a].status = "none" PROVE used[a] = {}
  BY <1>1 DEF AdjustmentInv, Fits, StatusFits, SendsFit
<1>2. QED
  BY <1>1 DEF MovedRefunds, Moved, Given

LEMMA ContractTotal ==
  ASSUME NEW S
  PROVE  Contract!Total(Contract!Refunds(S)) = Sum({a \in S : Kind[a] = "business_refund"})
BY DEF Contract!Total, Contract!Refunds, Contract!MapThenSumSet, Contract!MapThenFoldSet, Sum, MapThenSumSet, MapThenFoldSet

LEMMA ContractInit ==
  ASSUME Init
  PROVE  Contract!Init
<1>1. PICK legacy \in SUBSET Legacy, before \in {Unread, InitialBalance} :
        operation = [a \in Adjustment |->
          IF a \in legacy THEN LegacyReview(before) ELSE Blank]
  BY DEF Init
<1>2. Blank.status = "none" /\ LegacyReview(before).status = "manual_review"
  BY DEF Blank, LegacyReview
<1>3. \A a \in Adjustment : operation[a].status \notin {"succeeded", "failed"}
  BY <1>1, <1>2
<1>4. QED
  BY <1>3 DEF Contract!Init

\* What the contract says of a step, in the words of this module.
LEMMA ContractMoves ==
  ASSUME NEW a \in Adjustment, a \notin Moved, Verdict[a] = "open", Verdict' = Verdict,
         Moved' = Moved \cup {a},
         Sum({b \in Moved \cup {a} : Kind[b] = "business_refund"}) <= Charge
  PROVE  Contract!Next
<1>1. Contract!Total(Contract!Refunds(Moved \cup {a})) <= Charge
  BY ContractTotal
<1>2. Contract!Move(a)
  BY <1>1 DEF Contract!Move, Moved, Verdict, VerdictOf
<1>3. QED
  BY <1>2 DEF Contract!Next

LEMMA ContractSettles ==
  ASSUME NEW a \in Adjustment, Moved' = Moved, Verdict[a] = "open",
         \/ a \in Moved /\ Verdict' = [Verdict EXCEPT ![a] = "succeeded"]
         \/ a \notin Moved /\ Verdict' = [Verdict EXCEPT ![a] = "failed"]
  PROVE  Contract!Next
<1>1. CASE a \in Moved /\ Verdict' = [Verdict EXCEPT ![a] = "succeeded"]
  <2>1. Contract!Succeed(a)
    BY <1>1 DEF Contract!Succeed, Moved, Verdict, VerdictOf
  <2>2. QED
    BY <2>1 DEF Contract!Next
<1>2. CASE a \notin Moved /\ Verdict' = [Verdict EXCEPT ![a] = "failed"]
  <2>1. Contract!Fail(a)
    BY <1>2 DEF Contract!Fail, Moved, Verdict, VerdictOf
  <2>2. QED
    BY <2>1 DEF Contract!Next
<1>3. QED
  BY <1>1, <1>2

LEMMA ContractStutters ==
  ASSUME Moved' = Moved, Verdict' = Verdict
  PROVE  UNCHANGED Contract!vars
BY DEF Contract!vars, Moved, Verdict, VerdictOf

LEMMA ContractStep ==
  ASSUME AdjustmentInv, AdjustmentInv', RefundsWithinCharge', [Next]_vars
  PROVE  [Contract!Next]_(Contract!vars)
<1>1. /\ operation \in [Adjustment -> OperationType] /\ used \in [Adjustment -> SUBSET {"legacy", "v2"}]
      /\ operation' \in [Adjustment -> OperationType]
  BY DEF AdjustmentInv, TypeOK
<1>2. ASSUME NEW a \in Adjustment, OnlyRow(a), UNCHANGED used,
             VerdictOf(operation'[a]) = VerdictOf(operation[a])
      PROVE  UNCHANGED Contract!vars
  <2>1. Moved' = Moved
    BY <1>2 DEF Moved
  <2>2. \A b \in Adjustment : VerdictOf(operation'[b]) = VerdictOf(operation[b])
    BY <1>2 DEF OnlyRow
  <2>3. Verdict' = Verdict
    BY <2>2 DEF Verdict, VerdictOf
  <2>4. QED
    BY <2>1, <2>3, ContractStutters
<1>3. ASSUME NEW a \in Adjustment, GoesOn(a) \/ Begins(a)
      PROVE  UNCHANGED Contract!vars
  <2>1. VerdictOf(operation'[a]) = VerdictOf(operation[a])
    BY <1>3 DEF GoesOn, Begins, VerdictOf, Alive
  <2>2. QED
    BY <1>2, <1>3, <2>1 DEF GoesOn, Begins
<1>4. ASSUME NEW a \in Adjustment, Settles(a)
      PROVE  Contract!Next
  <2>1. Moved' = Moved /\ Verdict[a] = "open"
    BY <1>4 DEF Settles, Moved, Verdict, VerdictOf
  <2>2. PICK v \in {"succeeded", "failed"} :
          /\ operation'[a].status = v
          /\ v = "succeeded" <=> a \in Moved
    BY <1>4 DEF Settles, Moved
  <2>3. \A b \in Adjustment \ {a} : operation'[b] = operation[b]
    BY <1>4 DEF Settles, OnlyRow
  <2>4. Verdict' = [Verdict EXCEPT ![a] = v]
    BY <2>2, <2>3 DEF Verdict, VerdictOf
  <2>5. QED
    BY <2>1, <2>2, <2>4, ContractSettles
<1>5. ASSUME NEW a \in Adjustment, MovesMoney(a)
      PROVE  Contract!Next \/ UNCHANGED Contract!vars
  <2>1. Verdict' = Verdict /\ Verdict[a] = "open"
    BY <1>5 DEF MovesMoney, Verdict, VerdictOf, Alive
  <2>2. Moved' = Moved \cup {a}
    BY <1>1, <1>5 DEF MovesMoney, Moved
  <2>3. CASE a \in Moved
    <3>1. Moved' = Moved
      BY <2>2, <2>3
    <3>2. QED
      BY <2>1, <3>1, ContractStutters
  <2>4. CASE a \notin Moved
    <3>1. PICK all : all = Given'
      OBVIOUS
    <3>2. Sum(all) <= Charge
      <4>1. (RefundsWithinCharge <=> Sum(Given) <= Charge)'
        BY GivenSum, PTL
      <4>2. QED
        BY <3>1, <4>1
    <3>3. all \in SUBSET Adjustment /\ IsFiniteSet(all)
      <4>1. all \in SUBSET Adjustment
        BY <3>1 DEF Given
      <4>2. QED
        BY <4>1, FiniteAssumption, FS_Subset
    <3>4. PICK some : some = {b \in Moved \cup {a} : Kind[b] = "business_refund"}
      OBVIOUS
    <3>5. some \subseteq all
      <4>1. (AdjustmentInv => MovedRefunds \subseteq Given)'
        BY MovedRefundsAreGiven, PTL
      <4>2. QED
        BY <2>2, <3>1, <3>4, <4>1 DEF MovedRefunds
    <3>6. Sum(some) <= Sum(all)
      BY <3>3, <3>5, SumOfPart
    <3>7. Sum(some) \in Nat /\ Sum(all) \in Nat /\ Charge \in Nat
      <4>1. some \in SUBSET Adjustment /\ IsFiniteSet(some)
        BY <3>3, <3>5, FS_Subset
      <4>2. QED
        BY <3>3, <4>1, SumIsNat
    <3>8. Sum({b \in Moved \cup {a} : Kind[b] = "business_refund"}) <= Charge
      BY <3>2, <3>4, <3>6, <3>7
    <3>9. QED
      BY <2>1, <2>2, <2>4, <3>8, ContractMoves
  <2>5. QED
    BY <2>3, <2>4
<1>6. CASE UNCHANGED <<operation, used>>
  <2>1. Moved' = Moved /\ Verdict' = Verdict
    BY <1>6 DEF Moved, Verdict
  <2>2. QED
    BY <2>1, ContractStutters
<1>7. QED
  BY <1>3, <1>4, <1>5, <1>6, StepEffect DEF EffectOn

\* However requests, recoveries and late effects of any number of adjustments
\* interleave, what the rows and the wallet show is a run of the contract: the
\* money of each moves at most once, a verdict is true and final, and the refunds
\* that moved stay within the charge: KeepsContract, of wallet_adjustment.go.
THEOREM AdjustmentsKeepContract == Spec => KeepsContract
<1>1. Init => Contract!Init
  BY ContractInit
<1>2. AdjustmentInv /\ AdjustmentInv' /\ RefundsWithinCharge' /\ [Next]_vars
        => [Contract!Next]_(Contract!vars)
  BY ContractStep
<1>3. Spec => []AdjustmentInv /\ []RefundsWithinCharge
  BY AdjustmentsAreOrderly, RefundsAreCovered
<1>4. QED
  BY <1>1, <1>2, <1>3, PTL DEF Spec, KeepsContract, Contract!Spec
=============================================================================
