------------------------ MODULE KeyRotation_proofs ------------------------
(***************************************************************************)
(* What KeyRotation promises holds for any number of rotations, requests   *)
(* and failures.  RotationInv is inductive: at most one rotation is under  *)
(* way, its phase says where the two keys, the Secret, the binding and the *)
(* Workspace row are, and otherwise there is one key that they all name.   *)
(***************************************************************************)
EXTENDS KeyRotation, TLAPS

USE KeyAssumption

RequestType == [step : Step, rotation : Rotation, old : Key]

LEMMA InitHolds == Init => RotationInv
<1> SUFFICES ASSUME Init PROVE RotationInv
  OBVIOUS
<1>1. TypeOK
  BY DEF Init, TypeOK, OperationType, NoOperation, Phase, Step, Key, KeyType, KeyName, Absent
<1>2. OneUnfinished
  BY DEF Init, OneUnfinished, Unfinished, NoOperation
<1>3. \A c \in Caller : RequestFits(c)
  BY DEF Init, RequestFits
<1>4. \A r \in Rotation : /\ StatusFits(r) /\ KeyIsNew(r) /\ WriteFits(r)
                         /\ ReviewFits(r) /\ ReceiptFits(r)
  BY DEF Init, NoOperation, StatusFits, KeyIsNew, WriteFits, ReviewFits, ReceiptFits, Unmoved,
         Finished
<1>5. Settled
  <2>1. PICK legacy \in BOOLEAN :
          /\ keys = [k \in Key |->
                      IF k = First
                      THEN [name |-> IF legacy THEN "opl-workspace" ELSE "canonical",
                            status |-> "active"]
                      ELSE Absent]
          /\ secret = IF legacy THEN NoKey ELSE First
          /\ binding = [key |-> First, own |-> ~legacy]
    BY DEF Init
  <2>2. workspaceKey = First /\ First \in Key
    BY DEF Init, Key
  <2>3. CanonicalOrLegacy(workspaceKey)
    BY <2>1, <2>2 DEF CanonicalOrLegacy, Is
  <2>4. \A k \in Key \ {workspaceKey} : ~Present(k)
    BY <2>1, <2>2 DEF Present, Absent
  <2>5. RuntimeKey = workspaceKey /\ binding.key = workspaceKey
    BY <2>1, <2>2 DEF RuntimeKey
  <2>6. QED
    BY <2>3, <2>4, <2>5 DEF Settled
<1>6. \A r \in Rotation : ~Working(r)
  BY DEF Init, Working, Unmoved, NoOperation
<1>7. QED
  BY <1>1, <1>2, <1>3, <1>4, <1>5, <1>6 DEF RotationInv

(* A rotation that is not finished is the only one.                        *)
LEMMA Alone ==
  ASSUME RotationInv, NEW r \in Rotation, Unfinished(r)
  PROVE  \A s \in Rotation \ {r} : ~Unfinished(s) /\ ~Working(s)
BY DEF RotationInv, OneUnfinished, StatusFits, Unfinished, Working

LEMMA WorkingIsUnfinished ==
  ASSUME RotationInv, NEW r \in Rotation, Working(r)
  PROVE  /\ Unfinished(r)
         /\ operation[r].status = "started"
BY DEF RotationInv, TypeOK, OperationType, StatusFits, ReviewFits, Unfinished, Working, Unmoved,
       Finished

(* A row that is not under way may only be under way if it is claimed.     *)
LEMMA AtRest ==
  ASSUME RotationInv, NEW r \in Rotation, Unfinished(r), Unmoved(r)
  PROVE  Settled
<1>1. ~Working(r)
  BY DEF Working
<1>2. QED
  BY <1>1, Alone DEF RotationInv

(* What the requests do when one goes on or ends.                          *)
LEMMA RequestGoesOn ==
  ASSUME RotationInv, NEW c \in Caller, NEW step \in Step, Goto(c, step)
  PROVE  /\ request' \in [Caller -> RequestType]
         /\ \A d \in Caller : /\ request'[d].old = request[d].old
                              /\ request'[d].rotation = request[d].rotation
                              /\ request'[d].step \in {request[d].step, step}
                              /\ d # c => request'[d].step = request[d].step
BY DEF RotationInv, TypeOK, Goto, RequestType

(* A step of a request that changes nothing else.                          *)
LEMMA RequestStep ==
  ASSUME RotationInv,
         request' \in [Caller -> RequestType],
         \A c \in Caller : RequestFits(c)',
         \A c \in Caller : request'[c].old \in {request[c].old, workspaceKey},
         UNCHANGED <<operation, external>>, faults' \in 0 .. MaxFaults
  PROVE  RotationInv'
<1> USE DEF external
<1>1. TypeOK'
  BY DEF RotationInv, TypeOK, RequestType
<1>2. OneUnfinished'
  BY DEF RotationInv, OneUnfinished, Unfinished, Finished
<1>3. \A r \in Rotation : /\ StatusFits(r)' /\ WriteFits(r)'
                         /\ ReviewFits(r)' /\ ReceiptFits(r)'
  BY DEF RotationInv, StatusFits, WriteFits, ReviewFits, ReceiptFits, Unmoved, Finished
<1>4. \A r \in Rotation : KeyIsNew(r)'
  BY DEF RotationInv, KeyIsNew, Unmoved
<1>5. (Settled <=> Settled') /\ \A r \in Rotation : Working(r) <=> Working(r)'
  BY DEF Settled, CanonicalOrLegacy, Is, Present, RuntimeKey, Working, Unmoved, Finished
<1>6. \A r \in Rotation : PhaseFits(r) <=> PhaseFits(r)'
  BY DEF PhaseFits, RowFits, OldKeyFits, NewKeyFits, RuntimeFits, CanonicalOrLegacy, Is, Present,
         RuntimeKey, Bound
<1>7. QED
  BY <1>1, <1>2, <1>3, <1>4, <1>5, <1>6 DEF RotationInv
-----------------------------------------------------------------------------
(* The requests before their rotation runs.                                *)

LEMMA FaultTyped ==
  ASSUME RotationInv, Fault
  PROVE  faults' \in 0 .. MaxFaults
BY DEF RotationInv, TypeOK, Fault

LEMMA AskHolds ==
  ASSUME RotationInv, NEW c \in Caller, NEW r \in Rotation, Ask(c, r)
  PROVE  RotationInv'
<1>1. request' \in [Caller -> RequestType]
  BY DEF Ask, RotationInv, TypeOK, RequestType, Step
<1>2. \A d \in Caller : /\ request'[d].old \in {request[d].old, workspaceKey}
                        /\ d # c => request'[d] = request[d]
  BY DEF Ask, RotationInv, TypeOK
<1>3. request'[c].step = "claim"
  BY DEF Ask, RotationInv, TypeOK
<1>4. \A d \in Caller : RequestFits(d)'
  BY <1>2, <1>3 DEF Ask, RotationInv, RequestFits
<1>5. UNCHANGED <<operation, external>> /\ faults' \in 0 .. MaxFaults
  BY DEF Ask, RotationInv, TypeOK
<1>6. QED
  BY <1>1, <1>2, <1>4, <1>5, RequestStep

LEMMA LockHolds ==
  ASSUME RotationInv, NEW c \in Caller, Lock(c)
  PROVE  RotationInv'
<1>1. "run" \in Step /\ Goto(c, "run") /\ request[c].step = "lock"
  BY DEF Lock, Step
<1>2. UNCHANGED <<operation, external>> /\ faults' \in 0 .. MaxFaults
  BY DEF Lock, RotationInv, TypeOK
<1>3. \A d \in Caller : RequestFits(d)'
  BY <1>1, <1>2, RequestGoesOn DEF RotationInv, RequestFits
<1>4. QED
  BY <1>1, <1>2, <1>3, RequestGoesOn, RequestStep

LEMMA ReturnHolds ==
  ASSUME RotationInv, NEW c \in Caller, Return(c),
         UNCHANGED <<operation, external>>, faults' \in 0 .. MaxFaults
  PROVE  RotationInv'
<1>1. "idle" \in Step /\ Goto(c, "idle")
  BY DEF Return, Step
<1>2. \A d \in Caller : RequestFits(d)'
  BY <1>1, RequestGoesOn DEF RotationInv, RequestFits
<1>3. QED
  BY <1>1, <1>2, RequestGoesOn, RequestStep

LEMMA FailHolds ==
  ASSUME RotationInv, NEW c \in Caller, Fail(c)
  PROVE  RotationInv'
BY FaultTyped, ReturnHolds DEF Fail

(* A rotation is claimed when every other one is finished.                 *)
LEMMA ClaimNewHolds ==
  ASSUME RotationInv, NEW c \in Caller, NEW step \in {"lock", "idle"}, Goto(c, step),
         NEW r \in Rotation, r = request[c].rotation,
         operation[r].status = "none", NoneUnfinished,
         operation' = [operation EXCEPT ![r].status = "started", ![r].old = request[c].old],
         UNCHANGED external, faults' \in 0 .. MaxFaults
  PROVE  RotationInv'
<1> USE DEF external
<1>1. /\ step \in Step
      /\ request[c].old \in Key
  BY DEF Step, RotationInv, TypeOK
<1>2. operation' \in [Rotation -> OperationType]
  BY <1>1 DEF RotationInv, TypeOK, OperationType
<1>3. /\ \A s \in Rotation \ {r} : operation'[s] = operation[s]
      /\ \A s \in Rotation : operation'[s].phase = operation[s].phase
      /\ operation'[r].status = "started" /\ operation'[r].old = request[c].old
  BY <1>1 DEF RotationInv, TypeOK, OperationType
<1>4. Unmoved(r) /\ request[c].old # r
  BY DEF RotationInv, StatusFits, KeyIsNew
<1>5. request' \in [Caller -> RequestType]
  BY <1>1, RequestGoesOn
<1>6. TypeOK'
  BY <1>2, <1>5 DEF RotationInv, TypeOK, RequestType
<1>7. OneUnfinished'
  <2>1. ASSUME NEW s \in Rotation \ {r} PROVE ~Unfinished(s)'
    <3>1. operation'[s] = operation[s]
      BY <1>3
    <3>2. ~Unfinished(s)
      <4>1. operation[s].status \in {"none", "succeeded"}
        BY DEF NoneUnfinished
      <4>2. StatusFits(s)
        BY DEF RotationInv
      <4>3. QED
        BY <4>1, <4>2 DEF Unfinished, StatusFits
    <3>3. QED
      BY <3>1, <3>2 DEF Unfinished, Finished
  <2>2. QED
    BY <2>1 DEF OneUnfinished
<1>8. \A d \in Caller : RequestFits(d)'
  <2> SUFFICES ASSUME NEW d \in Caller PROVE RequestFits(d)'
    OBVIOUS
  <2>1. /\ request'[d].rotation = request[d].rotation
        /\ d # c => request'[d].step = request[d].step
    BY <1>1, RequestGoesOn
  <2>2. RequestFits(d) /\ request[d].rotation \in Rotation
    BY DEF RotationInv, TypeOK, RequestType
  <2>3. \A s \in Rotation : operation'[s].status = "none" => operation[s].status = "none" /\ s # r
    <3>1. operation'[r].status # "none"
      BY <1>3
    <3>2. QED
      BY <1>3, <3>1
  <2>4. QED
    BY <2>1, <2>2, <2>3 DEF RequestFits
<1>9. \A s \in Rotation : WriteFits(s)' /\ ReceiptFits(s)'
  <2> SUFFICES ASSUME NEW s \in Rotation PROVE WriteFits(s)' /\ ReceiptFits(s)'
    OBVIOUS
  <2>1. WriteFits(s) /\ ReceiptFits(s)
    BY DEF RotationInv
  <2>2. operation'[s].phase = operation[s].phase
    BY <1>3
  <2>3. QED
    BY <2>1, <2>2 DEF WriteFits, ReceiptFits, Finished
<1>10. \A s \in Rotation : StatusFits(s)' /\ ReviewFits(s)' /\ KeyIsNew(s)'
  <2> SUFFICES ASSUME NEW s \in Rotation
               PROVE  StatusFits(s)' /\ ReviewFits(s)' /\ KeyIsNew(s)'
    OBVIOUS
  <2>1. \A d \in Caller : request'[d].old = request[d].old
    BY <1>1, RequestGoesOn
  <2>2. Unmoved(s)' => workspaceKey' # s /\ \A d \in Caller : request'[d].old # s
    <3>1. Unmoved(s)' => Unmoved(s)
      BY <1>3 DEF Unmoved
    <3>2. KeyIsNew(s)
      BY DEF RotationInv
    <3>3. QED
      BY <2>1, <3>1, <3>2 DEF KeyIsNew
  <2>3. StatusFits(s)' /\ ReviewFits(s)'
    <3>1. CASE s = r
      BY <1>3, <3>1 DEF StatusFits, ReviewFits
    <3>2. CASE s # r
      <4>1. StatusFits(s) /\ ReviewFits(s)
        BY DEF RotationInv
      <4>2. operation'[s] = operation[s] /\ workspaceKey' = workspaceKey
        BY <1>3, <3>2
      <4>3. QED
        BY <4>1, <4>2 DEF StatusFits, ReviewFits, Unmoved, Finished
    <3>3. QED
      BY <3>1, <3>2
  <2>4. operation'[s].old # s
    <3>1. operation[s].old # s
      BY DEF RotationInv, KeyIsNew
    <3>2. QED
      BY <1>3, <1>4, <3>1
  <2>5. QED
    BY <2>2, <2>3, <2>4 DEF KeyIsNew
<1>11. (Settled <=> Settled') /\ \A s \in Rotation : Working(s) <=> Working(s)'
  BY <1>3 DEF Settled, CanonicalOrLegacy, Is, Present, RuntimeKey, Working, Unmoved, Finished
<1>12. \A s \in Rotation : ~Working(s)
  BY <1>4 DEF NoneUnfinished, RotationInv, StatusFits, Working
<1>13. QED
  BY <1>6, <1>7, <1>8, <1>9, <1>10, <1>11, <1>12 DEF RotationInv

LEMMA ClaimHolds ==
  ASSUME RotationInv, NEW c \in Caller, Claim(c)
  PROVE  RotationInv'
<1> DEFINE r == request[c].rotation
<1>1. r \in Rotation /\ faults \in 0 .. MaxFaults
  BY DEF RotationInv, TypeOK
<1>2. UNCHANGED external
  BY DEF Claim
<1>3. CASE operation[r].status # "none" /\ Goto(c, "lock") /\ UNCHANGED <<operation, faults>>
  <2>1. "lock" \in Step
    BY DEF Step
  <2>2. \A d \in Caller : RequestFits(d)'
    BY <1>3, <2>1, RequestGoesOn DEF RotationInv, RequestFits
  <2>3. QED
    BY <1>1, <1>2, <1>3, <2>1, <2>2, RequestGoesOn, RequestStep
<1>4. CASE /\ operation[r].status = "none" /\ NoneUnfinished
           /\ operation' = [operation EXCEPT ![r].status = "started", ![r].old = request[c].old]
           /\ \/ Goto(c, "lock") /\ UNCHANGED faults
              \/ Return(c) /\ Fault
  <2>1. CASE Goto(c, "lock") /\ UNCHANGED faults
    BY <1>1, <1>2, <1>4, <2>1, ClaimNewHolds
  <2>2. CASE Return(c) /\ Fault
    BY <1>1, <1>2, <1>4, <2>2, ClaimNewHolds, FaultTyped DEF Return
  <2>3. QED
    BY <1>4, <2>1, <2>2
<1>5. CASE Return(c) /\ UNCHANGED <<operation, faults>>
  BY <1>1, <1>2, <1>5, ReturnHolds
<1>6. CASE Return(c) /\ Fault /\ UNCHANGED operation
  BY <1>2, <1>6, ReturnHolds, FaultTyped
<1>7. QED
  BY <1>3, <1>4, <1>5, <1>6 DEF Claim
-----------------------------------------------------------------------------
(* A rotation that runs.                                                   *)

LEMMA NextPhase ==
  /\ PhaseAfter["replacement_check"] = "replacement_create"
  /\ PhaseAfter["replacement_create"] = "secret_write"
  /\ PhaseAfter["secret_write"] = "runtime_bind"
  /\ PhaseAfter["runtime_bind"] = "runtime_readback"
  /\ PhaseAfter["runtime_readback"] = "workspace_commit"
  /\ PhaseAfter["workspace_commit"] = "retire_old"
  /\ PhaseAfter["retire_old"] = "promote_new"
  /\ PhaseAfter["promote_new"] = "delete_old"
  /\ PhaseAfter["delete_old"] = "receipt"
  /\ PhaseAfter["receipt"] = "complete"
BY DEF PhaseAfter

LEMMA RunsUnfinished ==
  ASSUME RotationInv, NEW c \in Caller, NEW r \in Rotation, NEW phase \in Phase, Runs(c, r, phase)
  PROVE  /\ operation[r].phase = phase
         /\ operation[r].status # "none"
         /\ phase # "complete" => Unfinished(r)
         /\ phase \notin {"replacement_check", "complete"} => Working(r)
BY DEF Runs, RotationInv, RequestFits, Unfinished, Finished, Working, Unmoved

(* What a step that is about to save the next phase leaves.                *)
LEMMA AdvanceShape ==
  ASSUME RotationInv, NEW c \in Caller, NEW r \in Rotation, Advance(c, r),
         PhaseAfter[operation[r].phase] \in Phase
  PROVE  /\ operation' \in [Rotation -> OperationType]
         /\ faults' \in 0 .. MaxFaults
         /\ request' = request \/ Return(c)
         /\ \A s \in Rotation \ {r} : operation'[s] = operation[s]
         /\ \/ operation'[r] = operation[r]
            \/ /\ operation'[r].old = operation[r].old
               /\ operation'[r].created = operation[r].created
               /\ operation'[r].phase = PhaseAfter[operation[r].phase]
               /\ operation'[r].status = IF operation[r].phase = "receipt"
                                         THEN "succeeded" ELSE "started"
<1>1. operation \in [Rotation -> OperationType] /\ faults \in 0 .. MaxFaults
  BY DEF RotationInv, TypeOK
<1>2. /\ request' = request \/ Return(c)
      /\ faults' \in 0 .. MaxFaults
  BY <1>1, FaultTyped DEF Advance
<1> DEFINE status == IF operation[r].phase = "receipt" THEN "succeeded" ELSE "started"
           saved == [operation EXCEPT ![r].status = status,
                                      ![r].phase = PhaseAfter[operation[r].phase]]
<1>3. operation' = saved \/ operation' = operation
  BY DEF Advance
<1>4. CASE operation' = saved
  <2> DEFINE after == PhaseAfter[operation[r].phase]
             row == [operation[r] EXCEPT !.status = status, !.phase = after]
  <2>0. status \in {"none", "started", "manual_review", "succeeded"} /\ after \in Phase
    OBVIOUS
  <2>3. operation' = [operation EXCEPT ![r] = row]
    BY <1>1, <1>4
  <2> HIDE DEF status, after
  <2>4. row \in OperationType
    BY <1>1, <2>0 DEF OperationType
  <2> HIDE DEF row
  <2>1. operation' \in [Rotation -> OperationType]
    BY <1>1, <2>3, <2>4
  <2>2. /\ \A s \in Rotation \ {r} : operation'[s] = operation[s]
        /\ operation'[r].old = operation[r].old
        /\ operation'[r].created = operation[r].created
        /\ operation'[r].phase = PhaseAfter[operation[r].phase]
        /\ operation'[r].status = status
    <3>1. operation'[r] = row /\ \A s \in Rotation \ {r} : operation'[s] = operation[s]
      BY <1>1, <2>3
    <3>2. /\ row.old = operation[r].old /\ row.created = operation[r].created
          /\ row.phase = after /\ row.status = status
      BY <1>1 DEF row, OperationType
    <3>3. QED
      BY <3>1, <3>2 DEF after
  <2>5. QED
    BY <1>2, <2>1, <2>2 DEF status
<1>5. CASE operation' = operation
  BY <1>1, <1>2, <1>5
<1>6. QED
  BY <1>3, <1>4, <1>5

(* A step of the only unfinished rotation: what is left to show is what    *)
(* its phase says.                                                         *)
LEMMA WorkStep ==
  ASSUME RotationInv, NEW c \in Caller, NEW r \in Rotation, Unfinished(r),
         request' = request \/ Return(c),
         operation' \in [Rotation -> OperationType],
         workspaceKey' \in {workspaceKey, r},
         keys' \in [Key -> KeyType],
         secret' \in Key \cup {NoKey},
         write' \in [Rotation -> {"none", "started", "failed", "succeeded"}],
         binding' \in [key : Key, own : BOOLEAN],
         receipts' \in {receipts, receipts \cup {r}},
         faults' \in 0 .. MaxFaults,
         \A s \in Rotation \ {r} : operation'[s] = operation[s] /\ write'[s] = write[s],
         operation'[r].old = operation[r].old,
         \/ operation'[r].status = "started" /\ Working(r)'
         \/ operation'[r].status = "succeeded" /\ Finished(r)',
         WriteFits(r)', ReceiptFits(r)',
         Working(r)' => PhaseFits(r)',
         Finished(r)' => Settled'
  PROVE  RotationInv'
<1>1. "idle" \in Step
  BY DEF Step
<1>2. /\ request' \in [Caller -> RequestType]
      /\ \A d \in Caller : /\ request'[d].old = request[d].old
                           /\ request'[d].rotation = request[d].rotation
                           /\ request'[d].step \in {request[d].step, "idle"}
  <2>1. CASE request' = request
    BY <2>1 DEF RotationInv, TypeOK, RequestType
  <2>2. CASE Return(c)
    BY <1>1, <2>2, RequestGoesOn DEF Return
  <2>3. QED
    BY <2>1, <2>2
<1>3. TypeOK'
  BY <1>2 DEF RotationInv, TypeOK, RequestType, Key
<1>4. \A s \in Rotation \ {r} : /\ ~Unfinished(s) /\ ~Working(s)
                                /\ ~Unfinished(s)' /\ ~Working(s)'
  BY Alone DEF Unfinished, Working, Unmoved, Finished
<1>5. OneUnfinished'
  BY <1>4 DEF OneUnfinished
<1>6. \A d \in Caller : RequestFits(d)'
  BY <1>2 DEF RotationInv, TypeOK, RequestFits
<1>7. ~Unmoved(r)'
  BY DEF Working, Finished, Unmoved
<1>8. StatusFits(r)' /\ ReviewFits(r)'
  BY DEF StatusFits, ReviewFits
<1>9. KeyIsNew(r)'
  BY <1>7 DEF RotationInv, KeyIsNew
<1>10. ASSUME NEW s \in Rotation \ {r}
       PROVE  /\ StatusFits(s)' /\ KeyIsNew(s)' /\ ReviewFits(s)' /\ ReceiptFits(s)'
  <2>1. StatusFits(s) /\ KeyIsNew(s) /\ ReceiptFits(s)
    BY DEF RotationInv
  <2>2. StatusFits(s)' /\ ReceiptFits(s)'
    BY <2>1 DEF StatusFits, ReceiptFits, Unmoved, Finished
  <2>3. Unmoved(s)' => Unmoved(s)
    BY DEF Unmoved
  <2>4. KeyIsNew(s)'
    BY <1>2, <2>1, <2>3 DEF KeyIsNew
  <2>5. ReviewFits(s)'
    BY <1>4 DEF ReviewFits, Unfinished, Finished
  <2>6. QED
    BY <2>2, <2>4, <2>5
<1>11. ASSUME NEW s \in Rotation \ {r}
       PROVE  WriteFits(s)'
  <2>1. s # r /\ operation'[s] = operation[s] /\ write'[s] = write[s] /\ WriteFits(s)
    BY DEF RotationInv
  <2>2. operation[s].phase # "secret_write"
    BY <1>4 DEF Working, Unmoved, Finished
  <2>3. QED
    BY <2>1, <2>2 DEF WriteFits
<1>12. (\A s \in Rotation : ~Working(s)') => Settled'
  BY DEF Working, Finished
<1>13. \A s \in Rotation : Working(s)' => PhaseFits(s)'
  BY <1>4
<1>14. QED
  BY <1>3, <1>5, <1>6, <1>8, <1>9, <1>10, <1>11, <1>12, <1>13 DEF RotationInv

(* A rotation that changed nothing, or everything, is sent to review.      *)
LEMMA ReviewStep ==
  ASSUME RotationInv, NEW c \in Caller, NEW r \in Rotation, Return(c),
         operation' = [operation EXCEPT ![r].status = "manual_review"],
         UNCHANGED external, faults' \in 0 .. MaxFaults,
         operation[r].status # "none",
         Finished(r) \/ (Unmoved(r) /\ operation[r].old # workspaceKey)
  PROVE  RotationInv'
<1> USE DEF external
<1>1. "idle" \in Step
  BY DEF Step
<1>2. /\ request' \in [Caller -> RequestType]
      /\ \A d \in Caller : /\ request'[d].old = request[d].old
                           /\ request'[d].rotation = request[d].rotation
                           /\ request'[d].step \in {request[d].step, "idle"}
  BY <1>1, RequestGoesOn DEF Return
<1>3. operation \in [Rotation -> OperationType]
  BY DEF RotationInv, TypeOK
<1>4. operation' \in [Rotation -> OperationType]
  BY <1>3 DEF OperationType
<1>5. /\ \A s \in Rotation \ {r} : operation'[s] = operation[s]
      /\ operation'[r].status = "manual_review"
      /\ \A s \in Rotation : /\ operation'[s].phase = operation[s].phase
                             /\ operation'[s].old = operation[s].old
  BY <1>3 DEF OperationType
<1>6. \A s \in Rotation : /\ Unmoved(s)' <=> Unmoved(s)
                          /\ Finished(s)' <=> Finished(s)
                          /\ Unfinished(s)' <=> Unfinished(s)
                          /\ Working(s)' <=> Working(s)
  BY <1>5 DEF Unmoved, Finished, Unfinished, Working
<1>7. TypeOK'
  BY <1>2, <1>4 DEF RotationInv, TypeOK, RequestType
<1>8. OneUnfinished'
  BY <1>6 DEF RotationInv, OneUnfinished
<1>9. \A d \in Caller : RequestFits(d)'
  BY <1>2, <1>5 DEF RotationInv, TypeOK, RequestFits
<1>10. \A s \in Rotation : WriteFits(s)' /\ ReceiptFits(s)'
  BY <1>5, <1>6 DEF RotationInv, WriteFits, ReceiptFits
<1>11. ASSUME NEW s \in Rotation
       PROVE  StatusFits(s)' /\ ReviewFits(s)' /\ KeyIsNew(s)'
  <2>1. StatusFits(s) /\ ReviewFits(s) /\ KeyIsNew(s)
    BY DEF RotationInv
  <2>2. KeyIsNew(s)'
    BY <1>2, <1>5, <1>6, <2>1 DEF KeyIsNew
  <2>3. CASE s = r
    BY <1>5, <1>6, <2>2, <2>3 DEF StatusFits, ReviewFits
  <2>4. CASE s # r
    BY <1>5, <1>6, <2>1, <2>2, <2>4 DEF StatusFits, ReviewFits
  <2>5. QED
    BY <2>3, <2>4
<1>12. Settled <=> Settled'
  BY DEF Settled, CanonicalOrLegacy, Is, Present, RuntimeKey
<1>13. \A s \in Rotation : PhaseFits(s) <=> PhaseFits(s)'
  <2> SUFFICES ASSUME NEW s \in Rotation PROVE PhaseFits(s) <=> PhaseFits(s)'
    OBVIOUS
  <2>1. CASE s # r
    BY <1>5, <2>1 DEF PhaseFits, RowFits, OldKeyFits, NewKeyFits, RuntimeFits,
       CanonicalOrLegacy, Is, Present, RuntimeKey, Bound
  <2>2. CASE s = r
    <3>1. operation'[s].created = operation[s].created
      BY <1>3, <2>2 DEF OperationType
    <3>2. QED
      BY <1>5, <2>2, <3>1 DEF PhaseFits, RowFits, OldKeyFits, NewKeyFits, RuntimeFits,
         CanonicalOrLegacy, Is, Present, RuntimeKey, Bound
  <2>3. QED
    BY <2>1, <2>2
<1>14. QED
  BY <1>6, <1>7, <1>8, <1>9, <1>10, <1>11, <1>12, <1>13 DEF RotationInv

LEMMA ConflictHolds ==
  ASSUME RotationInv, NEW c \in Caller, NEW r \in Rotation, Conflict(c, r),
         operation[r].status # "none",
         Finished(r) \/ (Unmoved(r) /\ operation[r].old # workspaceKey)
  PROVE  RotationInv'
<1>1. CASE operation' = [operation EXCEPT ![r].status = "manual_review"] /\ UNCHANGED faults
  BY <1>1, ReviewStep DEF Conflict, RotationInv, TypeOK
<1>2. CASE UNCHANGED operation /\ Fault
  BY <1>2, ReturnHolds, FaultTyped DEF Conflict
<1>3. QED
  BY <1>1, <1>2 DEF Conflict

(* Nothing but the phase saved changes.                                    *)
LEMMA AdvanceHolds ==
  ASSUME RotationInv, NEW c \in Caller, NEW r \in Rotation, Unfinished(r),
         Advance(c, r), UNCHANGED external,
         PhaseAfter[operation[r].phase] \in Phase \ {"replacement_check"},
         operation'[r].phase = PhaseAfter[operation[r].phase] =>
           /\ WriteFits(r)' /\ ReceiptFits(r)'
           /\ Working(r)' => PhaseFits(r)'
           /\ Finished(r)' => operation[r].phase = "receipt" /\ Settled'
  PROVE  RotationInv'
<1> USE DEF external
<1>1. /\ operation' \in [Rotation -> OperationType]
      /\ faults' \in 0 .. MaxFaults
      /\ request' = request \/ Return(c)
      /\ \A s \in Rotation \ {r} : operation'[s] = operation[s]
  BY AdvanceShape
<1>2. CASE operation'[r] = operation[r]
  <2>1. operation' = operation
    BY <1>1, <1>2 DEF RotationInv, TypeOK
  <2>2. CASE request' = request
    BY <1>1, <2>1, <2>2, RequestStep DEF RotationInv, TypeOK, RequestFits, RequestType
  <2>3. CASE Return(c)
    BY <1>1, <2>1, <2>3, ReturnHolds
  <2>4. QED
    BY <1>1, <2>2, <2>3
<1>3. CASE /\ operation'[r].old = operation[r].old
           /\ operation'[r].phase = PhaseAfter[operation[r].phase]
           /\ operation'[r].status = IF operation[r].phase = "receipt"
                                     THEN "succeeded" ELSE "started"
  <2>1. \/ operation'[r].status = "started" /\ Working(r)'
        \/ operation'[r].status = "succeeded" /\ Finished(r)'
    BY <1>3, NextPhase DEF Working, Unmoved, Finished
  <2>2. /\ workspaceKey' \in {workspaceKey, r}
        /\ receipts' \in {receipts, receipts \cup {r}}
        /\ keys' \in [Key -> KeyType]
        /\ secret' \in Key \cup {NoKey}
        /\ write' \in [Rotation -> {"none", "started", "failed", "succeeded"}]
        /\ binding' \in [key : Key, own : BOOLEAN]
    BY DEF RotationInv, TypeOK
  <2>3. QED
    BY <1>1, <1>3, <2>1, <2>2, WorkStep
<1>4. QED
  BY <1>2, <1>3, AdvanceShape
-----------------------------------------------------------------------------
(* The phases, in their order.                                             *)

(* A conflict in the first phase means that the key to replace has gone.   *)
LEMMA ReplacementCheckHolds ==
  ASSUME RotationInv, NEW c \in Caller, NEW r \in Rotation, ReplacementCheck(c, r)
  PROVE  RotationInv'
<1>1. /\ operation[r].phase = "replacement_check" /\ Unfinished(r) /\ Unmoved(r)
      /\ operation[r].status # "none"
  BY RunsUnfinished DEF ReplacementCheck, Phase, Unmoved
<1>2. Settled /\ KeyIsNew(r) /\ WriteFits(r) /\ ReceiptFits(r)
  BY <1>1, AtRest DEF RotationInv
<1>3. operation[r].old \in Key /\ r \in Key /\ workspaceKey \in Key
  BY DEF RotationInv, TypeOK, OperationType, Key
<1>4. CASE InitialKeysValid(r) /\ Advance(c, r) /\ UNCHANGED external
  <2>1. operation[r].old = workspaceKey
    <3>1. Present(operation[r].old)
      BY <1>4 DEF InitialKeysValid, CanonicalOrLegacy, Is, Present
    <3>2. QED
      BY <1>2, <1>3, <3>1 DEF Settled
  <2>2. ~Present(r) /\ \A k \in Key \ {operation[r].old, r} : ~Present(k)
    BY <1>1, <1>2, <1>3, <2>1 DEF Settled, KeyIsNew
  <2>3. SUFFICES ASSUME operation'[r].phase = PhaseAfter[operation[r].phase]
                 PROVE  WriteFits(r)' /\ ReceiptFits(r)' /\ PhaseFits(r)' /\ ~Finished(r)'
    BY <1>1, <1>4, NextPhase, AdvanceHolds DEF Phase
  <2>4. operation'[r].phase = "replacement_create" /\ operation'[r].old = operation[r].old
    BY <1>1, <1>4, <2>3, NextPhase, AdvanceShape DEF Phase
  <2>5. WriteFits(r)' /\ ReceiptFits(r)' /\ ~Finished(r)'
    BY <1>1, <1>2, <1>4, <2>4 DEF external, WriteFits, ReceiptFits, Finished
  <2>6. PhaseFits(r)'
    BY <1>2, <1>4, <2>1, <2>2, <2>4 DEF external, Settled, PhaseFits, RowFits, OldKeyFits,
       NewKeyFits, RuntimeFits, BeforeCommit, AfterCommit, CanonicalOrLegacy, Is, Present,
       RuntimeKey, Bound
  <2>7. QED
    BY <2>5, <2>6
<1>5. CASE ~InitialKeysValid(r) /\ Conflict(c, r)
  <2>1. operation[r].old # workspaceKey
    BY <1>2, <1>5 DEF InitialKeysValid, Settled
  <2>2. QED
    BY <1>1, <1>5, <2>1, ConflictHolds
<1>6. QED
  BY <1>4, <1>5 DEF ReplacementCheck, Proceed

(* A phase that keeps everything but its own part of the state.            *)
LEMMA AdvanceFrom ==
  ASSUME RotationInv, NEW c \in Caller, NEW r \in Rotation, Working(r), Advance(c, r),
         operation[r].phase # "receipt", UNCHANGED receipts,
         workspaceKey' \in {workspaceKey, r},
         keys' \in [Key -> KeyType],
         secret' \in {secret, r},
         write' \in [Rotation -> {"none", "started", "failed", "succeeded"}],
         \A s \in Rotation \ {r} : write'[s] = write[s],
         binding' \in {binding, [key |-> r, own |-> TRUE]},
         \/ operation'[r].phase = operation[r].phase
         \/ operation'[r].phase = PhaseAfter[operation[r].phase]
         => WriteFits(r)' /\ PhaseFits(r)'
  PROVE  RotationInv'
<1>1. /\ operation[r].phase \in Phase \ {"replacement_check", "receipt", "complete"}
      /\ PhaseAfter[operation[r].phase] \in Phase \ {"replacement_check", "complete"}
  BY NextPhase DEF RotationInv, TypeOK, OperationType, Phase, Working, Unmoved, Finished
<1>2. Unfinished(r) /\ operation[r].status = "started"
  BY WorkingIsUnfinished
<1>3. /\ operation' \in [Rotation -> OperationType]
      /\ faults' \in 0 .. MaxFaults
      /\ request' = request \/ Return(c)
      /\ \A s \in Rotation \ {r} : operation'[s] = operation[s]
      /\ operation'[r].old = operation[r].old
      /\ operation'[r].phase \in {operation[r].phase, PhaseAfter[operation[r].phase]}
      /\ operation'[r].status = "started"
  BY <1>1, <1>2, AdvanceShape
<1>4. Working(r)'
  BY <1>1, <1>3 DEF Working, Unmoved, Finished
<1>5. ReceiptFits(r)'
  <2>1. r \notin receipts
    BY <1>1 DEF RotationInv, ReceiptFits, Working
  <2>2. QED
    BY <1>4, <2>1 DEF ReceiptFits, Working
<1>6. r \in Key /\ binding \in [key : Key, own : BOOLEAN] /\ secret \in Key \cup {NoKey}
  BY DEF RotationInv, TypeOK, Key
<1>7. secret' \in Key \cup {NoKey} /\ receipts' \in {receipts, receipts \cup {r}}
  BY <1>6
<1>8. binding' \in [key : Key, own : BOOLEAN]
  <2>1. [key |-> r, own |-> TRUE] \in [key : Key, own : BOOLEAN]
    BY <1>6
  <2>2. QED
    BY <1>6, <2>1
<1>9. QED
  BY <1>2, <1>3, <1>4, <1>5, <1>7, <1>8, WorkStep DEF Working

(* What a phase under way leaves to the phase that runs.                   *)
LEMMA PhaseUnderWay ==
  ASSUME RotationInv, NEW c \in Caller, NEW r \in Rotation,
         NEW phase \in Phase \ {"replacement_check", "complete"}, Runs(c, r, phase)
  PROVE  /\ operation[r].phase = phase /\ Working(r) /\ Unfinished(r)
         /\ operation[r].status = "started"
         /\ r \in Key /\ operation[r].old \in Key /\ operation[r].old # r
         /\ keys \in [Key -> KeyType] /\ binding \in [key : Key, own : BOOLEAN]
         /\ PhaseFits(r) /\ WriteFits(r)
<1>1. operation[r].phase = phase /\ Working(r) /\ Unfinished(r)
  BY RunsUnfinished
<1>2. operation[r].status = "started"
  BY <1>1, WorkingIsUnfinished
<1>3. /\ r \in Key /\ operation[r].old \in Key
      /\ keys \in [Key -> KeyType] /\ binding \in [key : Key, own : BOOLEAN]
  BY DEF RotationInv, TypeOK, OperationType, Key
<1>4. operation[r].old # r
  BY DEF RotationInv, KeyIsNew
<1>5. PhaseFits(r) /\ WriteFits(r)
  BY <1>1 DEF RotationInv
<1>6. QED
  BY <1>1, <1>2, <1>3, <1>4, <1>5

LEMMA AdvanceKeeps ==
  ASSUME RotationInv, NEW c \in Caller, NEW r \in Rotation, Working(r), Advance(c, r)
  PROVE  /\ operation'[r].old = operation[r].old
         /\ operation'[r].created = operation[r].created
         /\ operation'[r].phase \in {operation[r].phase, PhaseAfter[operation[r].phase]}
<1>1. PhaseAfter[operation[r].phase] \in Phase
  BY NextPhase DEF RotationInv, TypeOK, OperationType, Phase, Working, Unmoved, Finished
<1>2. QED
  BY <1>1, AdvanceShape

LEMMA NewKeyTyped ==
  ASSUME NEW name \in KeyName, NEW status \in {"active", "disabled", "absent"}
  PROVE  [name |-> name, status |-> status] \in KeyType
BY DEF KeyType

LEMMA StartCreateHolds ==
  ASSUME RotationInv, NEW c \in Caller, NEW r \in Rotation, StartCreate(c, r)
  PROVE  RotationInv'
<1>1. /\ operation[r].phase = "replacement_create" /\ Working(r) /\ Unfinished(r)
      /\ PhaseFits(r) /\ WriteFits(r)
  BY PhaseUnderWay DEF StartCreate, Phase
<1>2. operation \in [Rotation -> OperationType]
  BY DEF RotationInv, TypeOK
<1>3. /\ operation' \in [Rotation -> OperationType]
      /\ \A s \in Rotation \ {r} : operation'[s] = operation[s]
      /\ operation'[r].old = operation[r].old /\ operation'[r].phase = operation[r].phase
      /\ operation'[r].created = TRUE /\ operation'[r].status = "started"
  BY <1>2 DEF StartCreate, OperationType
<1>4. /\ request' = request \/ Return(c)
      /\ faults' \in 0 .. MaxFaults
      /\ UNCHANGED external
  BY FaultTyped DEF StartCreate, RotationInv, TypeOK
<1>5. Working(r)' /\ ~Finished(r)'
  BY <1>1, <1>3 DEF Working, Unmoved, Finished
<1>6. WriteFits(r)' /\ ReceiptFits(r)'
  BY <1>1, <1>3, <1>4 DEF RotationInv, WriteFits, ReceiptFits, Finished, external
<1>7. ~Present(r)
  BY <1>1 DEF StartCreate, PhaseFits, NewKeyFits
<1>8. PhaseFits(r)'
  BY <1>1, <1>3, <1>4, <1>7 DEF external, PhaseFits, RowFits, OldKeyFits, NewKeyFits, RuntimeFits,
     BeforeCommit, AfterCommit, CanonicalOrLegacy, Is, Present, RuntimeKey, Bound
<1>9. QED
  BY <1>1, <1>3, <1>4, <1>5, <1>6, <1>8, WorkStep DEF external, RotationInv, TypeOK

LEMMA CreateHolds ==
  ASSUME RotationInv, NEW c \in Caller, NEW r \in Rotation, Create(c, r)
  PROVE  RotationInv'
<1>1. /\ operation[r].phase = "replacement_create" /\ Working(r)
      /\ r \in Key /\ operation[r].old # r /\ keys \in [Key -> KeyType]
      /\ PhaseFits(r) /\ WriteFits(r)
  BY PhaseUnderWay DEF Create, Phase
<1>2. /\ Advance(c, r) /\ operation[r].created
      /\ keys' = [keys EXCEPT ![r] = [name |-> "replacement", status |-> "active"]]
      /\ UNCHANGED <<workspaceKey, secret, write, binding, receipts>>
  BY DEF Create
<1>3. [name |-> "replacement", status |-> "active"] \in KeyType
  BY NewKeyTyped DEF KeyName
<1>4. /\ keys' \in [Key -> KeyType]
      /\ keys'[r] = [name |-> "replacement", status |-> "active"]
      /\ \A k \in Key \ {r} : keys'[k] = keys[k]
  BY <1>1, <1>2, <1>3
<1>5. ASSUME operation'[r].phase \in {"replacement_create", "secret_write"}
      PROVE  WriteFits(r)' /\ PhaseFits(r)'
  <2>1. WriteFits(r)'
    BY <1>1, <1>2, <1>5 DEF WriteFits
  <2>2. PhaseFits(r)'
    BY <1>1, <1>2, <1>4, <1>5, AdvanceKeeps DEF PhaseFits, RowFits, OldKeyFits, NewKeyFits,
       RuntimeFits, BeforeCommit, AfterCommit, CanonicalOrLegacy, Is, Present, RuntimeKey, Bound
  <2>3. QED
    BY <2>1, <2>2
<1>6. QED
  BY <1>1, <1>2, <1>4, <1>5, NextPhase, AdvanceFrom DEF RotationInv, TypeOK

LEMMA AdoptCreatedHolds ==
  ASSUME RotationInv, NEW c \in Caller, NEW r \in Rotation, AdoptCreated(c, r)
  PROVE  RotationInv'
<1>1. /\ operation[r].phase = "replacement_create" /\ Working(r)
      /\ PhaseFits(r) /\ WriteFits(r)
  BY PhaseUnderWay DEF AdoptCreated, Phase
<1>2. operation[r].created /\ Is(r, "replacement", "active")
  BY <1>1 DEF AdoptCreated, Listed, Present, PhaseFits, NewKeyFits
<1>3. Advance(c, r) /\ UNCHANGED external
  BY <1>2 DEF AdoptCreated, Proceed, Is
<1>4. ASSUME operation'[r].phase \in {"replacement_create", "secret_write"}
      PROVE  WriteFits(r)' /\ PhaseFits(r)'
  <2>1. WriteFits(r)'
    BY <1>1, <1>3, <1>4 DEF WriteFits, external
  <2>2. PhaseFits(r)'
    BY <1>1, <1>2, <1>3, <1>4, AdvanceKeeps DEF external, PhaseFits, RowFits, OldKeyFits,
       NewKeyFits, RuntimeFits, BeforeCommit, AfterCommit, CanonicalOrLegacy, Is, Present,
       RuntimeKey, Bound
  <2>3. QED
    BY <2>1, <2>2
<1>5. QED
  BY <1>1, <1>3, <1>4, NextPhase, AdvanceFrom DEF RotationInv, TypeOK, external

LEMMA SecretWriteHolds ==
  ASSUME RotationInv, NEW c \in Caller, NEW r \in Rotation, SecretWrite(c, r)
  PROVE  RotationInv'
<1>1. /\ operation[r].phase = "secret_write" /\ Working(r) /\ Unfinished(r)
      /\ operation[r].status = "started"
      /\ r \in Key /\ PhaseFits(r) /\ WriteFits(r)
      /\ binding \in [key : Key, own : BOOLEAN]
  BY PhaseUnderWay DEF SecretWrite, Phase
<1>2. /\ UNCHANGED <<workspaceKey, keys, binding, receipts>>
      /\ write \in [Rotation -> {"none", "started", "failed", "succeeded"}]
      /\ keys \in [Key -> KeyType] /\ secret \in Key \cup {NoKey}
      /\ operation \in [Rotation -> OperationType]
  BY DEF SecretWrite, RotationInv, TypeOK
<1>3. ASSUME secret' \in {secret, r},
             operation'[r].old = operation[r].old,
             operation'[r].created = operation[r].created,
             \/ operation'[r].phase = "secret_write"
             \/ operation'[r].phase = "runtime_bind" /\ secret' = r
      PROVE  PhaseFits(r)'
  BY <1>1, <1>2, <1>3 DEF PhaseFits, RowFits, OldKeyFits, NewKeyFits, RuntimeFits, BeforeCommit,
     AfterCommit, CanonicalOrLegacy, Is, Present, RuntimeKey, Bound
<1>4. ASSUME Advance(c, r), secret' = r, write' \in [Rotation -> {"none", "started", "failed", "succeeded"}],
             \A s \in Rotation \ {r} : write'[s] = write[s]
      PROVE  RotationInv'
  <2>1. ASSUME operation'[r].phase \in {"secret_write", "runtime_bind"}
        PROVE  WriteFits(r)' /\ PhaseFits(r)'
    BY <1>1, <1>3, <1>4, <2>1, AdvanceKeeps DEF WriteFits
  <2>2. QED
    BY <1>1, <1>2, <1>4, <2>1, NextPhase, AdvanceFrom
<1>5. CASE write[r] = "succeeded" /\ Advance(c, r) /\ UNCHANGED <<secret, write>>
  BY <1>1, <1>2, <1>4, <1>5 DEF WriteFits
<1>6. CASE secret' = r /\ write' = [write EXCEPT ![r] = "succeeded"] /\ Advance(c, r)
  BY <1>2, <1>4, <1>6
<1>7. CASE /\ secret' \in {secret, r}
           /\ \E status \in {"started", "failed"} : write' = [write EXCEPT ![r] = status]
           /\ UNCHANGED operation /\ Return(c) /\ Fault
  <2>1. /\ write' \in [Rotation -> {"none", "started", "failed", "succeeded"}]
        /\ write'[r] \in {"started", "failed"}
        /\ \A s \in Rotation \ {r} : write'[s] = write[s]
    BY <1>2, <1>7
  <2>2. PhaseFits(r)'
    BY <1>1, <1>3, <1>7
  <2>3. WriteFits(r)' /\ ReceiptFits(r)'
    BY <1>1, <1>2, <1>7, <2>1 DEF RotationInv, WriteFits, ReceiptFits, Finished
  <2>4. Working(r)' /\ ~Finished(r)'
    BY <1>1, <1>7 DEF Working, Unmoved, Finished
  <2>5. secret' \in Key \cup {NoKey} /\ faults' \in 0 .. MaxFaults
    BY <1>1, <1>2, <1>7, FaultTyped
  <2>6. /\ workspaceKey' \in {workspaceKey, r} /\ keys' \in [Key -> KeyType]
        /\ binding' \in [key : Key, own : BOOLEAN] /\ receipts' \in {receipts, receipts \cup {r}}
        /\ operation' \in [Rotation -> OperationType]
    BY <1>1, <1>2, <1>7
  <2>7. QED
    BY <1>1, <1>7, <2>1, <2>2, <2>3, <2>4, <2>5, <2>6, WorkStep
<1>8. CASE Return(c) /\ UNCHANGED <<operation, secret, write, faults>>
  BY <1>2, <1>8, ReturnHolds DEF external, RotationInv, TypeOK
<1>9. QED
  BY <1>5, <1>6, <1>7, <1>8 DEF SecretWrite

LEMMA RuntimeBindHolds ==
  ASSUME RotationInv, NEW c \in Caller, NEW r \in Rotation, RuntimeBind(c, r)
  PROVE  RotationInv'
<1>1. /\ operation[r].phase = "runtime_bind" /\ Working(r)
      /\ r \in Key /\ PhaseFits(r) /\ WriteFits(r)
  BY PhaseUnderWay DEF RuntimeBind, Phase
<1>2. /\ binding' = [key |-> r, own |-> TRUE] /\ Advance(c, r)
      /\ UNCHANGED <<workspaceKey, keys, secret, write, receipts>>
  BY DEF RuntimeBind
<1>3. ASSUME operation'[r].phase \in {"runtime_bind", "runtime_readback"}
      PROVE  WriteFits(r)' /\ PhaseFits(r)'
  <2>1. WriteFits(r)'
    BY <1>3 DEF WriteFits
  <2>2. Bound(r)' /\ RuntimeKey' = secret
    BY <1>2 DEF Bound, RuntimeKey
  <2>3. PhaseFits(r)'
    BY <1>1, <1>2, <1>3, <2>2, AdvanceKeeps DEF PhaseFits, RowFits, OldKeyFits, NewKeyFits,
       RuntimeFits, BeforeCommit, AfterCommit, CanonicalOrLegacy, Is, Present
  <2>4. QED
    BY <2>1, <2>3
<1>4. QED
  BY <1>1, <1>2, <1>3, NextPhase, AdvanceFrom DEF RotationInv, TypeOK

LEMMA RuntimeReadbackHolds ==
  ASSUME RotationInv, NEW c \in Caller, NEW r \in Rotation, RuntimeReadback(c, r)
  PROVE  RotationInv'
<1>1. operation[r].phase = "runtime_readback" /\ Working(r) /\ PhaseFits(r)
  BY PhaseUnderWay DEF RuntimeReadback, Phase
<1>2. Bound(r)
  BY <1>1 DEF PhaseFits, RuntimeFits
<1>3. Advance(c, r) /\ UNCHANGED external
  BY <1>2 DEF RuntimeReadback, Proceed
<1>4. ASSUME operation'[r].phase \in {"runtime_readback", "workspace_commit"}
      PROVE  WriteFits(r)' /\ PhaseFits(r)'
  <2>1. WriteFits(r)'
    BY <1>4 DEF WriteFits
  <2>2. PhaseFits(r)'
    BY <1>1, <1>3, <1>4, AdvanceKeeps DEF external, PhaseFits, RowFits, OldKeyFits, NewKeyFits,
       RuntimeFits, BeforeCommit, AfterCommit, CanonicalOrLegacy, Is, Present, RuntimeKey, Bound
  <2>3. QED
    BY <2>1, <2>2
<1>5. QED
  BY <1>1, <1>3, <1>4, NextPhase, AdvanceFrom DEF RotationInv, TypeOK, external

LEMMA WorkspaceCommitHolds ==
  ASSUME RotationInv, NEW c \in Caller, NEW r \in Rotation, WorkspaceCommit(c, r)
  PROVE  RotationInv'
<1>1. operation[r].phase = "workspace_commit" /\ Working(r) /\ PhaseFits(r)
  BY PhaseUnderWay DEF WorkspaceCommit, Phase
<1>2. Swappable(r)
  BY <1>1 DEF PhaseFits, RowFits, Swappable
<1>3. /\ workspaceKey' = r /\ Advance(c, r)
      /\ UNCHANGED <<keys, secret, write, binding, receipts>>
  BY <1>2 DEF WorkspaceCommit
<1>4. ASSUME operation'[r].phase \in {"workspace_commit", "retire_old"}
      PROVE  WriteFits(r)' /\ PhaseFits(r)'
  <2>1. WriteFits(r)'
    BY <1>4 DEF WriteFits
  <2>2. PhaseFits(r)'
    BY <1>1, <1>3, <1>4, AdvanceKeeps DEF PhaseFits, RowFits, OldKeyFits, NewKeyFits,
       RuntimeFits, BeforeCommit, AfterCommit, CanonicalOrLegacy, Is, Present, RuntimeKey, Bound
  <2>3. QED
    BY <2>1, <2>2
<1>5. QED
  BY <1>1, <1>3, <1>4, NextPhase, AdvanceFrom DEF RotationInv, TypeOK

(* A key that is as it should be, or is brought there, is no conflict.     *)
LEMMA UpdateIsDone ==
  ASSUME NEW c, NEW r, NEW k, NEW from \in BOOLEAN, NEW name, NEW status,
         Update(c, r, k, from, name, status),
         Present(k), Is(k, name, status) \/ from
  PROVE  /\ Advance(c, r) /\ UNCHANGED <<workspaceKey, secret, write, binding, receipts>>
         /\ \/ Is(k, name, status) /\ UNCHANGED keys
            \/ keys' = [keys EXCEPT ![k] = [name |-> name, status |-> status]]
BY DEF Update, external

LEMMA RetireOldHolds ==
  ASSUME RotationInv, NEW c \in Caller, NEW r \in Rotation, RetireOld(c, r)
  PROVE  RotationInv'
<1> DEFINE old == operation[r].old
<1>1. /\ operation[r].phase = "retire_old" /\ Working(r)
      /\ r \in Key /\ old \in Key /\ old # r /\ keys \in [Key -> KeyType] /\ PhaseFits(r)
  BY PhaseUnderWay DEF RetireOld, Phase
<1>2. CanonicalOrLegacy(old) \/ Is(old, Retired(r), "disabled")
  BY <1>1 DEF PhaseFits, OldKeyFits
<1>3. Present(old)
  BY <1>2 DEF CanonicalOrLegacy, Is, Present
<1>4. /\ Advance(c, r) /\ UNCHANGED <<workspaceKey, secret, write, binding, receipts>>
      /\ \/ Is(old, Retired(r), "disabled") /\ UNCHANGED keys
         \/ keys' = [keys EXCEPT ![old] = [name |-> Retired(r), status |-> "disabled"]]
  <2>1. CanonicalOrLegacy(old) \in BOOLEAN
    BY DEF CanonicalOrLegacy, Is
  <2>2. Update(c, r, old, CanonicalOrLegacy(old), Retired(r), "disabled")
    BY DEF RetireOld
  <2>3. QED
    BY <1>2, <1>3, <2>1, <2>2, UpdateIsDone
<1>5. [name |-> Retired(r), status |-> "disabled"] \in KeyType
  <2>1. Retired(r) \in KeyName
    BY DEF KeyName
  <2>2. QED
    BY <2>1, NewKeyTyped
<1>6. /\ keys' \in [Key -> KeyType]
      /\ keys'[old] = [name |-> Retired(r), status |-> "disabled"]
      /\ \A k \in Key \ {old} : keys'[k] = keys[k]
  BY <1>1, <1>4, <1>5 DEF Is
<1>7. ASSUME operation'[r].phase \in {"retire_old", "promote_new"}
      PROVE  WriteFits(r)' /\ PhaseFits(r)'
  <2>1. WriteFits(r)'
    BY <1>7 DEF WriteFits
  <2>2. PhaseFits(r)'
    BY <1>1, <1>4, <1>6, <1>7, AdvanceKeeps DEF PhaseFits, RowFits, OldKeyFits, NewKeyFits,
       RuntimeFits, BeforeCommit, AfterCommit, CanonicalOrLegacy, Is, Present, RuntimeKey, Bound
  <2>3. QED
    BY <2>1, <2>2
<1>8. Advance(c, r) /\ UNCHANGED <<workspaceKey, secret, write, binding, receipts>>
  BY <1>4
<1>9. QED
  BY <1>1, <1>6, <1>7, <1>8, NextPhase, AdvanceFrom DEF RotationInv, TypeOK

LEMMA PromoteNewHolds ==
  ASSUME RotationInv, NEW c \in Caller, NEW r \in Rotation, PromoteNew(c, r)
  PROVE  RotationInv'
<1>1. /\ operation[r].phase = "promote_new" /\ Working(r)
      /\ r \in Key /\ operation[r].old # r /\ keys \in [Key -> KeyType] /\ PhaseFits(r)
  BY PhaseUnderWay DEF PromoteNew, Phase
<1>2. Is(r, "replacement", "active") \/ Is(r, "canonical", "active")
  BY <1>1 DEF PhaseFits, NewKeyFits
<1>3. Present(r)
  BY <1>2 DEF Is, Present
<1>4. /\ Advance(c, r) /\ UNCHANGED <<workspaceKey, secret, write, binding, receipts>>
      /\ \/ Is(r, "canonical", "active") /\ UNCHANGED keys
         \/ keys' = [keys EXCEPT ![r] = [name |-> "canonical", status |-> "active"]]
  <2>1. Is(r, "replacement", "active") \in BOOLEAN
    BY DEF Is
  <2>2. Update(c, r, r, Is(r, "replacement", "active"), "canonical", "active")
    BY DEF PromoteNew
  <2>3. QED
    BY <1>2, <1>3, <2>1, <2>2, UpdateIsDone
<1>5. [name |-> "canonical", status |-> "active"] \in KeyType
  BY NewKeyTyped DEF KeyName
<1>6. /\ keys' \in [Key -> KeyType]
      /\ keys'[r] = [name |-> "canonical", status |-> "active"]
      /\ \A k \in Key \ {r} : keys'[k] = keys[k]
  BY <1>1, <1>4, <1>5 DEF Is
<1>7. ASSUME operation'[r].phase \in {"promote_new", "delete_old"}
      PROVE  WriteFits(r)' /\ PhaseFits(r)'
  <2>1. WriteFits(r)'
    BY <1>7 DEF WriteFits
  <2>2. PhaseFits(r)'
    <3>1. operation[r].old \in Key
      BY DEF RotationInv, TypeOK, OperationType
    <3>2. QED
      BY <1>1, <1>4, <1>6, <1>7, <3>1, AdvanceKeeps DEF PhaseFits, RowFits, OldKeyFits,
         NewKeyFits, RuntimeFits, BeforeCommit, AfterCommit, CanonicalOrLegacy, Is, Present,
         RuntimeKey, Bound
  <2>3. QED
    BY <2>1, <2>2
<1>8. Advance(c, r) /\ UNCHANGED <<workspaceKey, secret, write, binding, receipts>>
  BY <1>4
<1>9. QED
  BY <1>1, <1>6, <1>7, <1>8, NextPhase, AdvanceFrom DEF RotationInv, TypeOK

LEMMA DeleteOldHolds ==
  ASSUME RotationInv, NEW c \in Caller, NEW r \in Rotation, DeleteOld(c, r)
  PROVE  RotationInv'
<1> DEFINE old == operation[r].old
<1>1. /\ operation[r].phase = "delete_old" /\ Working(r)
      /\ r \in Key /\ old \in Key /\ old # r /\ keys \in [Key -> KeyType] /\ PhaseFits(r)
  BY PhaseUnderWay DEF DeleteOld, Phase
<1>2. Is(old, Retired(r), "disabled") \/ ~Present(old)
  BY <1>1 DEF PhaseFits, OldKeyFits
<1>3. /\ Advance(c, r) /\ UNCHANGED <<workspaceKey, secret, write, binding, receipts>>
      /\ \/ ~Present(old) /\ UNCHANGED keys
         \/ keys' = [keys EXCEPT ![old] = Absent]
  BY <1>2 DEF DeleteOld, external
<1>4. Absent \in KeyType
  BY NewKeyTyped DEF Absent, KeyName
<1>5. /\ keys' \in [Key -> KeyType]
      /\ \A k \in Key \ {old} : keys'[k] = keys[k]
      /\ keys'[old].status = "absent"
  BY <1>1, <1>3, <1>4 DEF Present, Absent
<1>6. ASSUME operation'[r].phase \in {"delete_old", "receipt"}
      PROVE  WriteFits(r)' /\ PhaseFits(r)'
  <2>1. WriteFits(r)'
    BY <1>6 DEF WriteFits
  <2>2. PhaseFits(r)'
    BY <1>1, <1>3, <1>5, <1>6, AdvanceKeeps DEF PhaseFits, RowFits, OldKeyFits, NewKeyFits,
       RuntimeFits, BeforeCommit, AfterCommit, CanonicalOrLegacy, Is, Present, RuntimeKey, Bound
  <2>3. QED
    BY <2>1, <2>2
<1>7. QED
  BY <1>1, <1>3, <1>5, <1>6, NextPhase, AdvanceFrom DEF RotationInv, TypeOK

(* The last phase leaves one key.                                          *)
LEMMA ReceiptHolds ==
  ASSUME RotationInv, NEW c \in Caller, NEW r \in Rotation, Receipt(c, r)
  PROVE  RotationInv'
<1>1. /\ operation[r].phase = "receipt" /\ Working(r) /\ Unfinished(r)
      /\ operation[r].status = "started" /\ r \in Key /\ PhaseFits(r)
  BY PhaseUnderWay DEF Receipt, Phase
<1>2. /\ receipts' = receipts \cup {r} /\ Advance(c, r)
      /\ UNCHANGED <<workspaceKey, keys, secret, write, binding>>
  BY DEF Receipt
<1>3. /\ operation' \in [Rotation -> OperationType]
      /\ faults' \in 0 .. MaxFaults
      /\ request' = request \/ Return(c)
      /\ \A s \in Rotation \ {r} : operation'[s] = operation[s]
      /\ operation'[r].old = operation[r].old
      /\ \/ operation'[r].phase = "receipt" /\ operation'[r].status = "started"
         \/ operation'[r].phase = "complete" /\ operation'[r].status = "succeeded"
  <2>1. PhaseAfter[operation[r].phase] = "complete" /\ "complete" \in Phase
    BY <1>1, NextPhase DEF Phase
  <2>2. QED
    BY <1>1, <1>2, <2>1, AdvanceShape
<1>4. \/ operation'[r].status = "started" /\ Working(r)'
      \/ operation'[r].status = "succeeded" /\ Finished(r)'
  BY <1>3 DEF Working, Unmoved, Finished
<1>5. WriteFits(r)' /\ ReceiptFits(r)'
  BY <1>2, <1>3 DEF WriteFits, ReceiptFits, Finished
<1>6. Working(r)' => PhaseFits(r)'
  <2>1. SUFFICES ASSUME operation'[r].phase = "receipt" PROVE PhaseFits(r)'
    BY <1>3 DEF Working, Finished
  <2>2. QED
    BY <1>1, <1>2, <1>3, <2>1 DEF PhaseFits, RowFits, OldKeyFits, NewKeyFits, RuntimeFits,
       BeforeCommit, AfterCommit, CanonicalOrLegacy, Is, Present, RuntimeKey, Bound
<1>7. Settled'
  <2>1. workspaceKey = r /\ CanonicalOrLegacy(r) /\ secret = r /\ Bound(r)
    BY <1>1 DEF PhaseFits, RowFits, NewKeyFits, RuntimeFits, AfterCommit, CanonicalOrLegacy
  <2>2. \A k \in Key \ {r} : ~Present(k)
    BY <1>1 DEF PhaseFits, OldKeyFits
  <2>3. QED
    BY <1>2, <2>1, <2>2 DEF Settled, CanonicalOrLegacy, Is, Present, RuntimeKey, Bound
<1>8. QED
  BY <1>1, <1>2, <1>3, <1>4, <1>5, <1>6, <1>7, WorkStep DEF RotationInv, TypeOK

LEMMA CompleteHolds ==
  ASSUME RotationInv, NEW c \in Caller, NEW r \in Rotation, Complete(c, r)
  PROVE  RotationInv'
<1>1. operation[r].status # "none" /\ Finished(r)
  BY RunsUnfinished DEF Complete, Finished, Phase
<1>2. CASE Return(c) /\ UNCHANGED <<operation, external, faults>>
  BY <1>2, ReturnHolds DEF RotationInv, TypeOK
<1>3. CASE Conflict(c, r)
  BY <1>1, <1>3, ConflictHolds
<1>4. CASE /\ Return(c) /\ Fault
           /\ operation' = [operation EXCEPT ![r].status = "manual_review"]
           /\ UNCHANGED external
  BY <1>1, <1>4, ReviewStep, FaultTyped
<1>5. QED
  BY <1>2, <1>3, <1>4 DEF Complete
-----------------------------------------------------------------------------
LEMMA StepHolds == RotationInv /\ [Next]_vars => RotationInv'
<1> SUFFICES ASSUME RotationInv, [Next]_vars PROVE RotationInv'
  OBVIOUS
<1>1. ASSUME NEW c \in Caller, NEW r \in Rotation, Run(c, r)
      PROVE  RotationInv'
  BY <1>1, ReplacementCheckHolds, StartCreateHolds, CreateHolds, AdoptCreatedHolds,
     SecretWriteHolds, RuntimeBindHolds, RuntimeReadbackHolds, WorkspaceCommitHolds,
     RetireOldHolds, PromoteNewHolds, DeleteOldHolds, ReceiptHolds, CompleteHolds DEF Run
<1>2. CASE Next
  BY <1>1, <1>2, AskHolds, ClaimHolds, LockHolds, FailHolds DEF Next
<1>3. CASE UNCHANGED vars
  BY <1>3, RequestStep DEF vars, external, RotationInv, TypeOK, RequestType, RequestFits
<1>4. QED
  BY <1>2, <1>3

(* At any moment at most one rotation is unfinished, the phase saved for   *)
(* it says where the keys, the Secret, the binding and the Workspace row   *)
(* are, and when none is under way one key is left that all of them name   *)
(* (workspace_gateway.go:433-632).                                         *)
THEOREM RotationsAreOrderly == Spec => []RotationInv
<1>1. QED
  BY InitHolds, StepHolds, PTL DEF Spec

LEMMA LiveKeys == RotationInv => KeysInUseAreLive
<1> SUFFICES ASSUME RotationInv PROVE KeysInUseAreLive
  OBVIOUS
<1>1. CASE \A r \in Rotation : ~Working(r)
  BY <1>1 DEF RotationInv, Settled, CanonicalOrLegacy, Is, KeysInUseAreLive
<1>2. CASE \E r \in Rotation : Working(r)
  <2>1. PICK r \in Rotation : Working(r)
    BY <1>2
  <2>2. PhaseFits(r) /\ operation[r].phase \in Phase \ {"replacement_check", "complete"}
    BY <2>1 DEF RotationInv, TypeOK, OperationType, Working, Unmoved, Finished
  <2>3. keys[workspaceKey].status = "active"
    BY <2>2 DEF Phase, PhaseFits, RowFits, OldKeyFits, NewKeyFits, BeforeCommit, AfterCommit,
       CanonicalOrLegacy, Is
  <2>4. keys[RuntimeKey].status = "active"
    BY <2>2 DEF Phase, PhaseFits, RuntimeFits, OldKeyFits, NewKeyFits, BeforeCommit, AfterCommit,
       CanonicalOrLegacy, Is, RuntimeKey, Bound
  <2>5. QED
    BY <2>3, <2>4 DEF KeysInUseAreLive
<1>3. QED
  BY <1>1, <1>2

(* The key the Runtime uses and the key of the Workspace row are live,     *)
(* whatever fails, is repeated or overlaps (workspace_gateway.go:490-584). *)
THEOREM KeysStayLive == Spec => []KeysInUseAreLive
<1>1. QED
  BY RotationsAreOrderly, LiveKeys, PTL

LEMMA MayGoOn == RotationInv => UnfinishedMayGoOn
<1> SUFFICES ASSUME RotationInv, NEW r \in Rotation,
                    operation[r].status = "manual_review" /\ operation[r].phase # "complete"
             PROVE  operation[r].phase = "replacement_check" /\ ~Present(operation[r].old)
  BY DEF UnfinishedMayGoOn
<1>1. Unfinished(r) /\ Unmoved(r) /\ operation[r].old # workspaceKey
  BY DEF RotationInv, ReviewFits, Unfinished, Finished
<1>2. Settled /\ operation[r].old \in Key
  BY <1>1, AtRest DEF RotationInv, TypeOK, OperationType
<1>3. QED
  BY <1>1, <1>2 DEF Settled, Unmoved

(* A rotation that began to change the keys is never refused by its own    *)
(* phases (workspace_gateway.go:378-387 and 437-444).                      *)
THEOREM RotationsMayGoOn == Spec => []UnfinishedMayGoOn
<1>1. QED
  BY RotationsAreOrderly, MayGoOn, PTL

LEMMA OneLeft == RotationInv => OneKeyIsLeft
<1> SUFFICES ASSUME RotationInv, \A r \in Rotation : Unmoved(r) \/ Finished(r)
             PROVE  /\ {k \in Key : Present(k)} = {workspaceKey}
                    /\ RuntimeKey = workspaceKey /\ binding.key = workspaceKey
                    /\ CanonicalOrLegacy(workspaceKey)
                    /\ receipts = {r \in Rotation : Finished(r)}
  BY DEF OneKeyIsLeft
<1>1. Settled /\ workspaceKey \in Key
  BY DEF RotationInv, TypeOK, Working
<1>2. Present(workspaceKey)
  BY <1>1 DEF Settled, CanonicalOrLegacy, Is, Present
<1>3. {k \in Key : Present(k)} = {workspaceKey}
  BY <1>1, <1>2 DEF Settled
<1>4. \A r \in Rotation : r \in receipts <=> Finished(r)
  BY DEF RotationInv, ReceiptFits, Unmoved
<1>5. receipts = {r \in Rotation : Finished(r)}
  BY <1>4 DEF RotationInv, TypeOK
<1>6. QED
  BY <1>1, <1>3, <1>5 DEF Settled

(* Once every rotation is finished or has changed nothing, one key is left *)
(* that the Workspace row, the Secret and the Deployment all name, and the *)
(* finished rotations have their receipts (workspace_gateway.go:585-632).  *)
THEOREM OneKeyRemains == Spec => []OneKeyIsLeft
<1>1. QED
  BY RotationsAreOrderly, OneLeft, PTL
=============================================================================
