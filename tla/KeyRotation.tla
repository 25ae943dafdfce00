---------------------------- MODULE KeyRotation ----------------------------
(***************************************************************************)
(* Rotations of the Sub2API key of ONE Workspace.  A rotation creates a    *)
(* replacement key, writes it to the Workspace's Kubernetes Secret, binds  *)
(* the Runtime to it, commits it to the Workspace row, and only then       *)
(* disables, renames and deletes the old key.  Each phase makes its calls  *)
(* and saves the next phase; a request repeated under the same idempotency *)
(* key goes on from the phase saved.                                       *)
(*                                                                         *)
(* Requests run in one process (replicas 1, Recreate).  One reads the      *)
(* Workspace, claims its rotation under the claim lock of the Workspace,   *)
(* and runs it under the lock of the rotation.  A phase is one action: its *)
(* calls take effect or not, its save takes effect or not, and the request *)
(* goes on or ends, by an error, a lost answer or a crash.  The calls of a *)
(* phase are not interleaved with those of other rotations: no other       *)
(* rotation writes while one is unfinished, and the reads of a finished    *)
(* one end with the binding, the first thing the next rotation changes.    *)
(*                                                                         *)
(* Left out: the audit event, the checks of the caller, and keys with      *)
(* other names, which a rotation lists but never touches.  Nobody else     *)
(* changes the Workspace's keys (Control Plane refuses reserved names).    *)
(***************************************************************************)
EXTENDS Naturals, FiniteSets

CONSTANTS
  Rotation,   \* idempotency keys of rotation requests
  Caller,     \* requests in progress at once
  First,      \* the key the Workspace was launched with
  MaxFaults   \* bound on calls and saves that fail, or whose answer is lost

ASSUME KeyAssumption == First \notin Rotation /\ MaxFaults \in Nat

VARIABLES
  operation,     \* the workspace.gateway_key.rotate row of each rotation
  request,       \* what each caller is doing
  workspaceKey,  \* workspaceApiKeyId of the Workspace row
  keys,          \* Sub2API: name and status of each key
  secret,        \* Kubernetes: the key in the Workspace's own Secret
  write,         \* Fabric: the upsert_gateway_secret operation of each rotation
  binding,       \* the Deployment: the key it names, and whether it mounts that Secret
  receipts,      \* Ledger: rotations with a receipt
  faults         \* failures so far

vars == <<operation, request, workspaceKey, keys, secret, write, binding,
          receipts, faults>>
-----------------------------------------------------------------------------
(* The state.  The replacement key of rotation r is called r: its creation *)
(* has an idempotency key, so there is at most one.  The name a rotation   *)
(* gives the key it retires is the rotation itself.                        *)

Key == Rotation \cup {First}
NoKey == "none"

Retired(r) == r
KeyName ==
  {"opl-workspace", "canonical", "replacement"} \cup {Retired(r) : r \in Rotation}
KeyType == [name : KeyName, status : {"active", "disabled", "absent"}]
Absent == [name |-> "canonical", status |-> "absent"]

Phase ==
  {"replacement_check", "replacement_create", "secret_write", "runtime_bind",
   "runtime_readback", "workspace_commit", "retire_old", "promote_new",
   "delete_old", "receipt", "complete"}
PhaseAfter ==
  [replacement_check |-> "replacement_create", replacement_create |-> "secret_write",
   secret_write |-> "runtime_bind", runtime_bind |-> "runtime_readback",
   runtime_readback |-> "workspace_commit", workspace_commit |-> "retire_old",
   retire_old |-> "promote_new", promote_new |-> "delete_old",
   delete_old |-> "receipt", receipt |-> "complete"]

OperationType ==
  [status : {"none", "started", "manual_review", "succeeded"}, phase : Phase,
   old : Key, created : BOOLEAN]
NoOperation ==
  [status |-> "none", phase |-> "replacement_check", old |-> First, created |-> FALSE]

Step == {"idle", "claim", "lock", "run"}
Idle(c) == request[c].step = "idle"

\* A legacy Workspace's key has the legacy name and an account's Secret.
Init ==
  /\ operation = [r \in Rotation |-> NoOperation]
  /\ request \in [Caller -> [step : {"idle"}, rotation : Rotation, old : {First}]]
  /\ workspaceKey = First
  /\ \E legacy \in BOOLEAN :
       /\ keys = [k \in Key |->
                   IF k = First
                   THEN [name |-> IF legacy THEN "opl-workspace" ELSE "canonical",
                         status |-> "active"]
                   ELSE Absent]
       /\ secret = IF legacy THEN NoKey ELSE First
       /\ binding = [key |-> First, own |-> ~legacy]
  /\ write = [r \in Rotation |-> "none"]
  /\ receipts = {}
  /\ faults = 0

Present(k) == keys[k].status # "absent"
Is(k, name, status) == keys[k] = [name |-> name, status |-> status]
CanonicalOrLegacy(k) ==
  Is(k, "canonical", "active") \/ Is(k, "opl-workspace", "active")

\* The key the Runtime reads: that of the mounted Secret.
RuntimeKey == IF binding.own THEN secret ELSE First
-----------------------------------------------------------------------------
(* A request: the Workspace is read, then the rotation is claimed.         *)

Fault == faults < MaxFaults /\ faults' = faults + 1
Goto(c, step) == request' = [request EXCEPT ![c].step = step]
Return(c) == Goto(c, "idle")

external == <<workspaceKey, keys, secret, write, binding, receipts>>

Ask(c, r) ==
  /\ Idle(c)
  /\ request' = [request EXCEPT ![c] = [step |-> "claim", rotation |-> r,
                                        old |-> workspaceKey]]
  /\ UNCHANGED <<operation, external, faults>>

\* Mutant: each request only looks at its own rotation.
NeverBusy == TRUE

\* No rotation of the Workspace but the finished ones.
NoneUnfinished == \A r \in Rotation : operation[r].status \in {"none", "succeeded"}

\* The rows are listed and the new one saved under the claim lock.
Claim(c) ==
  LET r == request[c].rotation IN
  /\ request[c].step = "claim"
  /\ \/ /\ operation[r].status # "none" /\ Goto(c, "lock")
        /\ UNCHANGED <<operation, faults>>
     \/ /\ operation[r].status = "none" /\ ~NoneUnfinished /\ Return(c)
        /\ UNCHANGED <<operation, faults>>
     \/ /\ operation[r].status = "none" /\ NoneUnfinished
        /\ operation' = [operation EXCEPT ![r].status = "started", ![r].old = request[c].old]
        /\ \/ Goto(c, "lock") /\ UNCHANGED faults
           \/ Return(c) /\ Fault
     \/ Return(c) /\ Fault /\ UNCHANGED operation
  /\ UNCHANGED external

\* The lock of the rotation; the row is read under it.
Lock(c) ==
  /\ request[c].step = "lock"
  /\ \A d \in Caller : ~(request[d].step = "run" /\ request[d].rotation = request[c].rotation)
  /\ Goto(c, "run")
  /\ UNCHANGED <<operation, external, faults>>
-----------------------------------------------------------------------------
(* The phases.                                                             *)

Runs(c, r, phase) ==
  request[c].step = "run" /\ request[c].rotation = r /\ operation[r].phase = phase

\* The next phase is saved, unless the save or a call before it fails; when
\* only the answer of the save is lost the request ends as well.
Advance(c, r) ==
  LET status == IF operation[r].phase = "receipt" THEN "succeeded" ELSE "started"
      saved == [operation EXCEPT ![r].status = status,
                                 ![r].phase = PhaseAfter[operation[r].phase]]
  IN
  \/ operation' = saved /\ UNCHANGED <<request, faults>>
  \/ operation' = saved /\ Return(c) /\ Fault
  \/ UNCHANGED operation /\ Return(c) /\ Fault

\* A conflict ends the request and sends the rotation to manual review.
Conflict(c, r) ==
  /\ Return(c)
  /\ \/ operation' = [operation EXCEPT ![r].status = "manual_review"] /\ UNCHANGED faults
     \/ UNCHANGED operation /\ Fault
  /\ UNCHANGED external

\* A call that fails without an effect ends the request.
Fail(c) ==
  /\ request[c].step = "run"
  /\ Return(c) /\ Fault
  /\ UNCHANGED <<operation, external>>

Proceed(c, r, ok) == IF ok THEN Advance(c, r) /\ UNCHANGED external ELSE Conflict(c, r)

\* workspaceRotationInitialKeysValid
InitialKeysValid(r) ==
  /\ CanonicalOrLegacy(operation[r].old)
  /\ \A k \in Key \ {operation[r].old} : Present(k) => keys[k].name # "canonical"

ReplacementCheck(c, r) ==
  Runs(c, r, "replacement_check") /\ Proceed(c, r, InitialKeysValid(r))

\* Whether a key of the replacement's name is in the list, and that it was
\* asked for.
Listed(r) == Present(r) /\ keys[r].name = "replacement"

StartCreate(c, r) ==
  /\ Runs(c, r, "replacement_create")
  /\ ~Listed(r) /\ ~operation[r].created
  /\ operation' = [operation EXCEPT ![r].created = TRUE, ![r].status = "started"]
  /\ \/ UNCHANGED <<request, faults>>
     \/ Return(c) /\ Fault
  /\ UNCHANGED external

Create(c, r) ==
  /\ Runs(c, r, "replacement_create")
  /\ ~Listed(r) /\ operation[r].created
  /\ keys' = [keys EXCEPT ![r] = [name |-> "replacement", status |-> "active"]]
  /\ Advance(c, r)
  /\ UNCHANGED <<workspaceKey, secret, write, binding, receipts>>

AdoptCreated(c, r) ==
  /\ Runs(c, r, "replacement_create")
  /\ Listed(r)
  /\ Proceed(c, r, operation[r].created /\ keys[r].status = "active")

\* Fabric's upsert_gateway_secret has an operation of its own.  One that died
\* is taken over after two minutes; one that failed stays failed.
SecretWrite(c, r) ==
  /\ Runs(c, r, "secret_write")
  /\ Is(r, "replacement", "active")
  /\ \/ write[r] = "succeeded" /\ Advance(c, r) /\ UNCHANGED <<secret, write>>
     \/ /\ write[r] \in {"none", "started"}
        /\ \/ /\ secret' = r /\ write' = [write EXCEPT ![r] = "succeeded"]
              /\ Advance(c, r)
           \/ /\ secret' \in {secret, r}
              /\ \E status \in {"started", "failed"} : write' = [write EXCEPT ![r] = status]
              /\ UNCHANGED operation /\ Return(c) /\ Fault
     \/ /\ write[r] = "failed" /\ Return(c)
        /\ UNCHANGED <<operation, secret, write, faults>>
  /\ UNCHANGED <<workspaceKey, keys, binding, receipts>>

RuntimeBind(c, r) ==
  /\ Runs(c, r, "runtime_bind")
  /\ binding' = [key |-> r, own |-> TRUE]
  /\ Advance(c, r)
  /\ UNCHANGED <<workspaceKey, keys, secret, write, receipts>>

Bound(r) == binding = [key |-> r, own |-> TRUE]
RuntimeReadback(c, r) ==
  Runs(c, r, "runtime_readback") /\ Proceed(c, r, Bound(r))

\* CompareAndSwapWorkspaceAPIKey
Swappable(r) == workspaceKey \in {operation[r].old, r}
\* Mutant: the Workspace row is left to be corrected later.
CommitLater(c, r) ==
  /\ Runs(c, r, "workspace_commit")
  /\ Advance(c, r)
  /\ UNCHANGED external

WorkspaceCommit(c, r) ==
  /\ Runs(c, r, "workspace_commit")
  /\ \/ /\ Swappable(r) /\ workspaceKey' = r /\ Advance(c, r)
        /\ UNCHANGED <<keys, secret, write, binding, receipts>>
     \/ ~Swappable(r) /\ Conflict(c, r)

\* Mutant: a change made by an earlier request is taken for someone else's.
UpdateOnce(c, r, k, from, name, status) ==
  IF from
  THEN /\ keys' = [keys EXCEPT ![k] = [name |-> name, status |-> status]]
       /\ Advance(c, r)
       /\ UNCHANGED <<workspaceKey, secret, write, binding, receipts>>
  ELSE Conflict(c, r)

\* A key is disabled and renamed, or renamed, unless it already is.
Update(c, r, k, from, name, status) ==
  \/ Is(k, name, status) /\ Advance(c, r) /\ UNCHANGED external
  \/ /\ ~Is(k, name, status) /\ from
     /\ keys' = [keys EXCEPT ![k] = [name |-> name, status |-> status]]
     /\ Advance(c, r)
     /\ UNCHANGED <<workspaceKey, secret, write, binding, receipts>>
  \/ ~Is(k, name, status) /\ Present(k) /\ ~from /\ Conflict(c, r)
  \/ ~Present(k) /\ Return(c) /\ UNCHANGED <<operation, external, faults>>

RetireOld(c, r) ==
  LET old == operation[r].old IN
  /\ Runs(c, r, "retire_old")
  /\ Update(c, r, old, CanonicalOrLegacy(old), Retired(r), "disabled")

PromoteNew(c, r) ==
  /\ Runs(c, r, "promote_new")
  /\ Update(c, r, r, Is(r, "replacement", "active"), "canonical", "active")

\* Mutant: the old key's deletion is taken for granted.
DeleteUnread(c, r) ==
  /\ Runs(c, r, "delete_old")
  /\ Advance(c, r)
  /\ UNCHANGED external

DeleteOld(c, r) ==
  LET old == operation[r].old IN
  /\ Runs(c, r, "delete_old")
  /\ \/ ~Present(old) /\ Advance(c, r) /\ UNCHANGED external
     \/ /\ Is(old, Retired(r), "disabled")
        /\ keys' = [keys EXCEPT ![old] = Absent]
        /\ Advance(c, r)
        /\ UNCHANGED <<workspaceKey, secret, write, binding, receipts>>
     \/ Present(old) /\ ~Is(old, Retired(r), "disabled") /\ Conflict(c, r)

\* The receipt and the audit event have ids of the rotation.
Receipt(c, r) ==
  /\ Runs(c, r, "receipt")
  /\ receipts' = receipts \cup {r}
  /\ Advance(c, r)
  /\ UNCHANGED <<workspaceKey, keys, secret, write, binding>>

\* workspaceKeyRotationConverged; a read that fails counts as a difference.
Converged(r) ==
  /\ ~Present(operation[r].old)
  /\ \A k \in Key : Present(k) /\ keys[k].name = "canonical" <=> k = r
  /\ keys[r].status = "active"
  /\ workspaceKey = r
  /\ Bound(r)

Complete(c, r) ==
  /\ Runs(c, r, "complete")
  /\ \/ Converged(r) /\ Return(c) /\ UNCHANGED <<operation, external, faults>>
     \/ ~Converged(r) /\ Conflict(c, r)
     \/ /\ Return(c) /\ Fault
        /\ operation' = [operation EXCEPT ![r].status = "manual_review"]
        /\ UNCHANGED external

Run(c, r) ==
  \/ ReplacementCheck(c, r) \/ StartCreate(c, r) \/ Create(c, r) \/ AdoptCreated(c, r)
  \/ SecretWrite(c, r) \/ RuntimeBind(c, r) \/ RuntimeReadback(c, r)
  \/ WorkspaceCommit(c, r) \/ RetireOld(c, r) \/ PromoteNew(c, r) \/ DeleteOld(c, r)
  \/ Receipt(c, r) \/ Complete(c, r)

Next ==
  \E c \in Caller :
    \/ \E r \in Rotation : Ask(c, r) \/ Run(c, r)
    \/ Claim(c) \/ Lock(c) \/ Fail(c)

Spec == Init /\ [][Next]_vars
-----------------------------------------------------------------------------
(* Correctness.                                                            *)

TypeOK ==
  /\ operation \in [Rotation -> OperationType]
  /\ request \in [Caller -> [step : Step, rotation : Rotation, old : Key]]
  /\ workspaceKey \in Key
  /\ keys \in [Key -> KeyType]
  /\ secret \in Key \cup {NoKey}
  /\ write \in [Rotation -> {"none", "started", "failed", "succeeded"}]
  /\ binding \in [key : Key, own : BOOLEAN]
  /\ receipts \subseteq Rotation
  /\ faults \in 0 .. MaxFaults

\* Whatever fails, is repeated or overlaps, the key the Runtime uses and the key
\* of the Workspace row are live keys: an old key is disabled only after the
\* Runtime and the row have left it (workspace_gateway.go:490-584).
KeysInUseAreLive == keys[RuntimeKey].status = "active" /\ keys[workspaceKey].status = "active"

\* No failure, repeat or interleaving brings an unfinished rotation to a state
\* its own phases refuse: it is sent to manual review only before it changed
\* anything, because the key it was to replace was read before the previous
\* rotation deleted it (workspace_gateway.go:378-387 and 437-444).
UnfinishedMayGoOn ==
  \A r \in Rotation :
    operation[r].status = "manual_review" /\ operation[r].phase # "complete" =>
      operation[r].phase = "replacement_check" /\ ~Present(operation[r].old)

\* Once every rotation is finished or never began to change anything, one key is
\* left: it is active, canonical unless nothing was rotated, and the Workspace
\* row, the Secret and the Deployment all name it; each finished rotation has a
\* receipt (workspace_gateway.go:433-632).
Unmoved(r) == operation[r].phase = "replacement_check"
Finished(r) == operation[r].phase = "complete"
OneKeyIsLeft ==
  (\A r \in Rotation : Unmoved(r) \/ Finished(r)) =>
    /\ {k \in Key : Present(k)} = {workspaceKey}
    /\ RuntimeKey = workspaceKey /\ binding.key = workspaceKey
    /\ CanonicalOrLegacy(workspaceKey)
    /\ receipts = {r \in Rotation : Finished(r)}

-----------------------------------------------------------------------------
(* What makes it so: the inductive invariant.                              *)

Unfinished(r) == operation[r].status # "none" /\ ~Finished(r)
Working(r) == ~Unmoved(r) /\ ~Finished(r)

StatusFits(r) ==
  /\ operation[r].status = "none" => Unmoved(r) /\ ~operation[r].created
  /\ operation[r].status = "succeeded" => Finished(r)

OneUnfinished ==
  \A r, s \in Rotation : Unfinished(r) /\ Unfinished(s) => r = s

\* Nobody has heard of the key of a rotation that has not begun.
KeyIsNew(r) ==
  /\ operation[r].old # r
  /\ Unmoved(r) => workspaceKey # r /\ \A c \in Caller : request[c].old # r

\* A request that claimed its rotation has made its row.
RequestFits(c) ==
  request[c].step \in {"lock", "run"} => operation[request[c].rotation].status # "none"

\* Nothing is under way.
Settled ==
  /\ CanonicalOrLegacy(workspaceKey)
  /\ \A k \in Key \ {workspaceKey} : ~Present(k)
  /\ RuntimeKey = workspaceKey /\ binding.key = workspaceKey

BeforeCommit == {"replacement_create", "secret_write", "runtime_bind", "runtime_readback"}
AfterCommit == {"retire_old", "promote_new", "delete_old", "receipt"}

RowFits(r, phase) ==
  /\ phase \in BeforeCommit => workspaceKey = operation[r].old
  /\ phase = "workspace_commit" => workspaceKey \in {operation[r].old, r}
  /\ phase \in AfterCommit => workspaceKey = r

OldKeyFits(r, phase) ==
  LET old == operation[r].old IN
  /\ phase \in BeforeCommit \cup {"workspace_commit"} => CanonicalOrLegacy(old)
  /\ phase = "retire_old" => CanonicalOrLegacy(old) \/ Is(old, Retired(r), "disabled")
  /\ phase = "promote_new" => Is(old, Retired(r), "disabled")
  /\ phase = "delete_old" => Is(old, Retired(r), "disabled") \/ ~Present(old)
  /\ phase = "receipt" => ~Present(old)

NewKeyFits(r, phase) ==
  /\ phase = "replacement_create" =>
       ~Present(r) \/ (operation[r].created /\ Is(r, "replacement", "active"))
  /\ phase \in (BeforeCommit \ {"replacement_create"}) \cup {"workspace_commit", "retire_old"} =>
       Is(r, "replacement", "active")
  /\ phase = "promote_new" => Is(r, "replacement", "active") \/ Is(r, "canonical", "active")
  /\ phase \in {"delete_old", "receipt"} => Is(r, "canonical", "active")

RuntimeFits(r, phase) ==
  /\ phase = "replacement_create" =>
       RuntimeKey = operation[r].old /\ binding.key = operation[r].old
  /\ phase \in {"secret_write", "runtime_bind"} => RuntimeKey \in {operation[r].old, r}
  /\ phase \notin {"replacement_create", "secret_write"} => secret = r
  /\ phase \notin {"replacement_create", "secret_write", "runtime_bind"} => Bound(r)

\* A Secret write belongs to its phase, and one that succeeded lasts.
WriteFits(r) ==
  /\ operation[r].phase \in {"replacement_check", "replacement_create"} => write[r] = "none"
  /\ operation[r].phase = "secret_write" /\ write[r] = "succeeded" => secret = r

\* What the phase of a rotation under way says of the keys.
PhaseFits(r) ==
  LET phase == operation[r].phase IN
  /\ \A k \in Key \ {operation[r].old, r} : ~Present(k)
  /\ RowFits(r, phase) /\ OldKeyFits(r, phase)
  /\ NewKeyFits(r, phase) /\ RuntimeFits(r, phase)

ReviewFits(r) ==
  operation[r].status = "manual_review" /\ ~Finished(r) =>
    Unmoved(r) /\ operation[r].old # workspaceKey

ReceiptFits(r) ==
  /\ Finished(r) => r \in receipts
  /\ r \in receipts => Finished(r) \/ operation[r].phase = "receipt"

\* The parts above for every rotation, and one key when none is under way
\* (workspace_gateway.go:433-632).
RotationInv ==
  /\ TypeOK
  /\ OneUnfinished
  /\ \A c \in Caller : RequestFits(c)
  /\ \A r \in Rotation : /\ StatusFits(r) /\ KeyIsNew(r) /\ WriteFits(r)
                         /\ ReviewFits(r) /\ ReceiptFits(r)
  /\ (\A r \in Rotation : ~Working(r)) => Settled
  /\ \A r \in Rotation : Working(r) => PhaseFits(r)
=============================================================================
