# Formal model of OPL Cloud (medopl-3)

OPL Cloud sells monthly Workspaces.  A *control plane* takes the customer's
order, debits the customer's Sub2API wallet, asks *Fabric* for the machine, disk
and runtime, activates the Workspace, and records a receipt at the *Ledger*.
Everything that matters about it is what happens when those four systems are
told different things: an answer is lost, a process restarts, an operator steps
in, a deletion at the provider crosses a purchase.  The TLA+ modules here
model those behaviours, TLC explores them on small instances, and TLAPS proves
the most important ones for every instance.

Paths below are relative to `src/`; `server/` is
`services/control-plane/internal/server/`, `fabric/` is
`services/fabric/internal/fabric/`, `ledger/` is `services/ledger/internal/ledger/`.

## Inventory

| component | state it keeps | operations | what is hard about it | what makes it correct |
|---|---|---|---|---|
| Workspace launch (`server/workspace_launch.go`, `routes_workspace_launch.go`) | the `RuntimeOperation` row of the launch: status, phase, lease, financial evidence, typed evidence per resource | submit, converge key, claim, debit, fulfil, refund, record receipt, recover a review | every call may fail, be lost or take effect late; the process can stop between a call and the write that records it; a lease can expire under its holder | no provider effect before a proven debit; no refund while a resource exists; one unsettled purchase per account; receipts match the wallet; evidence never lost; every launch settles or reaches an operator |
| Reconcile worker (`server/provider_reconcile_worker.go`) | none | at start-up and every interval: run every launch, sync every resource row, run renewals | repeats everything after any crash | the fairness the liveness properties rest on |
| Workspace renewal (`server/workspace_renewal.go`, `renewal_worker.go`) | renewal operation, the Workspace's renewal intent and paid-until date | claim at the lead time, debit, renew at the provider, verify, commit entitlement, receipt, refund, expiry, two-phase resolution of a review | a financial and an expiry half progress in one operation; the provider deadline must be read back | one debit per period, entitlement only after a verified extension, expiry never destroys a paid resource |
| Wallet adjustment (`server/wallet_adjustment.go`) | adjustment rows | credit or refund by an operator, recovery of an unanswered one | the answer to a wallet write is lost; refundable amount computed from earlier adjustments | never refunds more than was charged; one wallet effect per adjustment; evidence against it stops it for good |
| Workspace key gateway (`server/workspace_gateway.go`, `routes_gateway.go`) | binding of a Sub2API key to a Workspace, rotation operation | converge, rotate, disable | a rotation is several remote calls; the key to replace is read before the claim | the keys in use are live at every moment; converges from any prefix to one active key |
| State stores (`server/ent_state_store.go`, `memory_table_store.go`, `table_store.go`) | all control-plane rows | typed compare-and-swap writes for launch, renewal, intent, rotation | concurrent writers of one row | a stale writer is refused |
| Billing projection (`server/billing_projection.go`, `monthly_billing.go`, `pricing.go`) | none (reads Sub2API history, Ledger receipts, rows) | price quote, reconciliation, month arithmetic | short months; evidence that is partly unavailable | period arithmetic neither drifts nor skips |
| Accounts and sessions (`server/auth*.go`, `session_credential_vault.go`) | account mapping, sessions | login, invitation, mapping | identity lives in Sub2API | no row is reachable from another account |
| Operators, alerts, archive, retention, announcements (`server/admin_ops.go`, `routes_admin.go`, ...) | alerts, archived rows | administrative reads, single-row writes | - | - |
| Fabric service (`fabric/service.go`, `operation_store.go`, `types.go`) | computes, volumes, attachments, runtimes, secrets; operations and claims; jobs | monthly prepare and readback, attach, write Secret, start Runtime, destroy, sync; job loop | single-claim writes, takeover of a stale claim, job leases | two owners of a claim are a takeover apart and only the present one records an outcome; a job's result is written by the holder of an unbroken lease |
| Compute pool (`fabric/pool_allocator.go`) | node pool, machine ownership | scale, bind machines, reconcile, release | two allocations see one machine; scaling half done; a destruction or a readback beside a reconciliation | a machine has one owner; no machine that was seen as wanted is scaled away; a failed creation leaves no demand; creations and destructions end |
| Transfers (`fabric/transfer.go`) | transfer rows and chunks | begin, put a chunk, complete | repeated and conflicting chunks | complete means every chunk of the declared content |
| Tencent provider (`fabric/tencent_provider.go`, provisioner) | none | cloud API calls | unknown results | external |
| Ledger (`ledger/*.go`) | receipts, reports, reviews, policies | record, update retention, legal hold, privacy delete, review gate | each call is several statements in Postgres; hold against deletion; two policies supersede one | one answer per key, a held receipt is never erased, one active policy; Postgres does what the in-memory store does in one step |
| Migrations (`services/internal/postgresmigrate`) | journal table | apply | crash between a migration and its journal entry | each migration is journaled only after it ran |
| Console, tools, contracts, deployment | - | - | - | - |

How they interact: the control plane calls Sub2API, Fabric and the Ledger over
HTTP, one call at a time, and records each answer in its own row before it makes
the next call.  Nothing calls back.  Within the control plane, `lockResource`
(`server/app_state.go:33`) makes everything that touches an account's money run one at
a time in a process.  It is a process-local channel; the deployment is one
replica with `Recreate`, and `docs/invariants.md:150` forbids a second.  What would
protect an operation without that lock is its lease and the compare-and-swap of its
row, so those two are checked with two processes as well.

## Modules

| module | models |
|---|---|
| `WorkspaceLaunch` | the `workspace.launch.v2` saga of one account with Sub2API, Fabric and Ledger as its handlers see them |
| `PurchaseContract` | what the saga promises the customer: money, provider resources and outcome of each purchase, and nothing else |
| `WorkspaceRenewal` | the monthly renewal, expiry, cancellation and review of one Workspace, with Sub2API, Fabric, the provider's deadlines and the Ledger |
| `SubscriptionContract` | what the renewal promises the customer: periods paid, granted or returned, access, and announced ends |
| `WalletAdjustment` | an operator's recharges, debits and refunds of one account's wallet |
| `AdjustmentContract` | what an adjustment promises: its money moves at most once, its verdict is true, refunds stay within the charge |
| `KeyRotation` | the rotations of one Workspace's Sub2API key over Sub2API, the Kubernetes Secret, the Deployment and the Workspace row |
| `RuntimeClaims` | Fabric's claims on attachments, Secrets, Runtimes and their destruction, with takeover |
| `FabricJobs` | Fabric's runner jobs: leases, attempts, retries, over the operation log |
| `ComputePool` | Fabric's allocator of one package's node pool, with destruction, readback and restart beside it |
| `EvidenceRules` | the rules of retention, policies and the review gate that both Ledger stores share |
| `EvidenceStore` | the Ledger's in-memory store, each call one step |
| `PostgresEvidenceStore` | the Ledger's Postgres store, each call several statements; implements `EvidenceStore` |
| `WorkspaceLaunch_proofs`, `WorkspaceRenewal_proofs`, `RuntimeClaims_proofs`, `KeyRotation_proofs`, `WalletAdjustment_proofs`, `FabricJobs_proofs`, `PostgresEvidenceStore_proofs`, `ComputePool_proofs` | the theorems about those modules and their proofs |
| `MC...` | constants, symmetry and bounds of each for TLC |

How they compose.  The sagas do not instantiate the modules of Fabric and of the
Ledger: `WorkspaceLaunch` and `WorkspaceRenewal` have their own small view of them
(a resource's state, a set of receipts), chosen so that what the module below
shows is what the view assumes.  That a receipt recorded twice under its key is one
receipt is `PostgresEvidenceStore`'s `OneAnswerPerKey`; that a repeated attachment, Secret
or Runtime call answers what the first did is `RuntimeClaims`' `ToldIsKept`; that a
compute allocation ends created or failed and owns its machine alone is `ComputePool`'s
`CreationSettles` and `OwnersAreTrue`.

### WorkspaceLaunch and the code

*State.*  `operation[l]` is the `workspaceLaunchOperation` row: `status`, `phase`,
`lease` (`LeaseToken`), `attempted` (`ChargeAttempted`), `pre` and `post`
(`PreChargeBalanceUSDMicros`, `PostChargeBalanceUSDMicros`; `Unread` stands for
`PostChargeBalanceKnown = false`), `confirmed` (`ChargeConfirmation`), and the two
fields of the refund.  `expired` holds the launches whose `LeaseExpiresAt` has
passed.  `resourceRow` and `workspace` are the control-plane tables a launch
writes; `balance`, `charged`, `refunded` are Sub2API's; `compute`, `storage`,
`made` are Fabric's; `receipts` is the Ledger's.  `inFlight` holds requests whose
caller gave up on them and that may still take effect.

*Handlers.*  `handler[p]` is a run of `runWorkspaceLaunch` or of
`recoverWorkspaceLaunchReview` in process `p`: the program counter, the local
copy `op` and the row `base` it last saw.  An action is one external call
together with what the handler decides from its answer, or one write of the row
(`Persist`, the compare-and-swap of `PersistWorkspaceLaunch`).  A handler that
loses the compare-and-swap gives up, as the code does.  `Abort` ends a handler
anywhere: a crash, or a failed write of the store.

| action | code in `server/workspace_launch.go` |
|---|---|
| `Submit`, `ConvergeKey` | `routes_workspace_launch.go` |
| `Claim`, `LeaseExpires` | `runWorkspaceLaunch` |
| `DebitGuard`, `ChargeHistory`, `ReadBalance`, `Charge`, `ConfirmCharge` | `debitWorkspaceLaunch` |
| `BeginFulfilment`, `PrepareCompute`, `ReadbackCompute`, `StorageAbsence`, `PrepareStorage`, `ReadbackStorage`, `Attach`, `WriteSecret`, `StartRuntime`, `VerifyProvider`, `Activate` | `fulfillWorkspaceLaunch` and the functions it calls |
| `RecordPurchase`, `RecordRefund` | `recordWorkspaceLaunchPurchaseReceipt`, `recordWorkspaceLaunchRefundReceipt` |
| `BeginRefund`, `RefundHistory`, `RefundCall` | `refundWorkspaceLaunch` |
| `Recover`, `RecoverTruth` | `recoverWorkspaceLaunchReview` |
| `Deliver`, `ProvisionCompute`, `ProvisionStorage`, `BalanceMoves`, `ProviderMoves` | the environment, from how `fabric/service.go` and the Sub2API client behave |

*Abstractions.*  The typed evidence of a resource (identity, zone, provider ids,
expiry) is the state Fabric has the resource in: `ready` means that it verifies,
`quarantined` that Fabric holds something that does not, `gone` that it was
deleted at the provider.  Two branches of the code that no state reaches are left
out: an insufficient-balance answer to a charge, which the client never returns,
and the limit of ten transitions of one fulfilment pass.

### PurchaseContract

Funds go `none` -> `held` -> `returned`; provider resources are live only while
the funds are held and the purchase is not refunded; an outcome `succeeded` needs
held funds and `refunded` returned ones; both are final.  `KeepsContract` is the
refinement of `WorkspaceLaunch` by the mapping at its end.

### WorkspaceRenewal and the code

*Time.*  `now` counts half months: a Workspace paid through period `k` is due for
renewal at `2k - 1` (`monthlyRenewalLead` before the end) and expires at `2k`.
Provider deadlines are counted in periods.  A pass reads the clock once, when it
claims, as `processWorkspaceRenewal` does; the deadline may pass while it works.

*State.*  `operation[k]` is the `workspaceRenewalOperation` of the period that ends at
`paidThrough = k`, with both of its halves: `status` and `phase` (financial), `expiry`
and `expiryPhase` (`ExpiryStatus`, `ExpiryPhase`), the wallet evidence, `committed`
(`EntitlementCommitted`) and `resolution` (`ReviewResolutionPhase`; a key is set when
it is not "none").  `workspace` has the fields a renewal writes: `paid`, `autoRenew`,
`status` (`renewalStatus`) and `state` (`state` and `status`, which are always
written together).  `provider[r]` is a machine or disk: whether it is `alive`, its
`deadline`, the deadline Fabric recorded (`known`), whether Fabric's record carries a
`renewalResult` (`marked`) and the renewals Fabric recorded as succeeded (`done`).
`rowGone` are the resources whose control-plane row says `external_deleted`.  `request`
is a cancellation between its reads and its write; `promised` the periods its answers
named.

*Handlers.*  `handler[p]` is a pass of the worker or an operator's resolution.  Its
`stage` is where `processWorkspaceRenewal` is: expiry, renewal, expiry again, expiry
receipt; a stage that ends, well or not, is followed by reading the row anew
(`Reload`).  If that read fails the code goes on with the copy it has, and so does
`Reload`: after an expiry that is the handler's own, with a status or phase that was never
written (`workspace_renewal.go:497`, `:510`); after the renewal, which works on a copy by value, it is the one
from before (`kept`).  `base` is what the row was when read, the compare of the next
write.  The customer's cancellation and `Reconcile` take no lock and run between
any two steps.

| action | code |
|---|---|
| `Claim`, `LeaseExpires`, `Reload` with `NextStage` and `Enter` | `processWorkspaceRenewal`, `ClaimWorkspaceRenewal` |
| `Persist` | `PersistWorkspaceRenewal`, operation and Workspace in one transaction |
| `Preflight`, `Advance` | `runWorkspaceRenewal` |
| `Debit`, `History`, `Charge`, `ReadPost` | `debitWorkspaceRenewal` |
| `Renew`, `Verify` | `renewWorkspaceProvider`, behind it Fabric's `RenewComputeAllocation`, `RenewStorageVolume` and the provisioner |
| `VerifyAgain`, `Commit`, `RenewalReceipt` | `verifyWorkspaceRenewalProviderReadback`, `commitWorkspaceRenewalEntitlement`, `recordWorkspaceRenewalReceipt` |
| `ResumeRefund`, `RefundHistory`, `RefundCall`, `RefundReceipt` | `refundWorkspaceRenewal`, `recordWorkspaceRefundReceipt` |
| `Expiry`, `ExpiryReceipt` | `progressWorkspaceRenewalExpiry`, `recordWorkspaceRenewalExpiryReceipt` |
| `Resolve`, `ResolveVerify` | `resolveWorkspaceRenewalReview` |
| `RequestCancel`, `ApplyCancel` | the auto-renew route, `planWorkspaceRenewalIntent`, `ApplyWorkspaceRenewalIntent` |
| `Reconcile` | `reconcileMonthlyCompute`, `reconcileMonthlyStorage` |
| `LateRequest`, `ProviderDeletes`, `BalanceMoves`, `Tick` | the environment |

*Abstractions.*  Readback evidence is the deadline, the mark and whether the
resource exists; identity, zone, price and charge-type mismatches, a disk in a
retained state and a deleted resource that returns are left out.  A store that fails: a write is
`Persist`'s second branch, the read between stages `Reload`'s, the read of the Workspace row before
an expiry `Expiry`'s; any other read that fails ends the pass (`Abort`).  The route only accepts a
cancellation (`autoRenew_unavailable`), so renewal is on, if at all, from the start.

### SubscriptionContract

A period's money is `due`, then `taken`, then possibly `returned`; taking needs that
the period is the next one and not announced as ended; granting needs it taken; access
is denied only after the granted periods are over, and granting restores it.
`KeepsSubscription` is the refinement of `WorkspaceRenewal` by the mapping at its end.
It is where a cancellation that crosses a claim, a refund that crosses a grant, and a
late charge of a cancelled period would show.

### WalletAdjustment and the code

*State.*  `operation[a]` is the `gateway.wallet_adjustment.v1` row: status, phase, the
balances before and after, whether the request was attempted, the recovery it is bound to
(`RecoveryRequestHash`), the identity of the redeem code (`legacy` or `v2`) and the error.
`used[a]` are the codes Sub2API has redeemed, `sent[a]` counts requests, `inFlight` those
whose caller gave up.  `handler` is the one request that holds the lock.

| action | code in `server/wallet_adjustment.go` |
|---|---|
| `Create`, `Replay` | `createWalletAdjustment` with `validateWalletRefundLimit` |
| `BeforeBalance`, `Attempt`, `Call`, `AuthoritativeReadback`, `AfterBalance`, `Receipt`, `Audit`, `Complete` | `runWalletAdjustment`, one action per external call or write |
| `ReviewAudit` | `manualReviewWalletAdjustment` |
| `Recover`, `Bound`, `RecoveryHistory`, `RecoveryBalance` | `recoverWalletAdjustment`, `prepareWalletAdjustmentRecovery` |
| `Deliver`, `WalletMoves`, `Crash` | a late request, top-ups and usage, a restart |

One request at a time is what the code has: the lock `sub2api-wallet` of the account and one
process (`deploy/tke/opl-cloud.k8s.json:95`, `docs/invariants.md:152`).  A request that is
lost leaves only its row, so `handler` is reset by a crash and by nothing else.
Renewals are never refundable (`:702`), so the related purchase is a launch with one charge.
No liveness is claimed: nothing in the code makes an operator repeat a request.

`AdjustmentContract` is the specification above the rows: money moves at most once, succeeded
only after it moved and failed only if it never does, refunds of a purchase within its charge.

### KeyRotation and the code

*State.*  `operation[r]` is the `workspace.gateway_key.rotate` row of the idempotency key
`r`; the replacement key of rotation `r` is called `r`, because its creation has an
idempotency key of its own and can happen once.  `keys` is Sub2API's list (name and status),
`secret` the key in the Workspace's own Secret, `binding` the Deployment (the key it names,
whether it mounts that Secret), `workspaceKey` the Workspace row, `write[r]` Fabric's
`upsert_gateway_secret` operation.  A legacy Workspace starts with the legacy key name and an
account's Secret.

| action | code in `server/workspace_gateway.go` |
|---|---|
| `Ask` (the Workspace is read), `Claim` (rows listed and saved under the claim lock), `Lock` | `rotateWorkspaceGatewayKey`, `claimWorkspaceKeyRotation` |
| `ReplacementCheck`, `StartCreate`, `Create`, `AdoptCreated`, `RuntimeBind`, `RuntimeReadback`, `RetireOld`, `PromoteNew`, `DeleteOld`, `Receipt`, `Complete` | `runWorkspaceKeyRotation`, one action per phase |
| `SecretWrite` | the same, and `fabric/service.go` `UpsertGatewaySecret` |
| `WorkspaceCommit` | `CompareAndSwapWorkspaceAPIKey` |
| `Fail` | any call that fails without an effect; a crash |

A phase is one action: its calls take effect or not, its save takes effect or not, and the
request goes on or ends.  Phases of two rotations need not be interleaved: a rotation starts
only when no other is unfinished, and the reads of a finished one (`Complete`) end with the
binding, which is the first thing the next rotation changes.  The Secret writes of a call
that was taken over are `RuntimeClaims`' subject and left out here; so are keys with other
names, which a rotation lists and does not touch.

### RuntimeClaims and the code

`row[a]` is the row of `fabric_operations` under the idempotency key of action `a`
(`fabric/operation_store.go`), `call[c]` a service call in progress, `told` the successes
callers were answered.  `Lookup`, `Insert`, `Redo`, `Get`, `Reclaim`, `Current` are the
statements of `ClaimRuntime` and `ReclaimRuntime`; `Provider` is the work outside any lock;
`Save` is `SaveRuntime`, which writes only while the claim is still the caller's; `Abort` is a crash or a
failed statement anywhere.  The update and the read that follows it when a failed
destruction is claimed again are one action.  The map of attachments in memory
(`s.attachments`) and the checks of a request's fields are left out.

### FabricJobs and the code

A job has no row: it is what `decodeOperationResource` makes of the operation log, entry after
entry, empty fields keeping the value before (`JobOf`, each field its `LastPresent`).  `CreateJob`, `ClaimJob`, `HeartbeatJob`,
`CompleteJob`, `FailJob`, `CancelJob`, `RetryJob` and `Job` are the functions of those names in
`fabric/service.go`; each first notices a lapsed lease (`JobLocked`).  They are
serialised by `jobMu`, so each is one action; jobs share nothing, so one is modelled.  The clock
does not go back over a restart.  Artifact and review ids only pass through and are left out.

### ComputePool and the code

| action | code in `fabric/` |
|---|---|
| `Create`, `Replay`, `Resume` | `CreateComputeAllocation`, `startComputeReconcile` |
| `Start`, `Plan`, `Call`, `CallFails`, `Claim`, `Judge`, `RecordAssigned`, `Check` | `reconcileComputePool`, `reconcileComputePoolOnce`, the provisioner's `ReconcileComputePool` |
| `Prepare`, `Prepared`, `Finalize`, `Finalized`, `RecordFails` | `preparePendingComputeFailures`, `reconcileFailedComputeCleanup`, `finalizePendingComputeFailures` |
| `DestroyRead`, `DestroyLocked`, `DestroyMachine`, `Release`, `Cancel`, `DestroyFails`, `RecordDestroyed` | `DestroyComputeAllocation`, `finishDestroyComputeAllocation` |
| `SyncRead`, `SyncCall`, `SyncSave`, `SyncRecord` | `SyncComputeAllocation` |
| `Arrive`, `Leave`, `Vanish`, `Crash` | machines of the node pool; a restart and `replayResourceState` |

One package's pool with a fixed node-pool identity; creations are numbered in the order they
are stored.  The evidence records of one answer are written all or none, which machine a
scale-down removes is arbitrary, a read of the store that fails counts as a provider failure,
and recording a destruction clears its in-memory mark in the same step.

### The Ledger's stores and the code

`EvidenceStore` is `ledger/memory_store.go`: a call is one step under the mutex.  Artifacts and
reviews are receipts, as in the code.  `PostgresEvidenceStore` is `ledger/postgres_store.go` statement by
statement at READ COMMITTED: `ReceiptLookup`, `ReceiptInsert`, `ReceiptReplay`; `ReportLookup`,
`ReportInsert`, `ReportReplay`; `KeyLock`, `RowForUpdate`, `RowCommit` (retention and erasure);
`PolicyLookup`, `PolicyScope`, `PolicyUpdate`, `PolicyInsert`, `PolicyCommit`,
`PolicyReplay`; `GatePolicy`, `GateReviews`; and `Fail`, which may lose a call after any
statement.  Unique keys, row locks and advisory locks make the later transaction wait.
A gate may be asked about any reviews, recorded or not yet.
`ActsAsMemory` is the refinement.  Three differences are allowed for: a policy request that is wrong in two
ways may be refused for either reason; Postgres alone refuses a report
id that another key used; and a gate whose policy is superseded between its two reads answers by that policy
(`GateBySuperseded`, see Known departures).  Continuations, lists and single reads are not modelled.

## Runs

| run | instance | question | result |
|---|---|---|---|
| `launch_safety` | 2 launches, 1 process, 2 failures, 1 outside change, fair | are money, resources, rows and receipts of an account consistent, does the saga keep the contract, does every launch settle or reach an operator | holds, 388 000 states |
| `launch_fencing` | 1 launch, 2 processes without a common lock, 2 failures, 1 outside change | do lease and compare-and-swap protect an operation by themselves; is `SagaInv`, of which `LaunchInv` is a part, an invariant | holds, 2.0 million states |
| `launch_unread` | 1 launch, 1 process, 1 failure | is every charge preceded by a recorded balance | violated, see Findings |
| `renewal_safety` | 2 periods, 2 processes without a common lock, 1 cancellation, 2 failures, 1 outside change, `MaxWork` of 3 | are money, entitlement, deadlines, receipts and suspension consistent, does a promise bind the next period, is no old operation in the way, are the contract and outcomes kept; is `RenewalInv` an invariant | holds, 1.6 million states |
| `renewal_liveness` | 1 period, 1 process, 1 cancellation, 2 failures, 1 outside change, three of these in a behaviour, fair | does a renewal settle; is access denied after an unpaid period unless two things failed, and an end receipted | holds, 421 000 states |
| `adjustment_safety` | 2 refunds of one charge, of which it covers one, and a debit that an older release may have left in review; 2 failures, 2 wallet changes, 2 recovery commands | does the money of an adjustment move once, are refunds bounded, does contrary evidence stop it, is the contract kept | holds, 2.4 million states |
| `key_rotation` | 3 rotations, 2 requests at once, 3 failures, current or legacy Workspace | are the keys in use live, can an unfinished rotation go on, is one key left; is `RotationInv` an invariant | holds, 990 000 states |
| `runtime_claims` | a creation and a destruction, 2 calls at once, 2 request hashes, takeover after one tick of two, fair | is work spaced by the takeover time, do answers stand, does only the owner record, are creations settled | holds, 312 000 states |
| `fabric_jobs` | 1 job, 2 runners, 2 idempotency keys, leases of 2 ticks, clock to 3 | is what a runner does covered by an unbroken lease, has an attempt one claim and one outcome | holds, 375 000 states |
| `pool_safety` | 2 allocations, 2 machines, 1 attempt, a repeated creation, a readback, any number of provider errors, 1 other failure | has a machine one owner and do its row and record agree, is a wanted machine kept, does a failed creation leave no demand | holds, 1.4 million states |
| `pool_liveness` | 1 allocation, 2 machines, a destruction, 1 crash or failure, fair | does a creation end, does a destruction that succeeded leave nothing open | holds, 309 000 states |
| `ledger_store` | 2 clients; receipts and reports, or one receipt's retention, or policies and the gate | one answer per key, told answers kept, retention, one active policy, does Postgres do what memory does | holds, 883 000 states |

*Bounds.*  `MaxFaults` bounds failed, lost and inconsistent answers and crashes
together; two of them already give a lost answer followed by a crash, or two
retries of one step.  `MaxExternal` bounds balance movements and deletions at the provider.

* Launch: `Price` is 2, `InitialBalance` 5 and `MaxBalance` 6, so that two purchases
  can be paid but no charge twice over, that a movement of one unit changes whether a purchase is covered, and that a
  mismatch of the balance after the charge is one unit either way.  No run with a
  liveness property uses symmetry; processes are interchangeable in `launch_fencing`.
* Renewal: `LastPeriod` periods can be renewed; the next one is only paid through, which is
  enough because an operation knows its own period and the Workspace's.  `MaxTrouble`
  bounds failures, outside changes and cancellations together.  `renewal_safety` has everything
  at once, and `BoundedSpec` limits how much of it meets: failures, outside changes,
  cancellations, the second period and every worker that is busy count one each, and at most
  three are combined, so a worker meets any two of the others, or another worker and one of
  them.  A second failure counts together with the second period, so that a write that fails at the
  expiry and a read that fails after it are met.  `Price` is 1 and the balance at most 2, so that one charge is covered, two are not without
  a top-up, and the balance after a charge can differ either way.
* Adjustment: a charge of 3 and refunds of 2 each; a wallet of 2 that may grow to 4, so a debit of 2
  is covered, is not, or is covered only after a top-up.
* Key rotation: three rotations are the fewest in which one overlaps a finished one and a
  later one; three failures allow a loss in each of two phases and in the save between.
* Claims: one key per action, as other keys have rows of their own; the clock allows a claim to be
  taken over and that one to grow old.
* Ledger: `OneKind` keeps to one of the three workloads in a behaviour; they share no
  table but `evidence_receipts`, which all three write.
* Pool: provider errors are free; `MaxFaults` bounds restarts, failed writes and machines
  that vanish.  Two failures make some states hold that Known departures describes.

Deadlock is checked where a system cannot stop (`ledger_store`, `key_rotation`); elsewhere an
account whose launches are settled, a job that ended or a clock at its bound has nothing left to do.

*Fairness.*  `WorkspaceLaunch` asks weak fairness of each process's handler steps, of claiming
a launch that is runnable, of a lease reaching its deadline, and of Fabric ending
what it is provisioning.  The worker justifies the first two: it runs all launches at
start-up and at every interval, and each external call has a timeout.  Fabric's
reconciliation justifies the last.  `WorkspaceRenewal` asks weak fairness of handler steps
and of leases reaching their deadline and strong fairness of claiming, because the
operator's resolution can hold the process for a while and the worker's next interval
(`renewal_worker.go:38`) comes back to the same Workspace.  `RuntimeClaims` asks that the clock
goes on, that a call which does not die takes its next step, and that a request is repeated
(strong, because callers come and go), as the launch saga does.  `ComputePool` asks that its goroutines go on, that
one waiting for the pool lock gets it, and that creations and destructions without an answer are repeated, as the
reconcile worker's sync and the sagas' retries do.  Nothing is asked of the customer, of the
operator (`Recover`, `Resolve`), of late requests, of the provider, of failures or of the outside world.

## What is proved

Each theorem holds for every value of the constants that satisfies the module's
assumptions (positive price or takeover time, natural bounds, values that stand for "none").

| module | theorem | says |
|---|---|---|
| `WorkspaceLaunch_proofs` | `LaunchInvInductive`, `LaunchInvariant` | `Spec => []LaunchInv` |
| | `TypeCorrect`, `ProviderAfterProof` | `TypeOK`; no provider effect before a proven debit |
| | `EvidenceDurable`, `TerminalFinal` | `EvidenceIsDurable`; `TerminalIsFinal` |
| | `SagaInvInductive`, `SagaInvariant` | `Spec => []SagaInv`: operations and copies are true of the world, and account for it |
| | `ProofTrue`, `RefundsLeaveNothing` | a recorded proof is true; money goes back only for a charge of which nothing is left |
| | `ReceiptsTrue`, `SettledBothWays`, `UnsettledOnce` | receipts say what the wallet did, a settled operation has its own; one paid launch is unsettled |
| | `PurchaseContractKept` | `Spec => KeepsContract`, the refinement of `PurchaseContract` |
| `WorkspaceRenewal_proofs` | `RenewalsFit` | `Spec => []RenewalInv`: types, true receipts, suspension and end only when unpaid, refunds only without the machine |
| | `EntitlementIsBacked`, `PromisesAreKept` | a granted period is paid and covered by both resources; an announced one is not charged |
| | `NoneIsStranded`, `OutcomesAreFinal` | at most one unfinished operation; no write takes back evidence or outcome |
| | `RenewalKeepsSubscription` | `Spec => KeepsSubscription`, the refinement of `SubscriptionContract` |
| `RuntimeClaims_proofs` | `ClaimsTyped`, `ClaimsAreSpaced` | `TypeOK`; two workers of one key are a takeover apart, and destructions never overlap |
| | `WorkMatchesItsKey`, `SuccessIsKept` | work is done for the recorded request; a success that was told stands |
| | `OwnerRecords`, `OutcomeIsFinal` | only the claim that stands records an outcome; outcomes are final |
| `KeyRotation_proofs` | `RotationsAreOrderly` | `Spec => []RotationInv` |
| | `KeysStayLive`, `RotationsMayGoOn`, `OneKeyRemains` | the keys in use are live; a rotation that began is never refused; one key is left |
| `WalletAdjustment_proofs` | `AdjustmentsAreOrderly` | `Spec => []AdjustmentInv`: one effect, proven settlement, no delayed debit, authorized sends |
| | `ContradictionIsFinal` | `StoppedForGood` |
| | `RefundsAreCovered` | `Spec => []RefundsWithinCharge`: refunds begun never exceed the charge, for any amounts |
| | `AdjustmentsKeepContract` | `Spec => KeepsContract`, the refinement of `AdjustmentContract` |
| `FabricJobs_proofs` | `JobsTypeOK` | `TypeOK` |
| | `UnbrokenLeaseAlways`, `AttemptsAreExclusiveAlways` | work is covered by an unbroken lease; an attempt has one claim and one outcome |
| `PostgresEvidenceStore_proofs` | `StoreTypeOK` | `TypeOK` |
| | `ToldIsKeptAlways`, `OneAnswerPerKeyAlways` | told answers stand; a key has one payload and one answer |
| | `OneActivePolicyAlways`, `RetentionHoldsAlways` | policies form a chain with one end; retention and erasure never undo each other |
| | `StoreActsAsMemory` | `Spec => ActsAsMemory`, the refinement of `EvidenceStore` but for a gate whose policy is superseded meanwhile |
| `ComputePool_proofs` | `TypesAreKept` | `TypeOK` |
| | `OwnersStayTrue`, `DestructionsSettle` | a machine has one owner, rows agree with records; a destroyed allocation is settled |
| | `SeenStays`, `FailuresLeaveNoDemand` | no machine read back as wanted is scaled away; a failed creation leaves no replica |

*WorkspaceLaunch.*  `ProviderOnlyAfterProof` relates Fabric's state to the persisted
operation, but a handler acts on its own copy, possibly an old one, and a late
request acts without any handler.  So it is not inductive, and `LaunchInv` adds what
carries it: operations past their debit hold the proof (`OperationFits`); a
handler's copy fits the step it is at (`StepFits`), was taken from an operation
that was open, and only adds to the evidence of that row (`HandlerFits`,
`KeepsEvidence`); a proof that a handler has seen is still in the operation,
however old the copy (`ProofKept`); a request on its way was sent for a proven
operation (`LateRequestsProven`).  The only write of a row that already exists is
`Persist`, and its compare-and-swap means that it overwrites exactly `base`, so
that `KeepsEvidence(base, op)` becomes `KeepsEvidence(operation, operation')`.  That is
`EvidenceIsDurable`, and with `base.status \notin Terminal` it is
`TerminalIsFinal`.  No use is made of the lease or of a single process: the theorems
hold for any number of processes, which is what the code's compare-and-swap is for.

`SagaInv` extends it to money, resources and receipts, which no single row or call decides.  `RowTrue` says
what a row asserts of Sub2API, Fabric, the Workspace row and the Ledger, and everything it asserts is something
the world does not take back (`Grows`: a used code, a ready resource that can only go, a receipt), so
it stays true of old copies as well.  `WorldFits` is the converse: a charge, a refund, a volume or a receipt that exists or
is on its way was allowed by the row before.  `Follows` is what no write takes back (evidence, the
phases past compute and past activation), and each copy's base is followed by the present row,
so what a late handler does is still allowed.  `StepTrue` keeps the reason for a step that no field records: that compute
was gone when storage is asked for, that both were when a refund begins.  The argument that needs all of them is
`RefundOnlyWithoutResources`: a refund is decided from an absent volume (`MayRefund`) while another
handler may be about to ask for one; but a handler at that step has a copy past the
compute phase, the row it is refunded from follows that copy, and a row before that phase is the only one
that may be refunded without a volume known to be gone.  `OperationMoves` is that proof, and the only lemma about writes; all other actions go
through `HandlerMoves` and `WorldMoves`.  For the refinement, `Touches` lists what a step may do to wallet,
provider and row, and each is one step of the contract (`DebitActs`, `ReturnActs`, `ProviderActs`, `WriteActs`).

*WorkspaceRenewal.*  Everything `renewal_safety` checks is proved, for any number of periods,
workers and failures.  What the properties relate - money, deadlines, receipts, the Workspace row,
announced ends - is only tied together by the rows of `operation`, so `RenewalInv` is made of what each
says of a row.  `CopyFits` bounds a row, or a handler's copy of one: its status and phase against the
charge and the refund (`MoneyFits`, `PhaseFits`), its expiry half (`ExpiryFits`), and that what it confirms
happened (`IsTrue`).  `EffectsFit` is the converse: a charge, a refund or the renewal of a disk that
happened or is on its way was written down before.  `RowFits` ties the rows to the Workspace row: the
granted periods are those before `paid`, nothing is begun past it, and an unfinished granted row keeps later
ones from beginning.  `Follows` says what no write may take back; `HandlerFits` that the row a handler's copy was
read from is followed by the present row (`CopyOf`), and that the copy differs from it at most by an expiry
that was never written (`Drifted`, what a failed write and a failed read leave), or is a write that follows it, with a
patch of the Workspace row that fits it (`PatchFits`); the same of the copy kept through the
renewal.  So a row may say of the expiry what the Workspace row never saw, and an expiry receipt may precede
the row that says why: `ReceiptFits` bounds it by what lets a copy send one, an operation that ended unpaid or
was refunded.  A write that wins the
compare is then a step of `Follows`, which is `OutcomeIsFinal`; one that loses changes nothing.  Most actions
only change one handler or the world outside, so they share the lemmas `OnlyHandlerMoves` and `WorldOnly`;
`WriteHolds` and `OpenedFits` (a write, a claim) carry the argument.  For the refinement each effect is one step of the contract: a charge
is `Take` because a row that attempted one is of the period `paid` and not announced, an extension is
`Grant` because `PatchFits` leaves no suspension behind.  No use is made of the lock or the lease.

*RuntimeClaims.*  `WorkIsSpaced` speaks of two workers, but what keeps them apart is the row:
`Owner` says that a worker's claim is the row's or that the row was taken over `Stale` or
more later, and that a destruction's is always the row's; `Prior` says what a call about to
take over has read.  A new claim is then either the first, or at least `Stale` after all
workers that remain.

*KeyRotation.*  `KeysInUseAreLive` needs to know in every phase which keys exist, and that
nobody else is changing them.  `RotationInv` says both: at most one rotation is
unfinished (`OneUnfinished`), its saved phase bounds the Workspace row, the old and the new key, the
Secret and the binding (`PhaseFits`, one part for each), each part allowing what a phase has done
before its save is made; when none is under way there is one key (`Settled`).  `KeyIsNew` keeps a
key that does not exist yet out of every row and every request; `ReviewFits` and the comparison
in the first phase make a rotation that read its old key too early harmless.  No use is made of the rotation's own lock.

*WalletAdjustment.*  `OneEffect` and `SendsAreAuthorized` speak of the wallet and of counts, and
what bounds them is the row and the request that holds the lock.  `SendsFit` counts sends before
they are made: a row in phase `adjustment`, or a request about to call, has sent one time less than
it may.  `LegacyFits` says that money that moved under the legacy code is never sent for again, which
rests on the history read that precedes a recovery's second send; `ProofFits` ties the phases past
the readback, and receipts, to money that moved; `HandlerFits` says what the row is at each step
of the request, and is where the lock of the account is used.  A step touches one adjustment
(`Only`), so each action has one lemma about that adjustment.

The refund limit adds amounts with `MapThenSumSet`, a recursive function on the subsets of its
argument.  That it is one, what it is at `{}` and at a set less one element (`SumEmpty`, `SumWithout`) and that a part weighs no
more than the whole (`SumOfPart`) is proved from a smallest subset for which it would fail (`SmallestSubset`);
it needs `FiniteAssumption`, that an account has finitely many rows.  `EffectOn` then says what a step
may do - a row goes on, begins within the limit, settles by what the wallet did, or one code moves - and the refunds
given (`Given`) only grow by one that `WithinRefundLimit` counted.  For the refinement, refunds that moved are a part of those
given, so each late effect is a `Move` that the contract's limit allows.

*FabricJobs.*  The job is computed from the log, so the invariant is about the log alone.  `Follows`
says of each entry and the one before it how every field of the decoded job changes; `Under`
says of each entry which earlier entry last held the lease, and with what owner, attempt and deadline.
A new entry is decoded from the log by `LastPresent`, whose lemmas say what appending does to it, and
`TokensOK` ties the tokens runners know to the claim that drew them.

*PostgresEvidenceStore.*  `Settled` says what of an answer stands in the tables, `CallerOK` what a call has
read at each of its statements and still relies on at its commit, and `Locks` which two calls cannot
be inside at once (the advisory lock of a key, a locked receipt, the policy lock).  Every
statement lets the tables `Grow`, which keeps `Settled`, and whoever could
change what another call has read waits for the same lock, which keeps `CallerOK`.  `PoliciesOK` makes the policies a
chain: the partial unique index has at most one active, and the unique successor makes it the only end.  For the refinement
a call acts at the statement that decides it - its insert, its commit, the read that finds the key
taken - and all others are stutters.  A gate acts at its read of the reviews: it answers as the memory store does
if its policy is in force then (`MemoryGates`), and is `GateBySuperseded` if not, since a policy that was active
when read and is not any more has been superseded.  The proof assumes of requests what the code makes of them
(`RequestAssumption`): a report's id is part of its payload, a policy's key is not empty, a deadline is a time.

*ComputePool.*  The worker holds the pool's lock over several calls to the provider, and beside it
creations are stored and destructions and readbacks come and go, so what it planned with is old.  Each
action has one lemma about its effect, and the invariants grow by what each property
needs.  `LogInv` says what cannot have changed: the creations the worker has yet to look at are still
started (`ToCome`), nothing is known of an allocation nobody asked for (`Fresh`), a destruction at work was asked
for (`Asked`).  `MachineInv` says that the row, the record, the memory
and every request in progress name one machine or none (`MachineOK`), and that during a claim the row is that of
the creation whose turn it is (`TakerOK`).  `OneOwner` then follows, since only a claim brings a machine into a row.
`OwnersInv` adds the reason a creation may be cancelled: an answer without machines is believed only
while it is the one at hand, and then its row names no machine there is (`BareOK`, `OwnerOK`).  `SettledInv` shows
that only a readback may put a released row back in use after its destruction.

The last two are about counts.  For `FailuresLeaveNoDemand`, `DemandInv` has every replica
accounted for (`Account`) by a row in use, by one whose machine went after its creation ended, or by a
creation that is waited for; during a claim the creation counts twice, once by its row.  For `SeenStays`,
`KeptInv` says, while only the provider's answers fail (`Quiet`), that no started creation has a row except the one being
claimed for (`ClaimedOK`), that the worker plans with every machine in use (`PlannedOK`), and that once a
machine was returned the pool has at least as many replicas as machines and owes every one (`SeenOK`): a scale-down
below what was returned would need a creation to be given up, and `BareOK` forbids that.
TLC checked each of these invariants on small instances before it was proved.

Every safety property of the passing runs is one of these theorems.  Only model-checked: liveness (`LaunchSettles`, `RenewalSettles`, `UnpaidIsSuspended`, `ClaimsSettle`,
`CreationSettles`), which is beyond the prover: it has no rules for fairness and `ENABLED`.

## Findings

* `launch_unread` - `docs/invariants.md:141` puts reading the live balance before
  the debit.  A transient failure before the charge sets status `unknown`
  (`workspace_launch.go:977`), and the next pass takes `unknown` as a charge that may
  have been sent (`:1001`): it finds no history entry and charges without a balance
  read.  The check after the charge cannot succeed (`:1068`) and the launch stays in
  `manual_review` with the customer's money.

### Known departures

Places where the model follows the code and the code is not what a document or a reader
expects.  Those with a definition are reproduced by a copy of the named cfg with that
definition as its only property.

* `PartialResultIsReviewed` (`launch_safety.cfg` with one launch) - `docs/invariants.md:171` says that a partial or unknown provider
  result enters `manual_review`.  When compute and storage exist and the
  attachment, Secret or Runtime write fails, `fulfillWorkspaceLaunch` records
  `retryable` (`workspace_launch.go:344`).  Fabric answers a claim that failed with its error
  from then on (`fabric/service.go:1047`), so the worker
  retries the paid launch for ever; the operator's recovery only accepts
  `manual_review` (`workspace_launch.go:839`).
* `ProviderRenewedOnce` (`renewal_safety.cfg`) - `docs/invariants.md:196` says that replays never create a second
  renewal.  Fabric makes a replay safe by sending the deadline it recorded, and the
  provisioner renews only a machine that still has it (`main.go:836`).  When the provider
  renewed but Fabric did not record it, a Sync in between, which the control plane's
  reconcile worker sends for every resource, copies the new deadline into the record;
  the replay (`fabric/service.go:431`) sends that one, and the provider renews a second
  month for the one charge.
* `DeniedAtExpiry` (`renewal_liveness.cfg`) - `docs/invariants.md:213` says that at unpaid expiry Workspace access
  is denied and renewal intent is disabled.  `progressWorkspaceRenewalExpiry` sets the phase of the
  operation before it writes it with the suspension (`workspace_renewal.go:1152`, `:1172`), and the pass reads the row again
  whether or not that write failed, going on with the copy it has when the read fails too (`:497`, `:510`).  It then sends the expiry
  receipt and writes phase "complete" without touching the Workspace row (`:1230`); later passes skip the operation (`:449`), and the
  Workspace runs on.  `UnpaidIsSuspended` says that one failure does not suffice, and nothing but failures leads there.
* `GateAtOneInstant` (`ledger_store.cfg`) - the gate reads the policy (`postgres_store.go:612`) and the reviews (`:627`)
  in two statements.  When the policy is superseded and a review recorded in between, it accepts that review by that policy,
  which the store with one mutex (`memory_store.go:396`) does at no instant.
* `docs/runtime/production-runbook.md:433` says that a renewal resumes
  from its persisted phase.  The resolution stores phase "entitlement" before it
  continues (`workspace_renewal.go:652`); when the readback before the entitlement then
  fails, the operation is back in review with that phase, a repeated request skips both
  verifications and is refused as not pending, and one with another key as a conflict.
  The resolution also needs Fabric's record to carry a `renewalResult` (`renewal_worker.go:128`), which a
  renewal that was never recorded lacks.
* `DemandIsRequested` (`pool_safety.cfg` with `Resource = {1}`, `Synced = {}`) - `README.md:73` and
  `pool_allocator_test.go:614` have one machine per allocation.  An allocation whose machine was
  claimed before a crash kept its creation from being recorded is counted as owner and as
  pending (`fabric/pool_allocator.go:191`): a second machine is bought, and later scaled down again.  After
  two failures a creation may also be given up with its ownership row still claimed.
* `ActiveIsKept` (`pool_safety.cfg` with `Resource = {1, 2, 3}`, `Repeated = {}`, `Synced = {}`,
  `MaxFaults = 0`) - a machine in use may be scaled away.  Two creations are cancelled for want of machines, a third scales
  the pool to one, and then the machines of the cancelled ones arrive; it claims one and is active, the pool has one
  too many, and the provider's scale-down chooses which goes.
* `DestroyedHoldsNothing` (`pool_safety.cfg` with `Resource = {1}`, `Machine = {1}`, `Destroyable = {1}`,
  `Repeated = {}`, `MaxFaults = 0`) - a readback reads the quarantined row and asks the provider outside the
  lock (`fabric/service.go:360`); the destruction completes meanwhile, and the readback writes the row back as active.  The
  destroyed allocation keeps the machine's row, and the pool a replica for it.
* `DestroyComputeAllocation` reads `s.computes` before it takes its lock (`fabric/service.go:465`), against
  `DEV_GUIDE.md:138`; a destruction that failed half way is never taken over (`:87`).
* A queued job that was held before shows its last owner when it is read again (`fabric/service.go:1445`), because empty
  fields keep the value of an older entry.
* Recovery may refund a launch whose Workspace row is already active, when both resources
  are found absent (`workspace_launch.go:872`).
* A repeat of a finished rotation reads everything back once more (`workspace_gateway.go:622`).  A read that fails, or a
  later rotation that has replaced the key, turns the succeeded row into `manual_review` (`:401`); nothing sets it back, and it
  blocks every later rotation (`:337`) and the lookup of the Secret (`routes_workspace.go:289`).  A rotation that
  read a key which was deleted before its claim ends there too, and a Fabric Secret write that
  failed stays failed for its key (`fabric/service.go:1217`), so its rotation cannot go on.
* A wallet effect that arrives between the two reads of a recovery ends in `balance_changed` for
  good, although the money moved.

## Not modelled, and why

Console, tools, generated `ent` code, deployment and contract schemas have no
protocol of their own.  They are most of the repository's lines: the generated
`ent` packages alone have 150 000 of 185 000.  Account and session routes, announcements and the
operators' projections are reads or single-row writes in front of Sub2API.  The
Tencent provider is the outside world of Fabric; what matters of the provisioner (the check before a renewal, the pool
reconciliation, scale-down) is in the modules that call it.  The month arithmetic of
`monthly_billing.go` computes from its arguments only and is taken as periods that follow each other.
Transfers are content-addressed: chunks of one digest cannot differ, and a completion
verifies the whole.  Migrations run under a session lock; a crash between a
migration and its journal entry runs it again, and whether that is harmless is a matter of its SQL.

The composition of a launch with the renewal of its Workspace, for the hazards of
`workspace_launch.go:422` and `:1217` (a renewal intent changed between a launch's reads and writes of the
Workspace row), is not built: in `WorkspaceLaunch` the Workspace row is a bit, and `WorkspaceRenewal`
starts from a Workspace in service.

## Plan

1. Compose `WorkspaceLaunch` with the cancellation of `WorkspaceRenewal` over a Workspace row with its fields.
2. `WorkspaceLaunch`'s view of Fabric as a refinement of `RuntimeClaims` and `ComputePool`, and its proof.
3. The month arithmetic as operators checked against a reference calendar.
