---------------------------- MODULE ComputePool ----------------------------
(***************************************************************************)
(* Fabric's allocator of one package's node pool.  Creations are rows of   *)
(* the operation log; a worker holding the pool's advisory lock asks the   *)
(* provider for as many machines as are owned or waited for, claims those  *)
(* that arrive, and gives a creation up when none does.  Destructions,     *)
(* repeated creations and readbacks run beside it, the process may die     *)
(* anywhere, and the provider's answers may be errors or be lost.          *)
(* Resources are numbered in the order they are created.  Records of one   *)
(* answer's evidence are written all or not at all; the node pool's own    *)
(* identity is taken as fixed.                                             *)
(***************************************************************************)
EXTENDS Integers, FiniteSets

CONSTANTS
  Resource,    \* compute allocations 1..n
  Machine,     \* machines 1..m the provider may bring up, in the order of their ids
  Destroyable, \* the allocations that may be destroyed
  Repeated,    \* the allocations whose creation is repeated
  Synced,      \* the allocations that are read back
  Attempts,    \* poolReconcileAttempts
  MaxFaults    \* bound on restarts, failed writes and machines lost outside Fabric

ASSUME PoolAssumption ==
  /\ Resource \subseteq Nat \ {0} /\ IsFiniteSet(Resource)
  /\ Machine \subseteq Nat \ {0} /\ IsFiniteSet(Machine)
  /\ Destroyable \cup Repeated \cup Synced \subseteq Resource
  /\ Attempts \in Nat \ {0} /\ MaxFaults \in Nat

VARIABLES
  ops,      \* what the operation log says of each allocation
  own,      \* the machine ownership row of each allocation
  replicas, \* replicas the node pool is scaled to
  machines, \* machines of the node pool
  born,     \* machines that ever were
  seen,     \* machines a readback returned of a pool that has every machine
            \* in use and is scaled to keep them all
  mem,      \* s.computes
  work,     \* goroutines that wait for the pool lock
  run,      \* the one that holds it
  closing,  \* destructions that left the lock and have yet to be recorded
  ask,      \* destroy requests in progress
  redo,     \* repeated creations in progress
  sync,     \* readbacks in progress
  faults    \* restarts, failed writes and lost machines so far

log == <<ops, own>>
cloud == <<replicas, machines, born, seen>>
process == <<mem, work, run, closing, ask, redo, sync>>
vars == <<ops, own, replicas, machines, born, seen, mem, work, run, closing, ask, redo, sync,
          faults>>

Allocation(status, machine) == [status |-> status, machine |-> machine]
Absent == Allocation("none", 0)
Deleted(a) == a.status = "external_deleted"
Free == [kind |-> "none", of |-> 0, pc |-> "idle", phase |-> "first", try |-> 1, pending |-> {},
         owned |-> {}, demand |-> 0, count |-> 0, free |-> {}, i |-> 1, unknown |-> FALSE,
         err |-> FALSE, left |-> FALSE, todo |-> {}, result |-> Absent]
Rest == [step |-> "idle", compute |-> Absent]

Init ==
  /\ ops = [r \in Resource |-> [create |-> "none", destroy |-> "none", created |-> Absent,
                                compute |-> Absent, bare |-> FALSE, review |-> FALSE]]
  /\ own = [r \in Resource |-> Absent]
  /\ replicas = 0 /\ machines = {} /\ born = {} /\ seen = {}
  /\ mem = [r \in Resource |-> Absent]
  /\ work = {} /\ run = Free
  /\ closing = [r \in Resource |-> Rest] /\ ask = [r \in Resource |-> Rest]
  /\ redo = [r \in Resource |-> Rest] /\ sync = [r \in Resource |-> Rest]
  /\ faults = 0

----------------------------------------------------------------------------
(* What the store holds.                                                   *)

\* Mutant: only machines in use count, not the quarantined ones.
HeldIfInUse == {r \in Resource : own[r].status \in {"claimed", "active"}}

Held == {r \in Resource : own[r].status \in {"claimed", "active", "quarantined"}}

\* pendingComputeOperations
Pending == {r \in Resource : ops[r].create = "started" /\ ops[r].destroy = "none"}

Demand == Cardinality(Held) + Cardinality(Pending)

\* A row of a creation: what it says is also what a restart rebuilds.
Created(r, status, a) ==
  ops' = [ops EXCEPT ![r].create = status, ![r].created = a, ![r].compute = a]

\* A step on which nothing but the provider may fail, and one more fault.
Sound == UNCHANGED faults
Fault == faults < MaxFaults /\ faults' = faults + 1

Nth(S, i) == CHOOSE x \in S : Cardinality({y \in S : y < x}) = i - 1
Busy(kind, r) == <<kind, r>> \in work \/ (run.kind = kind /\ run.of = r)

----------------------------------------------------------------------------
(* CreateComputeAllocation, first called and repeated under its key.       *)

Create(r) ==
  /\ ops[r].create = "none" /\ \A q \in Resource : q < r => ops[q].create # "none"
  /\ Created(r, "started", Allocation("provisioning", 0))
  /\ mem' = [mem EXCEPT ![r] = Allocation("provisioning", 0)]
  /\ work' = work \cup {<<"create", r>>}
  /\ UNCHANGED <<own, run, closing, ask, redo, sync, cloud, faults>>

\* ClaimRuntime returns the creation that stands.
Replay(r) ==
  /\ r \in Repeated /\ redo[r].step = "idle" /\ ops[r].create = "started"
  /\ redo' = [redo EXCEPT ![r] = [step |-> "read", compute |-> ops[r].created]]
  /\ UNCHANGED <<log, cloud, mem, work, run, closing, ask, sync, faults>>

\* startComputeReconcile, with what was read before.
Resume(r) ==
  /\ redo[r].step = "read"
  /\ redo' = [redo EXCEPT ![r] = Rest]
  /\ IF Busy("create", r) THEN UNCHANGED <<mem, work>>
     ELSE /\ mem' = [mem EXCEPT ![r] = redo[r].compute]
          /\ work' = work \cup {<<"create", r>>}
  /\ UNCHANGED <<log, cloud, run, closing, ask, sync, faults>>

Start(w) ==
  /\ w \in work /\ run.kind = "none"
  /\ work' = work \ {w}
  /\ run' = [Free EXCEPT !.kind = w[1], !.of = w[2],
                         !.pc = IF w[1] = "create" THEN "plan" ELSE "destroy"]
  /\ UNCHANGED <<log, cloud, mem, closing, ask, redo, sync, faults>>

----------------------------------------------------------------------------
(* reconcileComputePoolLocked                                              *)

\* The return from it: a creation's worker is done.
Returned(err) ==
  IF run.kind = "create" THEN Free
  ELSE [run EXCEPT !.pc = IF err THEN "fail" ELSE "cancel"]

Attempted(state) == [state EXCEPT !.pending = {}, !.owned = {}, !.demand = 0, !.count = 0,
                                  !.free = {}, !.i = 1]
Again(state) == Attempted([state EXCEPT !.pc = "plan", !.try = @ + 1])

\* Mutant: a creation is tried until the provider answers.
KeepTrying(err, complete, progressed) ==
  IF complete /\ ~err THEN Returned(FALSE) ELSE Attempted([run EXCEPT !.pc = "plan"])

\* After one reconcileComputePoolOnce.
AfterFirst(err, complete, progressed) ==
  LET failed == [run EXCEPT !.unknown = err, !.err = @ \/ err \/ ~progressed]
  IN IF complete /\ ~err THEN Returned(FALSE)
     ELSE IF run.try < Attempts THEN Again(failed)
     ELSE Attempted([failed EXCEPT !.pc = "prepare", !.todo = Pending])

\* Mutant: the cleanup need not be confirmed.
UnconfirmedCleanup(err, complete, progressed) ==
  IF (complete /\ ~err) \/ run.try >= Attempts THEN [run EXCEPT !.pc = "finalize"] ELSE Again(run)

AfterCleanup(err, complete, progressed) ==
  LET left == run.left \/ err \/ ~progressed
  IN IF complete /\ ~err THEN [run EXCEPT !.pc = "finalize"]
     ELSE IF run.try < Attempts THEN Again([run EXCEPT !.left = left])
     ELSE IF left THEN Returned(TRUE)
     ELSE [run EXCEPT !.pc = "finalize"]

After(err, complete, progressed) ==
  IF run.phase = "first" THEN AfterFirst(err, complete, progressed)
  ELSE AfterCleanup(err, complete, progressed)

Plan ==
  /\ run.pc = "plan"
  /\ run' = [run EXCEPT !.pc = "call", !.pending = Pending, !.owned = {own[r].machine : r \in Held},
                        !.demand = Demand]
  /\ UNCHANGED <<log, cloud, mem, work, closing, ask, redo, sync, faults>>

\* recordPoolReconcileEvidence: whether the answer showed no machine.
Evidence(bare) ==
  ops' = [r \in Resource |->
            IF r \in run.pending
            THEN [ops[r] EXCEPT !.bare = bare, !.compute = ops[r].created] ELSE ops[r]]

Call ==
  /\ run.pc = "call"
  /\ replicas' = run.demand
  /\ Evidence(machines = {})
  /\ seen' = IF Cardinality(machines) <= run.demand /\ run.owned \subseteq machines
             THEN seen \cup machines ELSE seen
  /\ run' = [run EXCEPT !.pc = "assign", !.i = 1, !.count = Cardinality(machines),
                        !.free = machines \ run.owned]
  /\ UNCHANGED <<own, machines, born, mem, work, closing, ask, redo, sync, faults>>

\* The call, or the record of its evidence, failed; the pool may be scaled.
CallFails ==
  /\ run.pc = "call"
  /\ replicas' \in {replicas, run.demand}
  /\ (Evidence(TRUE) /\ Sound) \/ (UNCHANGED ops /\ Fault)
  /\ run' = After(TRUE, FALSE, FALSE)
  /\ UNCHANGED <<own, machines, born, seen, mem, work, closing, ask, redo, sync>>

Limit ==
  IF Cardinality(run.free) < Cardinality(run.pending)
  THEN Cardinality(run.free) ELSE Cardinality(run.pending)
Assigning == run.i <= Limit
Taker == Nth(run.pending, run.i)
Candidate == Nth(run.free, run.i)
Skip == run' = [run EXCEPT !.pc = "assign", !.i = @ + 1]
Own(r, status, m) == own' = [own EXCEPT ![r] = Allocation(status, m)]

\* ClaimMachine: resource_id and machine_id are unique.  A row that is held
\* names another machine: its own is not free.
Claim ==
  /\ run.pc = "assign" /\ Assigning
  /\ LET r == Taker
         m == Candidate
         claimed == r \in Held
         conflict == \E q \in Resource \ {r} : own[q].machine = m
     IN \/ /\ ~claimed /\ ~conflict
           /\ Own(r, "claimed", m) /\ run' = [run EXCEPT !.pc = "judge"] /\ Sound
        \/ /\ ((claimed \/ conflict) /\ Sound) \/ Fault
           /\ Skip /\ UNCHANGED own
  /\ UNCHANGED <<ops, cloud, mem, work, closing, ask, redo, sync>>

\* Mutant: the ownership a claim leads to is not saved.
JudgeSilently ==
  /\ run.pc = "judge" /\ Sound
  /\ \/ Candidate \in machines /\ run' = [run EXCEPT !.pc = "succeeded"]
     \/ run' = [run EXCEPT !.pc = "quarantined"]
     \/ Candidate \notin machines /\ Skip
  /\ UNCHANGED <<log, cloud, mem, work, closing, ask, redo, sync>>

\* TagComputeMachine, SyncComputeAllocation and the ownership they lead to.
\* Whether that could be saved only matters to what follows when it was
\* quarantined: then the attempt ends.
Judge ==
  /\ run.pc = "judge"
  /\ LET r == Taker
         m == Candidate
     IN \/ /\ Sound
           /\ \/ m \in machines /\ Own(r, "active", m) /\ run' = [run EXCEPT !.pc = "succeeded"]
              \/ Own(r, "quarantined", m) /\ run' = [run EXCEPT !.pc = "quarantined"]
              \/ m \notin machines /\ Own(r, "released", m) /\ Skip
        \/ Fault /\ UNCHANGED own /\ (Skip \/ run' = After(TRUE, FALSE, FALSE))
  /\ UNCHANGED <<ops, cloud, mem, work, closing, ask, redo, sync>>

RecordAssigned ==
  /\ run.pc \in {"succeeded", "quarantined"}
  /\ LET r == Taker
         a == Allocation(IF run.pc = "succeeded" THEN "running" ELSE "quarantined", Candidate)
     IN \/ /\ Created(r, IF run.pc = "succeeded" THEN "succeeded" ELSE "failed", a)
           /\ mem' = [mem EXCEPT ![r] = a]
           /\ Skip /\ Sound
        \/ Fault /\ run' = After(TRUE, FALSE, FALSE) /\ UNCHANGED <<ops, mem>>
  /\ UNCHANGED <<own, cloud, work, closing, ask, redo, sync>>

\* The end of reconcileComputePoolOnce.
Check ==
  /\ run.pc = "assign" /\ ~Assigning
  /\ run' = After(FALSE, Pending = {} /\ run.count = run.demand, Limit > 0)
  /\ UNCHANGED <<log, cloud, mem, work, closing, ask, redo, sync, faults>>

\* Whether nothing was left at the provider, for certain.
NothingThere(r) == ~run.unknown /\ ops[r].bare

\* preparePendingComputeFailures, one creation.
Prepare(r) ==
  /\ run.pc = "prepare" /\ r \in run.todo
  /\ run' = [run EXCEPT !.todo = @ \ {r}]
  /\ IF own[r].status = "quarantined" THEN
        /\ Created(r, "failed", own[r])
        /\ mem' = [mem EXCEPT ![r] = own[r]]
     ELSE IF NothingThere(r) THEN Created(r, "canceling", ops[r].created) /\ UNCHANGED mem
     ELSE /\ ops' = [ops EXCEPT ![r].review = TRUE, ![r].compute = ops[r].created]
          /\ mem' = [mem EXCEPT ![r] = ops[r].created]
  /\ UNCHANGED <<own, cloud, work, closing, ask, redo, sync, faults>>

Prepared ==
  /\ run.pc = "prepare" /\ run.todo = {}
  /\ run' = [run EXCEPT !.pc = "plan", !.phase = "cleanup", !.try = 1]
  /\ UNCHANGED <<log, cloud, mem, work, closing, ask, redo, sync, faults>>

\* finalizePendingComputeFailures, one creation.
Finalize(r) ==
  /\ run.pc = "finalize" /\ ops[r].create = "canceling"
  /\ LET a == Allocation("failed", ops[r].created.machine)
     IN Created(r, "failed", a) /\ mem' = [mem EXCEPT ![r] = a]
  /\ UNCHANGED <<own, cloud, work, run, closing, ask, redo, sync, faults>>

Finalized ==
  /\ run.pc = "finalize" /\ \A r \in Resource : ops[r].create # "canceling"
  /\ run' = Returned(run.err)
  /\ UNCHANGED <<log, cloud, mem, work, closing, ask, redo, sync, faults>>

\* A record of a failure cannot be written.
RecordFails ==
  /\ \/ run.pc = "prepare" /\ run.todo # {}
     \/ run.pc = "finalize" /\ \E r \in Resource : ops[r].create = "canceling"
  /\ run' = Returned(TRUE) /\ Fault
  /\ UNCHANGED <<log, cloud, mem, work, closing, ask, redo, sync>>

----------------------------------------------------------------------------
(* DestroyComputeAllocation                                                *)

Destroying(r) == Busy("destroy", r) \/ closing[r].step # "idle"

DestroyRead(r) ==
  /\ r \in Destroyable /\ ask[r].step = "idle" /\ mem[r].status # "none"
  /\ ask' = [ask EXCEPT ![r] = [step |-> "read", compute |-> mem[r]]]
  /\ UNCHANGED <<log, cloud, mem, work, run, closing, redo, sync, faults>>

\* Under the lock "compute-destroy".
DestroyLocked(r) ==
  /\ ask[r].step = "read"
  /\ LET a == ask[r].compute
     IN \/ /\ ops[r].destroy \in {"none", "failed"} /\ Sound
           /\ ops' = [ops EXCEPT ![r].destroy = "started"]
           /\ mem' = [mem EXCEPT ![r] = IF Deleted(a) THEN a ELSE Allocation("destroying", a.machine)]
           /\ work' = work \cup {<<"destroy", r>>}
        \/ /\ ops[r].destroy \in {"none", "failed"} /\ Fault
           /\ UNCHANGED <<ops, mem, work>>
        \/ /\ ops[r].destroy \in {"started", "succeeded"} /\ Sound
           /\ work' = IF Destroying(r) \/ ops[r].destroy = "succeeded" THEN work
                      ELSE work \cup {<<"destroy", r>>}
           /\ UNCHANGED <<ops, mem>>
  /\ ask' = [ask EXCEPT ![r] = Rest]
  /\ UNCHANGED <<own, cloud, run, closing, redo, sync>>

Fewer == IF replicas = 0 THEN 0 ELSE replicas - 1

\* finishDestroyComputeAllocation: DeleteClusterMachines takes the replica too.
DestroyMachine ==
  /\ run.pc = "destroy"
  /\ LET a == mem[run.of]
         done == [run EXCEPT !.pc = "release", !.result = Allocation("destroyed", a.machine)]
     IN \/ /\ Deleted(a) \/ a.machine = 0
           /\ run' = done /\ UNCHANGED cloud
        \/ /\ ~Deleted(a) /\ a.machine \in machines
           /\ machines' = machines \ {a.machine} /\ replicas' = Fewer
           /\ run' \in {done, [run EXCEPT !.pc = "fail"]}
           /\ UNCHANGED <<born, seen>>
        \/ /\ Deleted(a) \/ a.machine # 0
           /\ run' = [run EXCEPT !.pc = "fail"] /\ UNCHANGED cloud
  /\ UNCHANGED <<log, mem, work, closing, ask, redo, sync, faults>>

ReleaseOwnership(r) ==
  own' = [own EXCEPT ![r].status = IF @ = "none" THEN @ ELSE "released"]

Release ==
  /\ run.pc = "release"
  /\ \/ ReleaseOwnership(run.of) /\ run' = [run EXCEPT !.pc = "plan"] /\ Sound
     \/ Fault /\ run' = [run EXCEPT !.pc = "fail"] /\ UNCHANGED own
  /\ UNCHANGED <<ops, cloud, mem, work, closing, ask, redo, sync>>

Close(step) ==
  /\ closing' = [closing EXCEPT ![run.of] = [step |-> step, compute |-> run.result]]
  /\ run' = Free

\* Mutant: only a creation still waited for is cancelled.
Cancellable == {"started"}

\* cancelPendingComputeCreation
Unfinished == {"started", "canceling"}
Cancel ==
  /\ run.pc = "cancel"
  /\ \/ /\ ops[run.of].create \in Unfinished /\ Sound
        /\ Created(run.of, "failed", run.result) /\ Close("succeeded")
     \/ ops[run.of].create \in Unfinished /\ Fault /\ Close("failed") /\ UNCHANGED ops
     \/ ops[run.of].create \notin Unfinished /\ Sound /\ Close("succeeded") /\ UNCHANGED ops
  /\ UNCHANGED <<own, cloud, mem, work, ask, redo, sync>>

DestroyFails ==
  /\ run.pc = "fail" /\ Close("failed")
  /\ UNCHANGED <<log, cloud, mem, work, ask, redo, sync, faults>>

\* The outcome is recorded outside the pool lock; a failed write is ignored.
RecordDestroyed(r) ==
  /\ closing[r].step # "idle"
  /\ LET a == closing[r].compute
     IN /\ \/ /\ closing[r].step = "succeeded" /\ Sound
              /\ ops' = [ops EXCEPT ![r].destroy = "succeeded", ![r].compute = a]
           \/ closing[r].step = "failed" /\ Sound /\ ops' = [ops EXCEPT ![r].destroy = "failed"]
           \/ Fault /\ UNCHANGED ops
        /\ mem' = IF closing[r].step = "succeeded" THEN [mem EXCEPT ![r] = a] ELSE mem
  /\ closing' = [closing EXCEPT ![r] = Rest]
  /\ UNCHANGED <<own, cloud, work, run, ask, redo, sync>>

----------------------------------------------------------------------------
(* SyncComputeAllocation takes no lock.                                    *)

Ready(a) == a.status = "running"
SyncGoto(r, step, a) == sync' = [sync EXCEPT ![r] = [step |-> step, compute |-> a]]

\* A creation that has no machine yet is looked up in the log.
SyncRead(r) ==
  /\ r \in Synced /\ sync[r].step = "idle"
  /\ \/ mem[r].machine # 0 /\ SyncGoto(r, "call", mem[r]) /\ UNCHANGED mem
     \/ /\ mem[r] = Allocation("provisioning", 0) /\ ops[r].create = "succeeded"
        /\ mem' = [mem EXCEPT ![r] = ops[r].created]
        /\ SyncGoto(r, "call", ops[r].created)
  /\ UNCHANGED <<log, cloud, work, run, closing, ask, redo, faults>>

Gone(m) == m \notin machines

\* The provider's answer, and the ownership row read after it.
SyncCall(r) ==
  /\ sync[r].step = "call"
  /\ LET a == sync[r].compute
     IN \/ SyncGoto(r, "idle", Absent)
        \/ Gone(a.machine) /\ SyncGoto(r, "release", [a EXCEPT !.status = "external_deleted"])
        \/ a.machine \in machines /\ SyncGoto(r, "record", [a EXCEPT !.status = "stopped"])
        \/ /\ a.machine \in machines
           /\ SyncGoto(r, IF own[r].status = "quarantined" THEN "activate" ELSE "record",
                       [a EXCEPT !.status = "running"])
  /\ UNCHANGED <<log, cloud, mem, work, run, closing, ask, redo, faults>>

\* The row is saved whole, whatever became of it meanwhile.
SyncSave(r) ==
  /\ sync[r].step \in {"release", "activate"}
  /\ \/ /\ IF sync[r].step = "release" THEN ReleaseOwnership(r) ELSE Own(r, "active", own[r].machine)
        /\ SyncGoto(r, "record", sync[r].compute) /\ Sound
     \/ SyncGoto(r, "idle", Absent) /\ UNCHANGED own /\ Fault
  /\ UNCHANGED <<ops, cloud, mem, work, run, closing, ask, redo>>

SyncRecord(r) ==
  /\ sync[r].step = "record"
  /\ \/ /\ ops' = [ops EXCEPT ![r].compute = sync[r].compute]
        /\ mem' = [mem EXCEPT ![r] = sync[r].compute] /\ Sound
     \/ Fault /\ UNCHANGED <<ops, mem>>
  /\ SyncGoto(r, "idle", Absent)
  /\ UNCHANGED <<own, cloud, work, run, closing, ask, redo>>

----------------------------------------------------------------------------
(* The node pool, and the process.                                         *)

\* Which machine a smaller pool gives up is the provider's choice.
Arrive(m) ==
  /\ Cardinality(machines) < replicas /\ m \in Machine \ born
  /\ machines' = machines \cup {m} /\ born' = born \cup {m}
  /\ UNCHANGED <<log, replicas, seen, process, faults>>
Leave(m) ==
  /\ Cardinality(machines) > replicas /\ m \in machines
  /\ machines' = machines \ {m}
  /\ UNCHANGED <<log, replicas, born, seen, process, faults>>
Vanish(m) ==
  /\ m \in machines /\ Fault
  /\ machines' = machines \ {m} /\ replicas' \in {replicas, Fewer}
  /\ UNCHANGED <<log, born, seen, process>>

\* replayResourceState
Crash ==
  /\ Fault
  /\ mem' = [r \in Resource |-> ops[r].compute]
  /\ work' = {} /\ run' = Free
  /\ closing' = [r \in Resource |-> Rest] /\ ask' = [r \in Resource |-> Rest]
  /\ redo' = [r \in Resource |-> Rest] /\ sync' = [r \in Resource |-> Rest]
  /\ UNCHANGED <<log, cloud>>

Reconcile ==
  \/ Plan \/ Call \/ CallFails \/ Claim \/ Judge \/ RecordAssigned \/ Check
  \/ Prepared \/ Finalized \/ RecordFails
  \/ \E r \in Resource : Prepare(r) \/ Finalize(r)
Finish == DestroyMachine \/ Release \/ Cancel \/ DestroyFails

Next ==
  \/ Reconcile \/ Finish \/ Crash
  \/ \E w \in work : Start(w)
  \/ \E r \in Resource :
        \/ Create(r) \/ Replay(r) \/ Resume(r) \/ DestroyRead(r) \/ DestroyLocked(r) \/ RecordDestroyed(r)
        \/ SyncRead(r) \/ SyncCall(r) \/ SyncSave(r) \/ SyncRecord(r)
  \/ \E m \in Machine : Arrive(m) \/ Leave(m) \/ Vanish(m)

Spec == Init /\ [][Next]_vars

\* Workers go on, and callers repeat a creation or a destruction that has
\* not ended.  Nothing is promised of the provider.
Fairness ==
  /\ WF_vars(Reconcile \/ Finish)
  /\ \A r \in Resource :
        /\ SF_vars(Start(<<"create", r>>)) /\ SF_vars(Start(<<"destroy", r>>))
        /\ WF_vars(Replay(r)) /\ WF_vars(Resume(r)) /\ WF_vars(RecordDestroyed(r))
        /\ WF_vars(ops[r].destroy = "started" /\ DestroyRead(r)) /\ WF_vars(DestroyLocked(r))
FairSpec == Spec /\ Fairness

----------------------------------------------------------------------------
Allocations ==
  [status : {"none", "provisioning", "claimed", "active", "running", "quarantined", "failed",
             "destroying", "destroyed", "released", "external_deleted", "stopped"},
   machine : Machine \cup {0}]
Operations ==
  [create : {"none", "started", "canceling", "succeeded", "failed"},
   destroy : {"none", "started", "succeeded", "failed"},
   created : Allocations, compute : Allocations, bare : BOOLEAN, review : BOOLEAN]
Workers ==
  [kind : {"none", "create", "destroy"}, of : Resource \cup {0},
   pc : {"idle", "plan", "call", "assign", "judge", "succeeded", "quarantined", "prepare",
         "finalize", "destroy", "release", "cancel", "fail"},
   phase : {"first", "cleanup"}, try : 1..Attempts, pending : SUBSET Resource,
   owned : SUBSET (Machine \cup {0}), demand : Nat, count : Nat, free : SUBSET Machine,
   i : Nat \ {0}, unknown : BOOLEAN, err : BOOLEAN, left : BOOLEAN, todo : SUBSET Resource,
   result : Allocations]
Waiting(steps) == [Resource -> [step : steps, compute : Allocations]]

\* The log, the ownership rows, the pool and the process keep their shapes,
\* and the pool never counts below nothing.
TypeOK ==
  /\ ops \in [Resource -> Operations] /\ own \in [Resource -> Allocations]
  /\ replicas \in Nat
  /\ machines \subseteq born /\ seen \subseteq born /\ born \subseteq Machine
  /\ mem \in [Resource -> Allocations]
  /\ work \subseteq {"create", "destroy"} \X Resource /\ run \in Workers
  /\ closing \in Waiting({"idle", "succeeded", "failed"})
  /\ ask \in Waiting({"idle", "read"}) /\ redo \in Waiting({"idle", "read"})
  /\ sync \in Waiting({"idle", "call", "release", "activate", "record"})
  /\ faults \in 0..MaxFaults

\* A paid machine that was ever read back as wanted is never scaled away,
\* however the provider's errors and the reconciliations interleave, as long
\* as nothing else fails and nobody asks for a destruction.  (Wanted: no
\* machine in use was missing.  Where one was, see ActiveIsKept.)
SeenIsKept ==
  faults = 0 /\ (\A r \in Resource : ops[r].destroy = "none") => seen \subseteq machines

\* No machine is the machine of two allocations.  As long as nobody asks for
\* a destruction, an ownership row and the record of its creation agree: what
\* succeeded is in use until its machine is released, what failed holds the
\* machine it names or one that is gone, and a row is only released when its
\* machine is gone at the provider.
OwnersAreTrue ==
  /\ \A q, r \in Resource : own[q].machine = own[r].machine /\ own[q].machine # 0 => q = r
  /\ \A r \in Resource : ops[r].destroy = "none" =>
       /\ ops[r].create = "succeeded" =>
            own[r].status \in {"active", "released"} /\ own[r].machine = ops[r].created.machine
       /\ ops[r].create = "failed" /\ r \in Held =>
            own[r].machine = ops[r].created.machine \/ own[r].machine \notin machines
       /\ own[r].status = "released" => own[r].machine \notin machines

\* A destruction that succeeded left no creation open, and holds no machine
\* unless a readback beside it put the row back: see DestroyedHoldsNothing.
DestroyedIsSettled ==
  \A r \in Resource : ops[r].destroy = "succeeded" =>
    /\ ops[r].create \notin {"started", "canceling"}
    /\ r \in Held => r \in Synced

\* A creation reported failed for want of a machine leaves no demand for one
\* behind, unless a machine went meanwhile or a destruction was asked for:
\* none may arrive for nobody.
FailedLeavesNoDemand ==
  [][\A r \in Resource :
       ops[r].create = "canceling" /\ ops'[r].create = "failed"
         => \/ replicas <= Demand
            \/ \E q \in Resource : own[q].status = "released" \/ ops[q].destroy # "none"]_vars

\* A creation that is repeated ends, or waits for an operator's review.
CreationSettles ==
  \A r \in Resource :
    ops[r].create = "started" ~> ops[r].create # "started" \/ ops[r].review \/ ops[r].destroy # "none"

\* Does not hold (README, Known departures).  README.md: one ComputeAllocation
\* is one CVM; no machine is bought that no
\* creation asked for.
DemandIsRequested == replicas <= Cardinality({r \in Resource : ops[r].create # "none"})

\* Does not hold (README, Known departures).  A machine in use is not scaled
\* away while only the provider fails and nobody asks for a destruction.
ActiveIsKept ==
  faults = 0 /\ (\A r \in Resource : ops[r].destroy = "none") =>
    \A r \in Resource : own[r].status = "active" => own[r].machine \in machines

\* Does not hold (README, Known departures).  What was destroyed holds nothing.
DestroyedHoldsNothing == \A r \in Held : ops[r].destroy # "succeeded"
=============================================================================
