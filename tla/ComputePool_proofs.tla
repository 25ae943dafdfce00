------------------------ MODULE ComputePool_proofs ------------------------
(***************************************************************************)
(* The safety properties of ComputePool, for any allocations and machines, *)
(* any number of attempts and any bound on what may fail.                  *)
(***************************************************************************)
EXTENDS ComputePool, FiniteSetTheorems, WellFoundedInduction, TLAPS

----------------------------------------------------------------------------
(* Shapes.                                                                 *)

LEMMA AllocationType ==
  /\ Absent \in Allocations
  /\ \A a \in Allocations : a.machine \in Machine \cup {0}
  /\ \A m \in Machine \cup {0} :
       /\ \A s \in {"none", "provisioning", "claimed", "active", "running", "quarantined",
                    "failed", "destroying", "destroyed", "released", "external_deleted",
                    "stopped"} : Allocation(s, m) \in Allocations
BY DEF Allocations, Absent, Allocation

LEMMA FreeType == Free \in Workers
BY PoolAssumption, AllocationType DEF Free, Workers

LEMMA WorkerFields ==
  ASSUME NEW w \in Workers
  PROVE  /\ w.kind \in {"none", "create", "destroy"} /\ w.of \in Resource \cup {0}
         /\ w.phase \in {"first", "cleanup"} /\ w.try \in 1..Attempts
         /\ w.pending \subseteq Resource /\ w.owned \subseteq Machine \cup {0}
         /\ w.demand \in Nat /\ w.count \in Nat /\ w.free \subseteq Machine
         /\ w.i \in Nat \ {0} /\ w.unknown \in BOOLEAN /\ w.err \in BOOLEAN
         /\ w.left \in BOOLEAN /\ w.todo \subseteq Resource /\ w.result \in Allocations
BY DEF Workers

Pcs == {"idle", "plan", "call", "assign", "judge", "succeeded", "quarantined", "prepare",
        "finalize", "destroy", "release", "cancel", "fail"}

\* What a worker goes on with keeps its shape, whatever changed.
LEMMA WorkerGoesOn ==
  ASSUME NEW w \in Workers
  PROVE  /\ \A pc \in Pcs : [w EXCEPT !.pc = pc] \in Workers
         /\ \A u \in BOOLEAN, e \in BOOLEAN : [w EXCEPT !.unknown = u, !.err = e] \in Workers
         /\ \A l \in BOOLEAN : [w EXCEPT !.left = l] \in Workers
         /\ \A T \in SUBSET Resource :
              /\ [w EXCEPT !.pc = "prepare", !.todo = T] \in Workers
              /\ [w EXCEPT !.todo = T] \in Workers
         /\ w.try < Attempts => [w EXCEPT !.pc = "plan", !.try = @ + 1] \in Workers
         /\ [w EXCEPT !.pc = "assign", !.i = @ + 1] \in Workers
         /\ Attempted(w) \in Workers
<1>1. \A pc \in Pcs : [w EXCEPT !.pc = pc] \in Workers
  BY DEF Workers, Pcs
<1>2. \A u \in BOOLEAN, e \in BOOLEAN : [w EXCEPT !.unknown = u, !.err = e] \in Workers
  BY DEF Workers
<1>3. \A l \in BOOLEAN : [w EXCEPT !.left = l] \in Workers
  BY DEF Workers
<1>4. \A T \in SUBSET Resource :
        /\ [w EXCEPT !.pc = "prepare", !.todo = T] \in Workers
        /\ [w EXCEPT !.todo = T] \in Workers
  BY DEF Workers
<1>5. w.try < Attempts => [w EXCEPT !.pc = "plan", !.try = @ + 1] \in Workers
  <2>1. w.try \in 1..Attempts /\ Attempts \in Nat
    BY PoolAssumption, WorkerFields
  <2>2. w.try < Attempts => w.try + 1 \in 1..Attempts
    BY <2>1
  <2> QED BY <2>2 DEF Workers
<1>6. [w EXCEPT !.pc = "assign", !.i = @ + 1] \in Workers
  <2>1. w.i + 1 \in Nat \ {0}
    BY WorkerFields
  <2> QED BY <2>1 DEF Workers
<1>7. Attempted(w) \in Workers
  <2>1. PICK v : v = [w EXCEPT !.pending = {}, !.owned = {}, !.demand = 0]
    OBVIOUS
  <2>2. v \in Workers
    BY <2>1 DEF Workers
  <2>3. PICK u : u = [v EXCEPT !.count = 0, !.free = {}]
    OBVIOUS
  <2>4. u \in Workers
    BY <2>2, <2>3 DEF Workers
  <2>5. [u EXCEPT !.i = 1] \in Workers
    BY <2>4 DEF Workers
  <2> QED BY <2>1, <2>3, <2>5 DEF Attempted
<1> QED BY <1>1, <1>2, <1>3, <1>4, <1>5, <1>6, <1>7

LEMMA PendingType == Pending \subseteq Resource /\ Held \subseteq Resource
BY DEF Pending, Held

\* What an operation on one row of the log leaves: the row, and the others.
LEMMA RowWritten ==
  ASSUME NEW r \in Resource, ops \in [Resource -> Operations], NEW row \in Operations,
         ops' = [ops EXCEPT ![r] = row]
  PROVE  /\ ops' \in [Resource -> Operations]
         /\ ops'[r] = row
         /\ \A q \in Resource : q # r => ops'[q] = ops[q]
OBVIOUS

LEMMA OperationFields ==
  ASSUME NEW row \in Operations
  PROVE  /\ row.create \in {"none", "started", "canceling", "succeeded", "failed"}
         /\ row.destroy \in {"none", "started", "succeeded", "failed"}
         /\ row.created \in Allocations /\ row.compute \in Allocations
         /\ row.bare \in BOOLEAN /\ row.review \in BOOLEAN
BY DEF Operations

Statuses == {"none", "started", "canceling", "succeeded", "failed"}

LEMMA CreatedShape ==
  ASSUME ops \in [Resource -> Operations], NEW r \in Resource, NEW status \in Statuses,
         NEW a \in Allocations, Created(r, status, a)
  PROVE  /\ ops' \in [Resource -> Operations]
         /\ ops'[r].create = status /\ ops'[r].created = a /\ ops'[r].compute = a
         /\ ops'[r].destroy = ops[r].destroy /\ ops'[r].bare = ops[r].bare
         /\ \A q \in Resource : q # r => ops'[q] = ops[q]
<1>1. PICK o \in Operations : o = ops[r]
  OBVIOUS
<1>2. PICK x : x = [o EXCEPT !.create = status]
  OBVIOUS
<1>3. x \in Operations /\ x.create = status /\ x.destroy = o.destroy /\ x.bare = o.bare
  BY <1>2 DEF Operations, Statuses
<1>4. PICK y : y = [x EXCEPT !.created = a]
  OBVIOUS
<1>5. /\ y \in Operations /\ y.create = status /\ y.created = a
      /\ y.destroy = o.destroy /\ y.bare = o.bare
  BY <1>3, <1>4 DEF Operations
<1>6. PICK z : z = [y EXCEPT !.compute = a]
  OBVIOUS
<1>7. /\ z \in Operations /\ z.create = status /\ z.created = a /\ z.compute = a
      /\ z.destroy = o.destroy /\ z.bare = o.bare
  BY <1>5, <1>6 DEF Operations
<1>8. ops' = [ops EXCEPT ![r] = z]
  BY <1>1, <1>2, <1>4, <1>6 DEF Created
<1> QED BY <1>1, <1>7, <1>8, RowWritten

LEMMA EvidenceShape ==
  ASSUME ops \in [Resource -> Operations], NEW bare \in BOOLEAN, Evidence(bare)
  PROVE  /\ ops' \in [Resource -> Operations]
         /\ \A r \in Resource :
              /\ ops'[r].create = ops[r].create /\ ops'[r].destroy = ops[r].destroy
              /\ ops'[r].created = ops[r].created
              /\ ops'[r].compute \in {ops[r].compute, ops[r].created}
              /\ ops'[r].bare = IF r \in run.pending THEN bare ELSE ops[r].bare
<1>1. ops' = [r \in Resource |-> IF r \in run.pending
                THEN [ops[r] EXCEPT !.bare = bare, !.compute = ops[r].created] ELSE ops[r]]
  BY DEF Evidence
<1>2. ASSUME NEW r \in Resource
      PROVE  LET new == [ops[r] EXCEPT !.bare = bare, !.compute = ops[r].created]
             IN /\ new \in Operations
                /\ new.create = ops[r].create /\ new.destroy = ops[r].destroy
                /\ new.created = ops[r].created /\ new.compute = ops[r].created
                /\ new.bare = bare
  <2>1. PICK o \in Operations : o = ops[r]
    OBVIOUS
  <2>2. o.created \in Allocations
    BY OperationFields
  <2>3. PICK x : x = [o EXCEPT !.bare = bare]
    OBVIOUS
  <2>4. /\ x \in Operations /\ x.bare = bare /\ x.create = o.create
        /\ x.destroy = o.destroy /\ x.created = o.created
    BY <2>3 DEF Operations
  <2>5. PICK y : y = [x EXCEPT !.compute = o.created]
    OBVIOUS
  <2>6. /\ y \in Operations /\ y.bare = bare /\ y.create = o.create
        /\ y.destroy = o.destroy /\ y.created = o.created /\ y.compute = o.created
    BY <2>2, <2>4, <2>5 DEF Operations
  <2>7. y = [ops[r] EXCEPT !.bare = bare, !.compute = ops[r].created]
    BY <2>1, <2>3, <2>5
  <2> QED BY <2>1, <2>6, <2>7
<1> QED BY <1>1, <1>2

LEMMA OwnShape ==
  ASSUME own \in [Resource -> Allocations], NEW r \in Resource, NEW m \in Machine \cup {0},
         NEW status \in {"claimed", "active", "quarantined", "released"}, Own(r, status, m)
  PROVE  /\ own' \in [Resource -> Allocations]
         /\ own'[r] = Allocation(status, m)
         /\ own'[r].status = status /\ own'[r].machine = m
         /\ \A q \in Resource : q # r => own'[q] = own[q]
BY AllocationType DEF Own, Allocation

LEMMA ReleaseShape ==
  ASSUME own \in [Resource -> Allocations], NEW r \in Resource, ReleaseOwnership(r)
  PROVE  /\ own' \in [Resource -> Allocations]
         /\ own'[r].machine = own[r].machine
         /\ own'[r].status \in {"none", "released"}
         /\ own'[r].status = "none" <=> own[r].status = "none"
         /\ \A q \in Resource : q # r => own'[q] = own[q]
BY DEF ReleaseOwnership, Allocations

Put(w, r, s, a) == [w EXCEPT ![r] = [step |-> s, compute |-> a]]

LEMMA WaitingShape ==
  ASSUME NEW steps, NEW w \in Waiting(steps), NEW r \in Resource, NEW s \in steps,
         NEW a \in Allocations, NEW new, new = Put(w, r, s, a)
  PROVE  /\ new \in Waiting(steps)
         /\ new[r].step = s /\ new[r].compute = a
         /\ \A q \in Resource : q # r => new[q] = w[q]
BY DEF Waiting, Put

LEMMA WaitingFields ==
  ASSUME NEW steps, NEW w \in Waiting(steps), NEW r \in Resource
  PROVE  w[r].step \in steps /\ w[r].compute \in Allocations
BY DEF Waiting

Emptied(w, r) == [w EXCEPT ![r] = Rest]

LEMMA RestShape ==
  ASSUME NEW steps, NEW w \in Waiting(steps), NEW r \in Resource, "idle" \in steps,
         NEW new, new = Emptied(w, r)
  PROVE  /\ new \in Waiting(steps)
         /\ new[r].step = "idle" /\ new[r].compute = Absent
         /\ \A q \in Resource : q # r => new[q] = w[q]
BY AllocationType DEF Rest, Waiting, Emptied

LEMMA AllAtRest ==
  ASSUME NEW steps, "idle" \in steps
  PROVE  [r \in Resource |-> Rest] \in Waiting(steps)
BY AllocationType DEF Waiting, Rest

----------------------------------------------------------------------------
(* The steps of a worker.                                                  *)

\* Whose worker it is and what it has come to.
Onward(v, w) == v.kind = w.kind /\ v.of = w.of /\ v.result = w.result

\* It is still busy with the same machines and the same creations.
Keeps(v, w) ==
  /\ Onward(v, w)
  /\ v.pending = w.pending /\ v.owned = w.owned /\ v.demand = w.demand
  /\ v.free = w.free /\ v.unknown = w.unknown /\ v.todo = w.todo

LEMMA MovesOn ==
  ASSUME NEW w \in Workers, NEW pc \in Pcs, NEW v, v = [w EXCEPT !.pc = pc]
  PROVE  v \in Workers /\ v.pc = pc /\ v.i = w.i /\ Keeps(v, w)
<1>1. v \in Workers
  BY WorkerGoesOn
<1>2. v.pc = pc /\ v.i = w.i /\ Keeps(v, w)
  BY DEF Workers, Keeps, Onward
<1> QED BY <1>1, <1>2

LEMMA SkipsOn ==
  ASSUME run \in Workers, Skip
  PROVE  run' \in Workers /\ run'.pc = "assign" /\ run'.i = run.i + 1 /\ Keeps(run', run)
<1>1. PICK w \in Workers : w = run
  OBVIOUS
<1>2. PICK v : v = [w EXCEPT !.pc = "assign", !.i = @ + 1]
  OBVIOUS
<1>3. v \in Workers
  BY <1>2, WorkerGoesOn
<1>4. v.pc = "assign" /\ v.i = w.i + 1 /\ Keeps(v, w)
  BY <1>2 DEF Workers, Keeps, Onward
<1>5. run' = v
  BY <1>1, <1>2 DEF Skip
<1> QED BY <1>1, <1>3, <1>4, <1>5

Planned(w, P, O, d) == [w EXCEPT !.pc = "call", !.pending = P, !.owned = O, !.demand = d]

LEMMA PlansOn ==
  ASSUME NEW w \in Workers, NEW P \in SUBSET Resource, NEW O \in SUBSET (Machine \cup {0}),
         NEW d \in Nat,
         NEW v, v = Planned(w, P, O, d)
  PROVE  /\ v \in Workers /\ v.pc = "call" /\ Onward(v, w)
         /\ v.pending = P /\ v.owned = O /\ v.demand = d
         /\ v.unknown = w.unknown /\ v.todo = w.todo
<1>1. v \in Workers
  BY DEF Planned, Workers
<1>2. /\ v.pc = "call" /\ Onward(v, w)
      /\ v.pending = P /\ v.owned = O /\ v.demand = d
      /\ v.unknown = w.unknown /\ v.todo = w.todo
  BY DEF Planned, Workers, Onward
<1> QED BY <1>1, <1>2

Called(w, n, F) == [w EXCEPT !.pc = "assign", !.i = 1, !.count = n, !.free = F]

LEMMA CallsOn ==
  ASSUME NEW w \in Workers, NEW n \in Nat, NEW F \in SUBSET Machine,
         NEW v, v = Called(w, n, F)
  PROVE  /\ v \in Workers /\ v.pc = "assign" /\ Onward(v, w)
         /\ v.i = 1 /\ v.free = F /\ v.pending = w.pending
         /\ v.owned = w.owned /\ v.demand = w.demand
<1>1. v \in Workers
  <2>1. PICK one \in Nat \ {0} : one = 1
    OBVIOUS
  <2>2. v = [w EXCEPT !.pc = "assign", !.i = one, !.count = n, !.free = F]
    BY <2>1 DEF Called
  <2>3. [w EXCEPT !.pc = "assign", !.i = one, !.count = n, !.free = F] \in Workers
    BY DEF Workers
  <2> QED BY <2>2, <2>3
<1>2. /\ v.pc = "assign" /\ Onward(v, w)
      /\ v.i = 1 /\ v.free = F /\ v.pending = w.pending
      /\ v.owned = w.owned /\ v.demand = w.demand
  BY DEF Called, Workers, Onward
<1> QED BY <1>1, <1>2

Started(kind, r, pc) == [Free EXCEPT !.kind = kind, !.of = r, !.pc = pc]

LEMMA StartsOn ==
  ASSUME NEW kind \in {"create", "destroy"}, NEW r \in Resource, NEW pc \in {"plan", "destroy"},
         NEW v, v = Started(kind, r, pc)
  PROVE  /\ v \in Workers /\ v.kind = kind /\ v.of = r /\ v.pc = pc
         /\ v.pending = {} /\ v.owned = {} /\ v.free = {} /\ v.todo = {} /\ v.result = Absent
<1>1. /\ Free.pending = {} /\ Free.owned = {} /\ Free.free = {} /\ Free.todo = {}
      /\ Free.result = Absent
  BY DEF Free
<1>2. v \in Workers
  BY FreeType DEF Started, Workers
<1>3. /\ v.kind = kind /\ v.of = r /\ v.pc = pc
      /\ v.pending = {} /\ v.owned = {} /\ v.free = {} /\ v.todo = {} /\ v.result = Absent
  BY <1>1, FreeType DEF Started, Workers
<1> QED BY <1>2, <1>3

Removed(w, a) == [w EXCEPT !.pc = "release", !.result = a]

LEMMA DestroysOn ==
  ASSUME NEW w \in Workers, NEW a \in Allocations,
         NEW v, v = Removed(w, a)
  PROVE  /\ v \in Workers /\ v.pc = "release" /\ v.result = a /\ v.kind = w.kind /\ v.of = w.of
         /\ v.pending = w.pending /\ v.owned = w.owned /\ v.free = w.free /\ v.todo = w.todo
<1>1. v \in Workers
  BY DEF Removed, Workers
<1>2. /\ v.pc = "release" /\ v.result = a /\ v.kind = w.kind /\ v.of = w.of
      /\ v.pending = w.pending /\ v.owned = w.owned /\ v.free = w.free /\ v.todo = w.todo
  BY DEF Removed, Workers
<1> QED BY <1>1, <1>2

Remaining(w, T) == [w EXCEPT !.todo = T]

LEMMA PreparesOn ==
  ASSUME NEW w \in Workers, NEW T \in SUBSET Resource, NEW v, v = Remaining(w, T)
  PROVE  /\ v \in Workers /\ v.pc = w.pc /\ Onward(v, w) /\ v.todo = T
         /\ v.pending = w.pending /\ v.owned = w.owned /\ v.free = w.free /\ v.unknown = w.unknown
<1>1. v \in Workers
  BY DEF Remaining, Workers
<1>2. /\ v.pc = w.pc /\ Onward(v, w) /\ v.todo = T
      /\ v.pending = w.pending /\ v.owned = w.owned /\ v.free = w.free /\ v.unknown = w.unknown
  BY DEF Remaining, Workers, Onward
<1> QED BY <1>1, <1>2

Cleaning(w) == [w EXCEPT !.pc = "plan", !.phase = "cleanup", !.try = 1]

LEMMA CleansOn ==
  ASSUME NEW w \in Workers, NEW v, v = Cleaning(w)
  PROVE  v \in Workers /\ v.pc = "plan" /\ v.i = w.i /\ Keeps(v, w)
<1>1. v \in Workers
  <2>1. PICK one \in 1..Attempts : one = 1
    BY PoolAssumption
  <2>2. v = [w EXCEPT !.pc = "plan", !.phase = "cleanup", !.try = one]
    BY <2>1 DEF Cleaning
  <2>3. [w EXCEPT !.pc = "plan", !.phase = "cleanup", !.try = one] \in Workers
    BY DEF Workers
  <2> QED BY <2>2, <2>3
<1>2. v.pc = "plan" /\ v.i = w.i /\ Keeps(v, w)
  BY DEF Cleaning, Workers, Keeps, Onward
<1> QED BY <1>1, <1>2

LEMMA BeginsAgain ==
  ASSUME NEW w \in Workers
  PROVE  LET v == Attempted(w)
         IN v.pc = w.pc /\ Onward(v, w) /\ v.pending = {} /\ v.owned = {} /\ v.free = {}
            /\ v.unknown = w.unknown /\ v.todo = w.todo
BY DEF Workers, Onward, Attempted

Returns(v, w) ==
  \/ w.kind = "create" /\ v = Free
  \/ w.kind # "create" /\ v.pc \in {"cancel", "fail"} /\ v.i = w.i /\ Keeps(v, w)

LEMMA ReturnedShape ==
  ASSUME run \in Workers, NEW e
  PROVE  Returned(e) \in Workers /\ Returns(Returned(e), run)
<1>1. CASE run.kind = "create"
  BY <1>1, FreeType DEF Returned, Returns
<1>2. CASE run.kind # "create"
  <2>1. Returned(e) = [run EXCEPT !.pc = IF e THEN "fail" ELSE "cancel"]
    BY <1>2 DEF Returned
  <2>2. PICK pc \in {"cancel", "fail"} : Returned(e) = [run EXCEPT !.pc = pc]
    BY <2>1
  <2>3. pc \in Pcs
    BY DEF Pcs
  <2> QED BY <1>2, <2>2, <2>3, MovesOn DEF Returns
<1> QED BY <1>1, <1>2

\* How an attempt ends.
Ends(v, w, err) ==
  \/ Returns(v, w)
  \/ v.pc = "plan" /\ Onward(v, w) /\ v.pending = {} /\ v.owned = {} /\ v.free = {}
  \/ /\ v.pc = "prepare" /\ Onward(v, w) /\ v.pending = {} /\ v.owned = {} /\ v.free = {}
     /\ v.todo = Pending /\ v.unknown = err
  \/ v.pc = "finalize" /\ ~err /\ v.i = w.i /\ Keeps(v, w)

LEMMA AgainShape ==
  ASSUME NEW w \in Workers, w.try < Attempts
  PROVE  LET v == Again(w)
         IN v \in Workers /\ v.pc = "plan" /\ Onward(v, w) /\ v.pending = {} /\ v.owned = {} /\ v.free = {}
<1>1. PICK u : u = [w EXCEPT !.pc = "plan", !.try = @ + 1]
  OBVIOUS
<1>2. u \in Workers
  BY <1>1, WorkerGoesOn
<1>3. u.pc = "plan" /\ Onward(u, w)
  BY <1>1 DEF Workers, Onward
<1>4. Again(w) = Attempted(u)
  BY <1>1 DEF Again
<1> QED BY <1>2, <1>3, <1>4, BeginsAgain, WorkerGoesOn DEF Onward

LEMMA AfterShape ==
  ASSUME run \in Workers, NEW err \in BOOLEAN, NEW complete \in BOOLEAN, NEW progressed \in BOOLEAN,
         complete => ~err
  PROVE  LET v == After(err, complete, progressed) IN v \in Workers /\ Ends(v, run, err)
<1>1. PICK failed \in Workers :
        /\ failed = [run EXCEPT !.unknown = err, !.err = @ \/ err \/ ~progressed]
        /\ failed.try = run.try /\ Onward(failed, run) /\ failed.unknown = err
  <2>1. PICK e \in BOOLEAN : e = (run.err \/ err \/ ~progressed)
    BY WorkerFields
  <2>2. [run EXCEPT !.unknown = err, !.err = e] \in Workers
    BY WorkerGoesOn
  <2>3. LET v == [run EXCEPT !.unknown = err, !.err = e]
        IN v.try = run.try /\ Onward(v, run) /\ v.unknown = err
    BY DEF Workers, Onward
  <2> QED BY <2>1, <2>2, <2>3
<1>2. PICK leaving \in Workers :
        /\ leaving = [run EXCEPT !.left = run.left \/ err \/ ~progressed]
        /\ leaving.try = run.try /\ Onward(leaving, run)
  <2>1. PICK l \in BOOLEAN : l = (run.left \/ err \/ ~progressed)
    BY WorkerFields
  <2>2. [run EXCEPT !.left = l] \in Workers
    BY WorkerGoesOn
  <2>3. LET v == [run EXCEPT !.left = l] IN v.try = run.try /\ Onward(v, run)
    BY DEF Workers, Onward
  <2> QED BY <2>1, <2>2, <2>3
<1>3. ASSUME run.try < Attempts
      PROVE  Again(failed) \in Workers /\ Ends(Again(failed), run, err)
  BY <1>1, <1>3, AgainShape DEF Ends, Onward
<1>4. ASSUME run.try < Attempts
      PROVE  Again(leaving) \in Workers /\ Ends(Again(leaving), run, err)
  BY <1>2, <1>4, AgainShape DEF Ends, Onward
<1>5. LET v == Attempted([failed EXCEPT !.pc = "prepare", !.todo = Pending])
      IN v \in Workers /\ Ends(v, run, err)
  <2>1. PICK w : w = [failed EXCEPT !.pc = "prepare", !.todo = Pending]
    OBVIOUS
  <2>2. w \in Workers
    BY <1>1, <2>1, WorkerGoesOn, PendingType
  <2>3. w.pc = "prepare" /\ w.todo = Pending /\ w.unknown = err /\ Onward(w, run)
    BY <1>1, <2>1 DEF Workers, Onward
  <2>4. Attempted(w) \in Workers /\ Ends(Attempted(w), run, err)
    BY <2>2, <2>3, BeginsAgain, WorkerGoesOn DEF Onward, Ends
  <2> QED BY <2>1, <2>4
<1>6. \A e : Returned(e) \in Workers /\ Ends(Returned(e), run, err)
  BY ReturnedShape DEF Ends
<1>7. LET v == AfterFirst(err, complete, progressed) IN v \in Workers /\ Ends(v, run, err)
  <2>1. AfterFirst(err, complete, progressed) =
          IF complete /\ ~err THEN Returned(FALSE)
          ELSE IF run.try < Attempts THEN Again(failed)
          ELSE Attempted([failed EXCEPT !.pc = "prepare", !.todo = Pending])
    BY <1>1 DEF AfterFirst
  <2> QED BY <1>3, <1>5, <1>6, <2>1
<1>8. LET v == AfterCleanup(err, complete, progressed) IN v \in Workers /\ Ends(v, run, err)
  <2>1. [run EXCEPT !.pc = "finalize"] \in Workers
    BY WorkerGoesOn DEF Pcs
  <2>2. ~err => Ends([run EXCEPT !.pc = "finalize"], run, err)
    BY MovesOn DEF Pcs, Ends
  <2>3. AfterCleanup(err, complete, progressed) =
          IF complete /\ ~err THEN [run EXCEPT !.pc = "finalize"]
          ELSE IF run.try < Attempts THEN Again(leaving)
          ELSE IF run.left \/ err \/ ~progressed THEN Returned(TRUE)
          ELSE [run EXCEPT !.pc = "finalize"]
    BY <1>2 DEF AfterCleanup
  <2> QED BY <1>4, <1>6, <2>1, <2>2, <2>3
<1> QED BY <1>7, <1>8 DEF After

----------------------------------------------------------------------------
(* Taking creations and machines in the order of their numbers.            *)

\* A set of numbers that is not empty has a least one.
LEMMA LeastNumber ==
  ASSUME NEW T, T \subseteq Nat, T # {}
  PROVE  \E x \in T : \A y \in T : x <= y
<1>1. PICK x \in T : \A y \in T : ~(<<y, x>> \in OpToRel(<, Nat))
  BY NatLessThanWellFounded, WFMin, Zenon
<1>2. ASSUME NEW y \in T PROVE x <= y
  <2>1. ~(y < x)
    BY <1>1 DEF OpToRel
  <2> QED BY <2>1
<1> QED BY <1>2

Before(S, x) == {y \in S : y < x}

LEMMA BeforeIsFinite ==
  ASSUME NEW S, IsFiniteSet(S), NEW x
  PROVE  IsFiniteSet(Before(S, x)) /\ Cardinality(Before(S, x)) \in Nat
<1>1. Before(S, x) \subseteq S
  BY DEF Before
<1> QED BY <1>1, FS_Subset, FS_CardinalityType

\* Every rank below the size of a set of numbers is that of one of them.
LEMMA EveryRank ==
  ASSUME NEW S, IsFiniteSet(S), S \subseteq Nat, NEW k \in Nat, k < Cardinality(S)
  PROVE  \E x \in S : Cardinality(Before(S, x)) = k
<1> DEFINE Missing == {j \in Nat : j < Cardinality(S) /\ \A x \in S : Cardinality(Before(S, x)) # j}
<1>0. Cardinality(S) \in Nat
  BY FS_CardinalityType
<1>1. SUFFICES ASSUME k \in Missing PROVE FALSE
  OBVIOUS
<1>2. PICK j \in Missing : \A i \in Missing : j <= i
  BY <1>1, LeastNumber
<1>3. j \in Nat /\ j < Cardinality(S) /\ \A x \in S : Cardinality(Before(S, x)) # j
  OBVIOUS
<1>4. CASE j = 0
  <2>1. S # {}
    BY <1>0, <1>3, <1>4, FS_EmptySet
  <2>2. PICK x \in S : \A y \in S : x <= y
    BY <2>1, LeastNumber
  <2>3. Before(S, x) = {}
    <3>1. ASSUME NEW y \in S PROVE ~(y < x)
      <4>1. x <= y /\ x \in Nat /\ y \in Nat
        BY <2>2
      <4> QED BY <4>1
    <3> QED BY <3>1 DEF Before
  <2> QED BY <1>3, <1>4, <2>3, FS_EmptySet
<1>5. CASE j # 0
  <2>1. j - 1 \in Nat /\ j - 1 < Cardinality(S) /\ ~(j <= j - 1)
    BY <1>0, <1>3, <1>5
  <2>2. j - 1 \notin Missing
    BY <1>2, <2>1
  <2>3. PICK x \in S : Cardinality(Before(S, x)) = j - 1
    BY <2>1, <2>2
  <2> HIDE DEF Missing
  <2> DEFINE Upto == Before(S, x) \cup {x}
             Rest2 == S \ Upto
  <2>4. IsFiniteSet(Before(S, x)) /\ x \notin Before(S, x)
    BY BeforeIsFinite DEF Before
  <2>5. IsFiniteSet(Upto) /\ Cardinality(Upto) = j
    <3>1. PICK B : B = Before(S, x)
      OBVIOUS
    <3>2. IsFiniteSet(B \cup {x}) /\ Cardinality(B \cup {x}) = Cardinality(B) + 1
      BY <2>4, <3>1, FS_AddElement
    <3>3. Cardinality(B) = j - 1 /\ (j - 1) + 1 = j
      BY <1>3, <2>3, <3>1
    <3> QED BY <3>1, <3>2, <3>3
  <2>6. Rest2 # {}
    <3>1. SUFFICES ASSUME S \subseteq Upto PROVE FALSE
      OBVIOUS
    <3>2. Cardinality(S) <= j
      BY <2>5, <3>1, FS_Subset
    <3> QED BY <1>0, <1>3, <3>2
  <2>7. PICK z \in Rest2 : \A y \in Rest2 : z <= y
    <3>1. Rest2 \subseteq Nat
      OBVIOUS
    <3> QED BY <2>6, <3>1, LeastNumber
  <2>8. Before(S, z) = Upto
    <3>1. ASSUME NEW y \in S, y < z PROVE y \in Upto
      <4>1. y \in Nat /\ z \in Nat
        OBVIOUS
      <4> QED BY <2>7, <3>1, <4>1
    <3>2. ASSUME NEW y \in Upto PROVE y \in S /\ y < z
      <4>1. z \in Nat /\ x \in Nat /\ z \in S /\ z # x /\ ~(z < x)
        BY DEF Before
      <4>2. x < z
        BY <4>1
      <4>3. y = x \/ (y \in S /\ y \in Nat /\ y < x)
        BY DEF Before
      <4> QED BY <4>1, <4>2, <4>3
    <3> QED BY <3>1, <3>2 DEF Before
  <2> QED BY <1>3, <2>5, <2>8
<1> QED BY <1>4, <1>5

LEMMA NthOfSet ==
  ASSUME NEW S, IsFiniteSet(S), S \subseteq Nat, NEW i \in Nat \ {0}, i <= Cardinality(S)
  PROVE  Nth(S, i) \in S /\ Cardinality(Before(S, Nth(S, i))) = i - 1
<1>1. i - 1 \in Nat /\ i - 1 < Cardinality(S)
  BY FS_CardinalityType
<1>2. \E x \in S : Cardinality(Before(S, x)) = i - 1
  BY <1>1, EveryRank
<1>3. Nth(S, i) = CHOOSE x \in S : Cardinality(Before(S, x)) = i - 1
  BY DEF Nth, Before
<1> QED BY <1>2, <1>3

\* Which creation is served and with which machine.
LEMMA Served ==
  ASSUME run \in Workers, Assigning
  PROVE  /\ Taker \in run.pending /\ Taker \in Resource
         /\ Cardinality(Before(run.pending, Taker)) = run.i - 1
         /\ Candidate \in run.free /\ Candidate \in Machine
         /\ run.free # {}
<1>1. /\ run.i \in Nat \ {0} /\ run.pending \subseteq Resource /\ run.free \subseteq Machine
  BY WorkerFields
<1>2. /\ IsFiniteSet(run.pending) /\ run.pending \subseteq Nat
      /\ IsFiniteSet(run.free) /\ run.free \subseteq Nat
  BY <1>1, PoolAssumption, FS_Subset
<1>3. Cardinality(run.pending) \in Nat /\ Cardinality(run.free) \in Nat
  BY <1>2, FS_CardinalityType
<1>4. run.i <= Cardinality(run.pending) /\ run.i <= Cardinality(run.free)
  BY <1>1, <1>3 DEF Assigning, Limit
<1>5. Taker \in run.pending /\ Cardinality(Before(run.pending, Taker)) = run.i - 1
  BY <1>1, <1>2, <1>4, NthOfSet DEF Taker
<1>6. Candidate \in run.free
  BY <1>1, <1>2, <1>4, NthOfSet DEF Candidate
<1> QED BY <1>1, <1>5, <1>6

----------------------------------------------------------------------------
(* What each step of the worker that holds the pool does.                  *)

Claiming == {"judge", "succeeded", "quarantined"}

\* A machine is being claimed for the creation whose turn it is.
TypeInv == TypeOK /\ (run.pc \in Claiming => Assigning)

LEMMA Types ==
  ASSUME TypeInv
  PROVE  /\ ops \in [Resource -> Operations] /\ own \in [Resource -> Allocations]
         /\ mem \in [Resource -> Allocations] /\ run \in Workers
         /\ replicas \in Nat /\ machines \subseteq born /\ seen \subseteq born /\ born \subseteq Machine
         /\ closing \in Waiting({"idle", "succeeded", "failed"})
         /\ ask \in Waiting({"idle", "read"}) /\ redo \in Waiting({"idle", "read"})
         /\ sync \in Waiting({"idle", "call", "release", "activate", "record"})
         /\ work \subseteq {"create", "destroy"} \X Resource
         /\ faults \in 0..MaxFaults
         /\ IsFiniteSet(machines) /\ Cardinality(machines) \in Nat
         /\ Cardinality(Held) \in Nat /\ Cardinality(Pending) \in Nat /\ Demand \in Nat
<1>1. TypeOK
  BY DEF TypeInv
<1>2. IsFiniteSet(machines)
  <2>1. machines \subseteq Machine
    BY <1>1 DEF TypeOK
  <2> QED BY <2>1, PoolAssumption, FS_Subset
<1>3. IsFiniteSet(Held) /\ IsFiniteSet(Pending)
  BY PendingType, PoolAssumption, FS_Subset
<1>4. /\ Cardinality(machines) \in Nat
      /\ Cardinality(Held) \in Nat /\ Cardinality(Pending) \in Nat
  BY <1>2, <1>3, FS_CardinalityType
<1>5. Demand \in Nat
  BY <1>4 DEF Demand
<1> QED BY <1>1, <1>2, <1>4, <1>5 DEF TypeOK

LEMMA FaultEffect ==
  ASSUME TypeInv
  PROVE  /\ Fault => faults' = faults + 1 /\ faults' <= MaxFaults
         /\ faults <= MaxFaults /\ faults \in Nat
<1>1. faults \in 0..MaxFaults /\ MaxFaults \in Nat
  BY Types, PoolAssumption
<1> QED BY <1>1 DEF Fault

LEMMA PlanEffect ==
  ASSUME TypeInv, Plan
  PROVE  /\ run.pc = "plan" /\ run' \in Workers /\ run'.pc = "call" /\ Onward(run', run)
         /\ run'.pending = Pending /\ run'.owned = {own[r].machine : r \in Held}
         /\ run'.demand = Demand
         /\ UNCHANGED <<ops, own, replicas, machines, born, seen, mem, work, closing, ask, redo,
                        sync, faults>>
<1>1. PICK P \in SUBSET Resource : P = Pending
  BY PendingType
<1>2. PICK O \in SUBSET (Machine \cup {0}) : O = {own[r].machine : r \in Held}
  <2>1. \A r \in Held : own[r].machine \in Machine \cup {0}
    BY Types, PendingType, AllocationType
  <2> QED BY <2>1
<1>3. PICK d \in Nat : d = Demand
  BY Types
<1>4. run' = [run EXCEPT !.pc = "call", !.pending = P, !.owned = O, !.demand = d]
  BY <1>1, <1>2, <1>3 DEF Plan
<1>5. /\ run' \in Workers /\ run'.pc = "call" /\ Onward(run', run)
      /\ run'.pending = P /\ run'.owned = O /\ run'.demand = d
  <2>1. run' = Planned(run, P, O, d)
    BY <1>4 DEF Planned
  <2> QED BY <2>1, Types, PlansOn
<1> QED BY <1>1, <1>2, <1>3, <1>5 DEF Plan, log, cloud

LEMMA CallEffect ==
  ASSUME TypeInv, Call
  PROVE  /\ run.pc = "call" /\ run' \in Workers /\ run'.pc = "assign" /\ Onward(run', run)
         /\ run'.i = 1 /\ run'.free = machines \ run.owned /\ run'.pending = run.pending
         /\ run'.owned = run.owned /\ run'.demand = run.demand
         /\ ops' \in [Resource -> Operations]
         /\ \A r \in Resource :
              /\ ops'[r].create = ops[r].create /\ ops'[r].destroy = ops[r].destroy
              /\ ops'[r].created = ops[r].created
              /\ ops'[r].compute \in {ops[r].compute, ops[r].created}
              /\ ops'[r].bare = IF r \in run.pending THEN machines = {} ELSE ops[r].bare
         /\ replicas' = run.demand
         /\ seen' = IF Cardinality(machines) <= run.demand /\ run.owned \subseteq machines
                    THEN seen \cup machines ELSE seen
         /\ UNCHANGED <<own, machines, born, mem, work, closing, ask, redo, sync, faults>>
<1>1. PICK n \in Nat : n = Cardinality(machines)
  BY Types
<1>2. PICK F \in SUBSET Machine : F = machines \ run.owned
  BY Types
<1>3. run' = [run EXCEPT !.pc = "assign", !.i = 1, !.count = n, !.free = F]
  BY <1>1, <1>2 DEF Call
<1>4. /\ run' \in Workers /\ run'.pc = "assign" /\ Onward(run', run)
      /\ run'.i = 1 /\ run'.free = F /\ run'.pending = run.pending
      /\ run'.owned = run.owned /\ run'.demand = run.demand
  <2>1. run' = Called(run, n, F)
    BY <1>3 DEF Called
  <2> QED BY <2>1, Types, CallsOn
<1>5. PICK b \in BOOLEAN : b = (machines = {})
  OBVIOUS
<1>6. Evidence(b)
  BY <1>5 DEF Call
<1>7. /\ ops' \in [Resource -> Operations]
      /\ \A r \in Resource :
           /\ ops'[r].create = ops[r].create /\ ops'[r].destroy = ops[r].destroy
           /\ ops'[r].created = ops[r].created
           /\ ops'[r].compute \in {ops[r].compute, ops[r].created}
           /\ ops'[r].bare = IF r \in run.pending THEN b ELSE ops[r].bare
  BY <1>6, Types, EvidenceShape
<1> QED BY <1>2, <1>4, <1>5, <1>7 DEF Call

LEMMA CallFailsEffect ==
  ASSUME TypeInv, CallFails
  PROVE  /\ run.pc = "call" /\ run' \in Workers /\ Ends(run', run, TRUE)
         /\ ops' \in [Resource -> Operations]
         /\ \A r \in Resource :
              /\ ops'[r].create = ops[r].create /\ ops'[r].destroy = ops[r].destroy
              /\ ops'[r].created = ops[r].created
              /\ ops'[r].compute \in {ops[r].compute, ops[r].created}
              /\ ops'[r].bare = ops[r].bare \/ r \in run.pending
         /\ replicas' \in {replicas, run.demand}
         /\ faults' \in {faults, faults + 1} /\ faults' <= MaxFaults
         /\ UNCHANGED <<own, machines, born, seen, mem, work, closing, ask, redo, sync>>
<1>1. run' \in Workers /\ Ends(run', run, TRUE)
  BY Types, AfterShape DEF CallFails
<1>2. CASE Evidence(TRUE) /\ Sound
  <2>1. PICK b \in BOOLEAN : b = TRUE
    OBVIOUS
  <2>2. /\ ops' \in [Resource -> Operations]
        /\ \A r \in Resource :
             /\ ops'[r].create = ops[r].create /\ ops'[r].destroy = ops[r].destroy
             /\ ops'[r].created = ops[r].created
             /\ ops'[r].compute \in {ops[r].compute, ops[r].created}
             /\ ops'[r].bare = IF r \in run.pending THEN b ELSE ops[r].bare
    BY <1>2, <2>1, Types, EvidenceShape
  <2>3. faults' = faults /\ faults <= MaxFaults
    BY <1>2, Types, PoolAssumption DEF Sound
  <2> QED BY <1>1, <2>2, <2>3 DEF CallFails
<1>3. CASE UNCHANGED ops /\ Fault
  <2>1. faults' = faults + 1 /\ faults + 1 <= MaxFaults
    BY <1>3, Types, PoolAssumption DEF Fault
  <2> QED BY <1>1, <1>3, <2>1, Types DEF CallFails
<1> QED BY <1>2, <1>3 DEF CallFails

\* A creation takes the machine whose turn it is.
LEMMA ClaimEffect ==
  ASSUME TypeInv, Claim
  PROVE  /\ run.pc = "assign" /\ Assigning
         /\ run' \in Workers /\ Keeps(run', run)
         /\ \/ /\ Taker \notin Held
               /\ \A q \in Resource \ {Taker} : own[q].machine # Candidate
               /\ own'[Taker].status = "claimed" /\ own'[Taker].machine = Candidate
               /\ \A q \in Resource : q # Taker => own'[q] = own[q]
               /\ run'.pc = "judge" /\ run'.i = run.i /\ faults' = faults
            \/ /\ own' = own /\ run'.pc = "assign" /\ run'.i = run.i + 1
               /\ faults' \in {faults, faults + 1}
         /\ own' \in [Resource -> Allocations] /\ faults' <= MaxFaults
         /\ UNCHANGED <<ops, replicas, machines, born, seen, mem, work, closing, ask, redo, sync>>
<1>1. PICK r \in Resource, m \in Machine : r = Taker /\ m = Candidate
  BY Types, Served DEF Claim
<1>2. run \in Workers /\ faults <= MaxFaults /\ own \in [Resource -> Allocations]
  BY Types, PoolAssumption
<1>3. CASE /\ r \notin Held /\ ~(\E q \in Resource \ {r} : own[q].machine = m)
           /\ Own(r, "claimed", m) /\ run' = [run EXCEPT !.pc = "judge"] /\ Sound
  <2>1. /\ own' \in [Resource -> Allocations]
        /\ own'[r].status = "claimed" /\ own'[r].machine = m
        /\ \A q \in Resource : q # r => own'[q] = own[q]
    BY <1>2, <1>3, OwnShape
  <2>2. run' \in Workers /\ run'.pc = "judge" /\ run'.i = run.i /\ Keeps(run', run)
    BY <1>2, <1>3, MovesOn DEF Pcs
  <2> QED BY <1>1, <1>2, <1>3, <2>1, <2>2 DEF Claim, cloud, Sound
<1>4. CASE Skip /\ UNCHANGED own /\ (Sound \/ Fault)
  <2>1. run' \in Workers /\ run'.pc = "assign" /\ run'.i = run.i + 1 /\ Keeps(run', run)
    BY <1>2, <1>4, SkipsOn
  <2>2. faults' \in {faults, faults + 1} /\ faults' <= MaxFaults
    BY <1>2, <1>4, FaultEffect DEF Sound
  <2> QED BY <1>1, <1>2, <1>4, <2>1, <2>2 DEF Claim, cloud
<1> QED BY <1>1, <1>3, <1>4 DEF Claim

\* The provider is asked about it, and the ownership it comes to is saved.
LEMMA JudgeEffect ==
  ASSUME TypeInv, Judge
  PROVE  /\ run.pc = "judge" /\ Assigning /\ run' \in Workers
         /\ \/ /\ own'[Taker].machine = Candidate
               /\ \A q \in Resource : q # Taker => own'[q] = own[q]
               /\ Keeps(run', run) /\ faults' = faults
               /\ \/ own'[Taker].status = "active" /\ run'.pc = "succeeded" /\ run'.i = run.i
                  \/ own'[Taker].status = "quarantined" /\ run'.pc = "quarantined" /\ run'.i = run.i
                  \/ /\ Candidate \notin machines
                     /\ own'[Taker].status = "released" /\ run'.pc = "assign" /\ run'.i = run.i + 1
            \/ /\ own' = own /\ faults' = faults + 1
               /\ \/ Keeps(run', run) /\ run'.pc = "assign" /\ run'.i = run.i + 1
                  \/ Ends(run', run, TRUE)
         /\ own' \in [Resource -> Allocations] /\ faults' <= MaxFaults
         /\ UNCHANGED <<ops, replicas, machines, born, seen, mem, work, closing, ask, redo, sync>>
<1>1. PICK r \in Resource, m \in Machine : r = Taker /\ m = Candidate
  BY Types, Served DEF Judge, TypeInv, Claiming
<1>2. /\ run \in Workers /\ faults <= MaxFaults /\ own \in [Resource -> Allocations]
      /\ run.pc = "judge" /\ Assigning
  BY Types, PoolAssumption DEF Judge, TypeInv, Claiming
<1>3. ASSUME NEW status \in {"active", "quarantined", "released"}, Own(r, status, m), Sound
      PROVE  /\ own' \in [Resource -> Allocations]
             /\ own'[r].status = status /\ own'[r].machine = m
             /\ \A q \in Resource : q # r => own'[q] = own[q]
             /\ faults' = faults /\ faults' <= MaxFaults
  BY <1>2, <1>3, OwnShape DEF Sound
<1>4. CASE Sound /\ m \in machines /\ Own(r, "active", m) /\ run' = [run EXCEPT !.pc = "succeeded"]
  <2>1. run' \in Workers /\ run'.pc = "succeeded" /\ run'.i = run.i /\ Keeps(run', run)
    BY <1>2, <1>4, MovesOn DEF Pcs
  <2> QED BY <1>1, <1>2, <1>3, <1>4, <2>1 DEF Judge, cloud
<1>5. CASE Sound /\ Own(r, "quarantined", m) /\ run' = [run EXCEPT !.pc = "quarantined"]
  <2>1. run' \in Workers /\ run'.pc = "quarantined" /\ run'.i = run.i /\ Keeps(run', run)
    BY <1>2, <1>5, MovesOn DEF Pcs
  <2> QED BY <1>1, <1>2, <1>3, <1>5, <2>1 DEF Judge, cloud
<1>6. CASE Sound /\ m \notin machines /\ Own(r, "released", m) /\ Skip
  <2>1. run' \in Workers /\ run'.pc = "assign" /\ run'.i = run.i + 1 /\ Keeps(run', run)
    BY <1>2, <1>6, SkipsOn
  <2> QED BY <1>1, <1>2, <1>3, <1>6, <2>1 DEF Judge, cloud
<1>7. CASE Fault /\ UNCHANGED own /\ (Skip \/ run' = After(TRUE, FALSE, FALSE))
  <2>1. Skip => run' \in Workers /\ run'.pc = "assign" /\ run'.i = run.i + 1 /\ Keeps(run', run)
    BY <1>2, SkipsOn
  <2>2. run' = After(TRUE, FALSE, FALSE) => run' \in Workers /\ Ends(run', run, TRUE)
    BY <1>2, AfterShape
  <2>3. faults' = faults + 1 /\ faults' <= MaxFaults
    BY <1>7, FaultEffect
  <2> QED BY <1>1, <1>2, <1>7, <2>1, <2>2, <2>3 DEF Judge, cloud
<1> QED BY <1>1, <1>4, <1>5, <1>6, <1>7 DEF Judge

LEMMA RecordAssignedEffect ==
  ASSUME TypeInv, RecordAssigned
  PROVE  /\ run.pc \in {"succeeded", "quarantined"} /\ Assigning /\ run' \in Workers
         /\ \/ /\ ops'[Taker].create = IF run.pc = "succeeded" THEN "succeeded" ELSE "failed"
               /\ ops'[Taker].created.machine = Candidate
               /\ ops'[Taker].compute.machine = Candidate
               /\ ops'[Taker].destroy = ops[Taker].destroy /\ ops'[Taker].bare = ops[Taker].bare
               /\ \A q \in Resource : q # Taker => ops'[q] = ops[q]
               /\ mem'[Taker].machine = Candidate
               /\ \A q \in Resource : q # Taker => mem'[q] = mem[q]
               /\ Keeps(run', run) /\ run'.pc = "assign" /\ run'.i = run.i + 1 /\ faults' = faults
            \/ ops' = ops /\ mem' = mem /\ Ends(run', run, TRUE) /\ faults' = faults + 1
         /\ ops' \in [Resource -> Operations] /\ mem' \in [Resource -> Allocations]
         /\ faults' <= MaxFaults
         /\ UNCHANGED <<own, replicas, machines, born, seen, work, closing, ask, redo, sync>>
<1>1. PICK r \in Resource, m \in Machine : r = Taker /\ m = Candidate
  BY Types, Served DEF RecordAssigned, TypeInv, Claiming
<1>2. /\ run \in Workers /\ faults <= MaxFaults /\ ops \in [Resource -> Operations]
      /\ mem \in [Resource -> Allocations]
      /\ run.pc \in {"succeeded", "quarantined"} /\ Assigning
  BY Types, PoolAssumption DEF RecordAssigned, TypeInv, Claiming
<1>3. PICK a \in Allocations :
        a = Allocation(IF run.pc = "succeeded" THEN "running" ELSE "quarantined", m)
  BY AllocationType
<1>7. a.machine = m
  BY <1>3 DEF Allocation
<1>4. PICK status \in Statuses : status = IF run.pc = "succeeded" THEN "succeeded" ELSE "failed"
  BY DEF Statuses
<1>5. CASE Created(r, status, a) /\ mem' = [mem EXCEPT ![r] = a] /\ Skip /\ Sound
  <2>1. /\ ops' \in [Resource -> Operations]
        /\ ops'[r].create = status /\ ops'[r].created = a /\ ops'[r].compute = a
        /\ ops'[r].destroy = ops[r].destroy /\ ops'[r].bare = ops[r].bare
        /\ \A q \in Resource : q # r => ops'[q] = ops[q]
    BY <1>2, <1>5, CreatedShape
  <2>2. run' \in Workers /\ run'.pc = "assign" /\ run'.i = run.i + 1 /\ Keeps(run', run)
    BY <1>2, <1>5, SkipsOn
  <2>3. /\ mem' \in [Resource -> Allocations] /\ mem'[r].machine = m
        /\ \A q \in Resource : q # r => mem'[q] = mem[q]
    BY <1>2, <1>7, <1>5
  <2> QED BY <1>1, <1>2, <1>3, <1>7, <1>4, <1>5, <2>1, <2>2, <2>3 DEF RecordAssigned, cloud, Sound
<1>6. CASE Fault /\ run' = After(TRUE, FALSE, FALSE) /\ UNCHANGED <<ops, mem>>
  <2>1. run' \in Workers /\ Ends(run', run, TRUE)
    BY <1>2, <1>6, AfterShape
  <2>2. faults' = faults + 1 /\ faults' <= MaxFaults
    BY <1>6, FaultEffect
  <2> QED BY <1>1, <1>2, <1>6, <2>1, <2>2 DEF RecordAssigned, cloud
<1> QED BY <1>1, <1>3, <1>4, <1>5, <1>6 DEF RecordAssigned

LEMMA CheckEffect ==
  ASSUME TypeInv, Check
  PROVE  /\ run.pc = "assign" /\ run' \in Workers /\ Ends(run', run, FALSE)
         /\ UNCHANGED <<ops, own, replicas, machines, born, seen, mem, work, closing, ask, redo,
                        sync, faults>>
<1>1. PICK complete \in BOOLEAN : complete = (Pending = {} /\ run.count = run.demand)
  OBVIOUS
<1>2. PICK progressed \in BOOLEAN : progressed = (Limit > 0)
  <2>1. run.pending \subseteq Resource /\ run.free \subseteq Machine
    BY Types, WorkerFields
  <2>2. IsFiniteSet(run.pending) /\ IsFiniteSet(run.free)
    BY <2>1, PoolAssumption, FS_Subset
  <2>3. Cardinality(run.pending) \in Nat /\ Cardinality(run.free) \in Nat
    BY <2>2, FS_CardinalityType
  <2>4. Limit \in Nat
    BY <2>3 DEF Limit
  <2>5. (Limit > 0) \in BOOLEAN
    BY <2>4
  <2> QED BY <2>5
<1>3. run' = After(FALSE, complete, progressed)
  BY <1>1, <1>2 DEF Check
<1>4. run' \in Workers /\ Ends(run', run, FALSE)
  BY <1>3, Types, AfterShape
<1> QED BY <1>4 DEF Check, log, cloud

LEMMA PrepareEffect ==
  ASSUME TypeInv, NEW r \in Resource, Prepare(r)
  PROVE  /\ run.pc = "prepare" /\ r \in run.todo
         /\ run' \in Workers /\ run'.pc = "prepare" /\ Onward(run', run) /\ run'.todo = run.todo \ {r}
         /\ run'.pending = run.pending /\ run'.owned = run.owned /\ run'.free = run.free
         /\ run'.unknown = run.unknown
         /\ ops' \in [Resource -> Operations] /\ mem' \in [Resource -> Allocations]
         /\ \A q \in Resource : q # r => ops'[q] = ops[q] /\ mem'[q] = mem[q]
         /\ ops'[r].destroy = ops[r].destroy /\ ops'[r].bare = ops[r].bare
         /\ \/ /\ own[r].status = "quarantined"
               /\ ops'[r].create = "failed" /\ ops'[r].created.machine = own[r].machine
               /\ ops'[r].compute.machine = own[r].machine /\ mem'[r].machine = own[r].machine
            \/ /\ own[r].status # "quarantined" /\ ~run.unknown /\ ops[r].bare
               /\ ops'[r].create = "canceling" /\ ops'[r].created = ops[r].created
               /\ ops'[r].compute = ops[r].created /\ mem'[r] = mem[r]
            \/ /\ ops'[r].create = ops[r].create /\ ops'[r].created = ops[r].created
               /\ ops'[r].compute = ops[r].created /\ mem'[r] = ops[r].created
         /\ UNCHANGED <<own, replicas, machines, born, seen, work, closing, ask, redo, sync, faults>>
<1>1. /\ run \in Workers /\ ops \in [Resource -> Operations] /\ own \in [Resource -> Allocations]
      /\ mem \in [Resource -> Allocations] /\ run.todo \subseteq Resource
  BY Types, WorkerFields
<1>2. /\ run' \in Workers /\ run'.pc = run.pc /\ Onward(run', run) /\ run'.todo = run.todo \ {r}
      /\ run'.pending = run.pending /\ run'.owned = run.owned /\ run'.free = run.free
      /\ run'.unknown = run.unknown
  <2>1. PICK T \in SUBSET Resource : T = run.todo \ {r}
    BY <1>1
  <2>2. run' = Remaining(run, T)
    BY <2>1 DEF Prepare, Remaining
  <2> QED BY <1>1, <2>1, <2>2, PreparesOn
<1>3. ops[r].created \in Allocations /\ own[r] \in Allocations /\ ops[r] \in Operations
  BY <1>1, OperationFields
<1>4. /\ run.pc = "prepare" /\ r \in run.todo
      /\ UNCHANGED <<own, replicas, machines, born, seen, work, closing, ask, redo, sync, faults>>
  BY DEF Prepare, cloud
<1>5. CASE own[r].status = "quarantined"
  <2>1. Created(r, "failed", own[r]) /\ mem' = [mem EXCEPT ![r] = own[r]]
    BY <1>5 DEF Prepare
  <2>2. PICK a \in Allocations, status \in Statuses : a = own[r] /\ status = "failed"
    BY <1>3 DEF Statuses
  <2>3. /\ ops' \in [Resource -> Operations]
        /\ ops'[r].create = status /\ ops'[r].created = a /\ ops'[r].compute = a
        /\ ops'[r].destroy = ops[r].destroy /\ ops'[r].bare = ops[r].bare
        /\ \A q \in Resource : q # r => ops'[q] = ops[q]
    BY <1>1, <2>1, <2>2, CreatedShape
  <2>4. /\ mem' \in [Resource -> Allocations] /\ mem'[r] = a
        /\ \A q \in Resource : q # r => mem'[q] = mem[q]
    BY <1>1, <2>1, <2>2
  <2> QED BY <1>2, <1>4, <1>5, <2>2, <2>3, <2>4
<1>6. CASE own[r].status # "quarantined" /\ NothingThere(r)
  <2>1. Created(r, "canceling", ops[r].created) /\ UNCHANGED mem
    BY <1>6 DEF Prepare
  <2>2. PICK a \in Allocations, status \in Statuses : a = ops[r].created /\ status = "canceling"
    BY <1>3 DEF Statuses
  <2>3. /\ ops' \in [Resource -> Operations]
        /\ ops'[r].create = status /\ ops'[r].created = a /\ ops'[r].compute = a
        /\ ops'[r].destroy = ops[r].destroy /\ ops'[r].bare = ops[r].bare
        /\ \A q \in Resource : q # r => ops'[q] = ops[q]
    BY <1>1, <2>1, <2>2, CreatedShape
  <2>4. ~run.unknown /\ ops[r].bare
    BY <1>6 DEF NothingThere
  <2> QED BY <1>1, <1>2, <1>4, <1>6, <2>1, <2>2, <2>3, <2>4
<1>7. CASE own[r].status # "quarantined" /\ ~NothingThere(r)
  <2>1. /\ ops' = [ops EXCEPT ![r].review = TRUE, ![r].compute = ops[r].created]
        /\ mem' = [mem EXCEPT ![r] = ops[r].created]
    BY <1>7 DEF Prepare
  <2>2. PICK o \in Operations, a \in Allocations : o = ops[r] /\ a = ops[r].created
    BY <1>3
  <2>3. PICK row : row = [o EXCEPT !.review = TRUE, !.compute = a]
    OBVIOUS
  <2>4. /\ row \in Operations /\ row.create = o.create /\ row.created = o.created
        /\ row.compute = a /\ row.destroy = o.destroy /\ row.bare = o.bare
    BY <2>3 DEF Operations
  <2>5. ops' = [ops EXCEPT ![r] = row]
    BY <2>1, <2>2, <2>3
  <2>6. /\ ops' \in [Resource -> Operations] /\ ops'[r] = row
        /\ \A q \in Resource : q # r => ops'[q] = ops[q]
    BY <1>1, <2>4, <2>5, RowWritten
  <2>7. /\ mem' \in [Resource -> Allocations] /\ mem'[r] = a
        /\ \A q \in Resource : q # r => mem'[q] = mem[q]
    BY <1>1, <2>1, <2>2
  <2> QED BY <1>2, <1>4, <2>2, <2>4, <2>6, <2>7
<1> QED BY <1>5, <1>6, <1>7

LEMMA PreparedEffect ==
  ASSUME TypeInv, Prepared
  PROVE  /\ run.pc = "prepare" /\ run' \in Workers /\ run'.pc = "plan" /\ Keeps(run', run)
         /\ UNCHANGED <<ops, own, replicas, machines, born, seen, mem, work, closing, ask, redo,
                        sync, faults>>
<1>1. run' = Cleaning(run)
  BY DEF Prepared, Cleaning
<1>2. run' \in Workers /\ run'.pc = "plan" /\ Keeps(run', run)
  BY <1>1, Types, CleansOn
<1> QED BY <1>2 DEF Prepared, log, cloud

LEMMA FinalizeEffect ==
  ASSUME TypeInv, NEW r \in Resource, Finalize(r)
  PROVE  /\ run.pc = "finalize" /\ ops[r].create = "canceling"
         /\ ops' \in [Resource -> Operations] /\ mem' \in [Resource -> Allocations]
         /\ \A q \in Resource : q # r => ops'[q] = ops[q] /\ mem'[q] = mem[q]
         /\ ops'[r].destroy = ops[r].destroy /\ ops'[r].bare = ops[r].bare
         /\ ops'[r].create = "failed" /\ ops'[r].created.machine = ops[r].created.machine
         /\ ops'[r].compute.machine = ops[r].created.machine
         /\ mem'[r].machine = ops[r].created.machine
         /\ UNCHANGED <<own, replicas, machines, born, seen, work, run, closing, ask, redo, sync, faults>>
<1>1. /\ ops \in [Resource -> Operations] /\ mem \in [Resource -> Allocations]
      /\ ops[r].created \in Allocations
  BY Types, OperationFields
<1>2. PICK a \in Allocations : a = Allocation("failed", ops[r].created.machine)
  BY <1>1, AllocationType
<1>3. a.machine = ops[r].created.machine
  BY <1>2 DEF Allocation
<1>4. PICK status \in Statuses : status = "failed"
  BY DEF Statuses
<1>5. Created(r, status, a) /\ mem' = [mem EXCEPT ![r] = a]
  BY <1>2, <1>4 DEF Finalize
<1>6. /\ ops' \in [Resource -> Operations]
      /\ ops'[r].create = status /\ ops'[r].created = a /\ ops'[r].compute = a
      /\ ops'[r].destroy = ops[r].destroy /\ ops'[r].bare = ops[r].bare
      /\ \A q \in Resource : q # r => ops'[q] = ops[q]
  BY <1>1, <1>5, CreatedShape
<1>7. /\ mem' \in [Resource -> Allocations] /\ mem'[r] = a
      /\ \A q \in Resource : q # r => mem'[q] = mem[q]
  BY <1>1, <1>5
<1> QED BY <1>3, <1>4, <1>6, <1>7 DEF Finalize, cloud

LEMMA FinalizedEffect ==
  ASSUME TypeInv, Finalized \/ RecordFails
  PROVE  /\ run.pc \in {"prepare", "finalize"} /\ run' \in Workers /\ Returns(run', run)
         /\ faults' \in {faults, faults + 1} /\ faults' <= MaxFaults
         /\ UNCHANGED <<ops, own, replicas, machines, born, seen, mem, work, closing, ask, redo, sync>>
<1>1. run' \in Workers /\ Returns(run', run)
  BY Types, ReturnedShape DEF Finalized, RecordFails
<1>2. faults' \in {faults, faults + 1} /\ faults' <= MaxFaults
  BY FaultEffect DEF Finalized, RecordFails
<1> QED BY <1>1, <1>2 DEF Finalized, RecordFails, log, cloud

LEMMA StartEffect ==
  ASSUME TypeInv, NEW w \in work, Start(w)
  PROVE  /\ run.kind = "none" /\ run' \in Workers /\ work' = work \ {w}
         /\ w[1] \in {"create", "destroy"} /\ w[2] \in Resource /\ w = <<w[1], w[2]>>
         /\ run'.kind = w[1] /\ run'.of = w[2]
         /\ run'.pc = IF w[1] = "create" THEN "plan" ELSE "destroy"
         /\ run'.pending = {} /\ run'.owned = {} /\ run'.free = {} /\ run'.todo = {}
         /\ run'.result = Absent
         /\ UNCHANGED <<ops, own, replicas, machines, born, seen, mem, closing, ask, redo, sync, faults>>
<1>1. w \in {"create", "destroy"} \X Resource
  BY Types
<1>2. PICK kind \in {"create", "destroy"}, r \in Resource : kind = w[1] /\ r = w[2] /\ w = <<kind, r>>
  BY <1>1
<1>3. PICK pc \in {"plan", "destroy"} : pc = IF kind = "create" THEN "plan" ELSE "destroy"
  OBVIOUS
<1>4. run' = Started(kind, r, pc)
  BY <1>2, <1>3 DEF Start, Started
<1>5. /\ run' \in Workers /\ run'.kind = kind /\ run'.of = r /\ run'.pc = pc
      /\ run'.pending = {} /\ run'.owned = {} /\ run'.free = {} /\ run'.todo = {}
      /\ run'.result = Absent
  BY <1>4, StartsOn
<1> QED BY <1>2, <1>3, <1>5 DEF Start, log, cloud

----------------------------------------------------------------------------
(* What the steps of a destruction do.                                     *)

OfDestruction == run.pc \in {"destroy", "release", "cancel", "fail"} => run.kind = "destroy"
OfResource == run.kind # "none" => run.of \in Resource

LEMMA DestroyMachineEffect ==
  ASSUME TypeInv, DestroyMachine, run.of \in Resource
  PROVE  /\ run.pc = "destroy" /\ run' \in Workers
         /\ \/ run'.pc = "release" /\ run'.result.machine = mem[run.of].machine
            \/ run'.pc = "fail" /\ run'.result = run.result
         /\ run'.kind = run.kind /\ run'.of = run.of /\ run'.pending = run.pending
         /\ run'.owned = run.owned /\ run'.free = run.free /\ run'.todo = run.todo
         /\ machines' \subseteq machines /\ replicas' \in Nat
         /\ UNCHANGED <<ops, own, born, seen, mem, work, closing, ask, redo, sync, faults>>
<1>1. /\ run \in Workers /\ replicas \in Nat /\ mem[run.of] \in Allocations
  BY Types
<1>2. PICK a \in Allocations :
        a = Allocation("destroyed", mem[run.of].machine) /\ a.machine = mem[run.of].machine
  <2>1. Allocation("destroyed", mem[run.of].machine) \in Allocations
    BY <1>1, AllocationType
  <2> QED BY <2>1 DEF Allocation
<1>3. /\ run' \in {Removed(run, a), [run EXCEPT !.pc = "fail"]}
      /\ machines' \subseteq machines /\ replicas' \in {replicas, Fewer}
      /\ run.pc = "destroy"
      /\ UNCHANGED <<ops, own, born, seen, mem, work, closing, ask, redo, sync, faults>>
  BY <1>2 DEF DestroyMachine, Removed, cloud, log
<1>4. Fewer \in Nat
  BY <1>1 DEF Fewer
<1>5. ASSUME run' = Removed(run, a)
      PROVE  /\ run' \in Workers /\ run'.pc = "release" /\ run'.result = a
             /\ run'.kind = run.kind /\ run'.of = run.of /\ run'.pending = run.pending
             /\ run'.owned = run.owned /\ run'.free = run.free /\ run'.todo = run.todo
  BY <1>1, <1>5, DestroysOn
<1>6. ASSUME run' = [run EXCEPT !.pc = "fail"]
      PROVE  run' \in Workers /\ run'.pc = "fail" /\ Keeps(run', run)
  BY <1>1, <1>6, MovesOn DEF Pcs
<1> QED BY <1>1, <1>2, <1>3, <1>4, <1>5, <1>6 DEF Keeps, Onward

LEMMA ReleaseEffect ==
  ASSUME TypeInv, Release, run.of \in Resource
  PROVE  /\ run.pc = "release" /\ run' \in Workers /\ Keeps(run', run)
         /\ own' \in [Resource -> Allocations]
         /\ \A q \in Resource : q # run.of => own'[q] = own[q]
         /\ own'[run.of].machine = own[run.of].machine
         /\ \/ /\ run'.pc = "plan" /\ own'[run.of].status \in {"none", "released"}
               /\ own'[run.of].status = "none" <=> own[run.of].status = "none"
            \/ run'.pc = "fail" /\ own' = own
         /\ faults' \in {faults, faults + 1} /\ faults' <= MaxFaults
         /\ UNCHANGED <<ops, replicas, machines, born, seen, mem, work, closing, ask, redo, sync>>
<1>1. run \in Workers /\ own \in [Resource -> Allocations]
  BY Types
<1>2. CASE ReleaseOwnership(run.of) /\ run' = [run EXCEPT !.pc = "plan"] /\ Sound
  <2>1. run' \in Workers /\ run'.pc = "plan" /\ Keeps(run', run)
    BY <1>1, <1>2, MovesOn DEF Pcs
  <2>2. PICK r \in Resource : r = run.of
    OBVIOUS
  <2>3. /\ own' \in [Resource -> Allocations]
        /\ own'[r].machine = own[r].machine
        /\ own'[r].status \in {"none", "released"}
        /\ own'[r].status = "none" <=> own[r].status = "none"
        /\ \A q \in Resource : q # r => own'[q] = own[q]
    BY <1>1, <1>2, <2>2, ReleaseShape
  <2>4. faults' = faults /\ faults' <= MaxFaults
    BY <1>2, FaultEffect DEF Sound
  <2> QED BY <2>1, <2>2, <2>3, <2>4 DEF Release, cloud
<1>3. CASE Fault /\ run' = [run EXCEPT !.pc = "fail"] /\ UNCHANGED own
  <2>1. run' \in Workers /\ run'.pc = "fail" /\ Keeps(run', run)
    BY <1>1, <1>3, MovesOn DEF Pcs
  <2> QED BY <1>1, <1>3, <2>1, FaultEffect DEF Release, cloud
<1> QED BY <1>2, <1>3 DEF Release

\* The creation is cancelled with the machine of the allocation, if it has not ended.
LEMMA CancelEffect ==
  ASSUME TypeInv, Cancel, run.of \in Resource
  PROVE  /\ run.pc = "cancel" /\ run' = Free
         /\ closing' \in Waiting({"idle", "succeeded", "failed"})
         /\ \A q \in Resource : q # run.of => closing'[q] = closing[q]
         /\ closing'[run.of].step \in {"succeeded", "failed"}
         /\ closing'[run.of].compute = run.result
         /\ ops' \in [Resource -> Operations]
         /\ \A q \in Resource : q # run.of => ops'[q] = ops[q]
         /\ \/ /\ ops[run.of].create \in Unfinished /\ ops'[run.of].create = "failed"
               /\ ops'[run.of].created = run.result /\ ops'[run.of].compute = run.result
               /\ ops'[run.of].destroy = ops[run.of].destroy /\ ops'[run.of].bare = ops[run.of].bare
            \/ ops[run.of].create \in Unfinished /\ closing'[run.of].step = "failed" /\ ops' = ops
            \/ ops[run.of].create \notin Unfinished /\ ops' = ops
         /\ faults' \in {faults, faults + 1} /\ faults' <= MaxFaults
         /\ UNCHANGED <<own, replicas, machines, born, seen, mem, work, ask, redo, sync>>
<1>1. /\ run \in Workers /\ ops \in [Resource -> Operations] /\ run.result \in Allocations
      /\ closing \in Waiting({"idle", "succeeded", "failed"})
  BY Types, WorkerFields
<1>2. PICK r \in Resource, a \in Allocations : r = run.of /\ a = run.result
  BY <1>1
<1>3. PICK steps : steps = {"idle", "succeeded", "failed"}
  OBVIOUS
<1>4. ASSUME NEW s \in {"succeeded", "failed"}, Close(s)
      PROVE  /\ closing' \in Waiting(steps)
             /\ closing'[r].step = s /\ closing'[r].compute = a
             /\ \A q \in Resource : q # r => closing'[q] = closing[q]
             /\ run' = Free
  <2>1. closing' = Put(closing, r, s, a) /\ run' = Free /\ s \in steps
    BY <1>2, <1>3, <1>4 DEF Close, Put
  <2>2. closing \in Waiting(steps)
    BY <1>1, <1>3
  <2> QED BY <2>1, <2>2, WaitingShape
<1>5. /\ run.pc = "cancel"
      /\ UNCHANGED <<own, replicas, machines, born, seen, mem, work, ask, redo, sync>>
  BY DEF Cancel, cloud
<1>7. faults' \in {faults, faults + 1} /\ faults' <= MaxFaults
  BY FaultEffect DEF Cancel, Sound
<1>8. CASE ops[r].create \in Unfinished /\ Created(r, "failed", a) /\ Close("succeeded")
  <2>1. PICK status \in Statuses : status = "failed"
    BY DEF Statuses
  <2>2. /\ ops' \in [Resource -> Operations]
        /\ ops'[r].create = status /\ ops'[r].created = a /\ ops'[r].compute = a
        /\ ops'[r].destroy = ops[r].destroy /\ ops'[r].bare = ops[r].bare
        /\ \A q \in Resource : q # r => ops'[q] = ops[q]
    BY <1>1, <1>8, <2>1, CreatedShape
  <2> QED BY <1>2, <1>3, <1>4, <1>5, <1>7, <1>8, <2>1, <2>2
<1>9. CASE ops[r].create \in Unfinished /\ Close("failed") /\ ops' = ops
  BY <1>1, <1>2, <1>3, <1>4, <1>5, <1>7, <1>9
<1>10. CASE ops[r].create \notin Unfinished /\ Close("succeeded") /\ ops' = ops
  BY <1>1, <1>2, <1>3, <1>4, <1>5, <1>7, <1>10
<1> QED BY <1>2, <1>8, <1>9, <1>10 DEF Cancel

LEMMA DestroyFailsEffect ==
  ASSUME TypeInv, DestroyFails, run.of \in Resource
  PROVE  /\ run.pc = "fail" /\ run' = Free
         /\ closing' \in Waiting({"idle", "succeeded", "failed"})
         /\ \A q \in Resource : q # run.of => closing'[q] = closing[q]
         /\ closing'[run.of].step = "failed" /\ closing'[run.of].compute = run.result
         /\ UNCHANGED <<ops, own, replicas, machines, born, seen, mem, work, ask, redo, sync, faults>>
<1>1. PICK steps : steps = {"idle", "succeeded", "failed"}
  OBVIOUS
<1>2. PICK r \in Resource, a \in Allocations, s \in steps : r = run.of /\ a = run.result /\ s = "failed"
  BY <1>1, Types, WorkerFields
<1>3. closing \in Waiting(steps)
  BY <1>1, Types
<1>4. closing' = Put(closing, r, s, a) /\ run' = Free
  BY <1>2 DEF DestroyFails, Close, Put
<1>5. /\ closing' \in Waiting(steps)
      /\ closing'[r].step = s /\ closing'[r].compute = a
      /\ \A q \in Resource : q # r => closing'[q] = closing[q]
  BY <1>3, <1>4, WaitingShape
<1> QED BY <1>1, <1>2, <1>4, <1>5 DEF DestroyFails, log, cloud

LEMMA RecordDestroyedEffect ==
  ASSUME TypeInv, NEW r \in Resource, RecordDestroyed(r)
  PROVE  /\ closing[r].step \in {"succeeded", "failed"}
         /\ closing' \in Waiting({"idle", "succeeded", "failed"})
         /\ closing'[r].step = "idle" /\ closing'[r].compute = Absent
         /\ \A q \in Resource : q # r => closing'[q] = closing[q]
         /\ ops' \in [Resource -> Operations]
         /\ \A q \in Resource : q # r => ops'[q] = ops[q]
         /\ ops'[r].create = ops[r].create /\ ops'[r].created = ops[r].created
         /\ ops'[r].bare = ops[r].bare
         /\ ops'[r].compute \in {ops[r].compute, closing[r].compute}
         /\ ops'[r].destroy \in {ops[r].destroy, closing[r].step}
         /\ mem' \in [Resource -> Allocations]
         /\ \A q \in Resource : q # r => mem'[q] = mem[q]
         /\ mem'[r] \in {mem[r], closing[r].compute}
         /\ faults' \in {faults, faults + 1} /\ faults' <= MaxFaults
         /\ UNCHANGED <<own, replicas, machines, born, seen, work, run, ask, redo, sync>>
<1>1. PICK steps : steps = {"idle", "succeeded", "failed"}
  OBVIOUS
<1>2. /\ closing \in Waiting(steps) /\ ops \in [Resource -> Operations]
      /\ mem \in [Resource -> Allocations] /\ "idle" \in steps
  BY <1>1, Types
<1>3. closing[r].step \in {"succeeded", "failed"} /\ closing[r].compute \in Allocations
  <2>1. closing[r].step \in steps /\ closing[r].compute \in Allocations
    BY <1>2, WaitingFields
  <2> QED BY <1>1, <2>1 DEF RecordDestroyed
<1>4. /\ closing' \in Waiting(steps)
      /\ closing'[r].step = "idle" /\ closing'[r].compute = Absent
      /\ \A q \in Resource : q # r => closing'[q] = closing[q]
  <2>1. closing' = Emptied(closing, r)
    BY DEF RecordDestroyed, Emptied
  <2> QED BY <1>2, <2>1, RestShape
<1>5. /\ mem' \in [Resource -> Allocations]
      /\ \A q \in Resource : q # r => mem'[q] = mem[q]
      /\ mem'[r] \in {mem[r], closing[r].compute}
  BY <1>2, <1>3 DEF RecordDestroyed
<1>6. faults' \in {faults, faults + 1} /\ faults' <= MaxFaults
  BY FaultEffect DEF RecordDestroyed, Sound
<1>7. PICK o \in Operations, a \in Allocations : o = ops[r] /\ a = closing[r].compute
  BY <1>2, <1>3
<1>8. \E row \in Operations :
        /\ ops' = [ops EXCEPT ![r] = row]
        /\ row.create = o.create /\ row.created = o.created /\ row.bare = o.bare
        /\ row.compute \in {o.compute, a} /\ row.destroy \in {o.destroy, closing[r].step}
  <2>1. CASE closing[r].step = "succeeded"
             /\ ops' = [ops EXCEPT ![r].destroy = "succeeded", ![r].compute = a]
    <3>1. PICK row : row = [o EXCEPT !.destroy = "succeeded", !.compute = a]
      OBVIOUS
    <3>2. /\ row \in Operations /\ row.create = o.create /\ row.created = o.created
          /\ row.bare = o.bare /\ row.compute = a /\ row.destroy = "succeeded"
      BY <3>1 DEF Operations
    <3>3. ops' = [ops EXCEPT ![r] = row]
      BY <1>2, <1>7, <2>1, <3>1
    <3> QED BY <2>1, <3>2, <3>3
  <2>2. CASE closing[r].step = "failed" /\ ops' = [ops EXCEPT ![r].destroy = "failed"]
    <3>1. PICK row : row = [o EXCEPT !.destroy = "failed"]
      OBVIOUS
    <3>2. /\ row \in Operations /\ row.create = o.create /\ row.created = o.created
          /\ row.bare = o.bare /\ row.compute = o.compute /\ row.destroy = "failed"
      BY <3>1 DEF Operations
    <3>3. ops' = [ops EXCEPT ![r] = row]
      BY <1>2, <1>7, <2>2, <3>1
    <3> QED BY <2>2, <3>2, <3>3
  <2>3. CASE ops' = ops
    <3>1. ops' = [ops EXCEPT ![r] = o]
      BY <1>2, <1>7, <2>3
    <3> QED BY <3>1
  <2> QED BY <1>7, <2>1, <2>2, <2>3 DEF RecordDestroyed
<1>9. PICK row \in Operations :
        /\ ops' = [ops EXCEPT ![r] = row]
        /\ row.create = o.create /\ row.created = o.created /\ row.bare = o.bare
        /\ row.compute \in {o.compute, a} /\ row.destroy \in {o.destroy, closing[r].step}
  BY <1>8
<1>10. /\ ops' \in [Resource -> Operations] /\ ops'[r] = row
       /\ \A q \in Resource : q # r => ops'[q] = ops[q]
  BY <1>2, <1>9, RowWritten
<1>11. UNCHANGED <<own, replicas, machines, born, seen, work, run, ask, redo, sync>>
  BY DEF RecordDestroyed, cloud
<1> QED BY <1>1, <1>3, <1>4, <1>5, <1>6, <1>7, <1>9, <1>10, <1>11

LEMMA DestroyReadEffect ==
  ASSUME TypeInv, NEW r \in Resource, DestroyRead(r)
  PROVE  /\ mem[r].status # "none"
         /\ ask' \in Waiting({"idle", "read"})
         /\ ask'[r].compute = mem[r]
         /\ \A q \in Resource : q # r => ask'[q] = ask[q]
         /\ UNCHANGED <<ops, own, replicas, machines, born, seen, mem, work, run, closing, redo,
                        sync, faults>>
<1>1. PICK steps : steps = {"idle", "read"}
  OBVIOUS
<1>2. PICK a \in Allocations, s \in steps : a = mem[r] /\ s = "read"
  BY <1>1, Types
<1>3. ask \in Waiting(steps) /\ ask' = Put(ask, r, s, a)
  BY <1>1, <1>2, Types DEF DestroyRead, Put
<1>4. /\ ask' \in Waiting(steps)
      /\ ask'[r].step = s /\ ask'[r].compute = a
      /\ \A q \in Resource : q # r => ask'[q] = ask[q]
  BY <1>3, WaitingShape
<1> QED BY <1>1, <1>2, <1>4 DEF DestroyRead, log, cloud

LEMMA DestroyLockedEffect ==
  ASSUME TypeInv, NEW r \in Resource, DestroyLocked(r)
  PROVE  /\ ask[r].step = "read"
         /\ ask' \in Waiting({"idle", "read"})
         /\ ask'[r].step = "idle" /\ ask'[r].compute = Absent
         /\ \A q \in Resource : q # r => ask'[q] = ask[q]
         /\ ops' \in [Resource -> Operations]
         /\ \A q \in Resource : q # r => ops'[q] = ops[q]
         /\ ops'[r].create = ops[r].create /\ ops'[r].created = ops[r].created
         /\ ops'[r].bare = ops[r].bare /\ ops'[r].compute = ops[r].compute
         /\ mem' \in [Resource -> Allocations]
         /\ \A q \in Resource : q # r => mem'[q] = mem[q]
         /\ mem'[r].machine \in {mem[r].machine, ask[r].compute.machine}
         /\ work \subseteq work' /\ work' \subseteq work \cup {<<"destroy", r>>}
         /\ \/ /\ ops[r].destroy \in {"none", "failed"} /\ ops'[r].destroy = "started"
               /\ faults' = faults
            \/ ops' = ops /\ mem' = mem /\ work' = work /\ faults' = faults + 1
            \/ /\ ops[r].destroy \in {"started", "succeeded"} /\ ops' = ops /\ mem' = mem
               /\ faults' = faults
         /\ faults' <= MaxFaults
         /\ UNCHANGED <<own, replicas, machines, born, seen, run, closing, redo, sync>>
<1>1. PICK steps : steps = {"idle", "read"}
  OBVIOUS
<1>2. /\ ask \in Waiting(steps) /\ ops \in [Resource -> Operations]
      /\ mem \in [Resource -> Allocations] /\ "idle" \in steps
  BY <1>1, Types
<1>3. ask[r].compute \in Allocations
  BY <1>2, WaitingFields
<1>4. /\ ask' \in Waiting(steps)
      /\ ask'[r].step = "idle" /\ ask'[r].compute = Absent
      /\ \A q \in Resource : q # r => ask'[q] = ask[q]
  <2>1. ask' = Emptied(ask, r)
    BY DEF DestroyLocked, Emptied
  <2> QED BY <1>2, <2>1, RestShape
<1>5. /\ ask[r].step = "read"
      /\ UNCHANGED <<own, replicas, machines, born, seen, run, closing, redo, sync>>
  BY DEF DestroyLocked, cloud
<1>6. CASE /\ ops[r].destroy \in {"none", "failed"} /\ Sound
           /\ ops' = [ops EXCEPT ![r].destroy = "started"]
           /\ mem' = [mem EXCEPT ![r] = IF Deleted(ask[r].compute) THEN ask[r].compute
                                        ELSE Allocation("destroying", ask[r].compute.machine)]
           /\ work' = work \cup {<<"destroy", r>>}
  <2>1. PICK o \in Operations : o = ops[r]
    BY <1>2
  <2>2. PICK row : row = [o EXCEPT !.destroy = "started"]
    OBVIOUS
  <2>3. /\ row \in Operations /\ row.create = o.create /\ row.created = o.created
        /\ row.bare = o.bare /\ row.compute = o.compute /\ row.destroy = "started"
    BY <2>2 DEF Operations
  <2>4. ops' = [ops EXCEPT ![r] = row]
    BY <1>2, <1>6, <2>1, <2>2
  <2>5. /\ ops' \in [Resource -> Operations] /\ ops'[r] = row
        /\ \A q \in Resource : q # r => ops'[q] = ops[q]
    BY <1>2, <2>3, <2>4, RowWritten
  <2>6. PICK a : a = IF Deleted(ask[r].compute) THEN ask[r].compute
                     ELSE Allocation("destroying", ask[r].compute.machine)
    OBVIOUS
  <2>7. a \in Allocations /\ a.machine = ask[r].compute.machine
    BY <1>3, <2>6, AllocationType DEF Allocation
  <2>8. /\ mem' \in [Resource -> Allocations] /\ mem'[r] = a
        /\ \A q \in Resource : q # r => mem'[q] = mem[q]
    BY <1>2, <1>6, <2>6, <2>7
  <2>9. faults' = faults /\ faults' <= MaxFaults
    BY <1>6, FaultEffect DEF Sound
  <2> QED BY <1>1, <1>4, <1>5, <1>6, <2>1, <2>3, <2>5, <2>7, <2>8, <2>9
<1>7. CASE Fault /\ UNCHANGED <<ops, mem, work>>
  BY <1>1, <1>2, <1>4, <1>5, <1>7, FaultEffect
<1>8. CASE /\ ops[r].destroy \in {"started", "succeeded"} /\ Sound
           /\ work' = IF Destroying(r) \/ ops[r].destroy = "succeeded" THEN work
                      ELSE work \cup {<<"destroy", r>>}
           /\ UNCHANGED <<ops, mem>>
  <2>1. work \subseteq work' /\ work' \subseteq work \cup {<<"destroy", r>>}
    BY <1>8
  <2> QED BY <1>1, <1>2, <1>4, <1>5, <1>8, <2>1, FaultEffect DEF Sound
<1> QED BY <1>6, <1>7, <1>8 DEF DestroyLocked

----------------------------------------------------------------------------
(* What the steps of creations, repeated creations and readbacks do.       *)

LEMMA CreateEffect ==
  ASSUME TypeInv, NEW r \in Resource, Create(r)
  PROVE  /\ ops[r].create = "none"
         /\ ops' \in [Resource -> Operations] /\ mem' \in [Resource -> Allocations]
         /\ \A q \in Resource : q # r => ops'[q] = ops[q] /\ mem'[q] = mem[q]
         /\ ops'[r].destroy = ops[r].destroy /\ ops'[r].bare = ops[r].bare
         /\ ops'[r].create = "started" /\ ops'[r].created.machine = 0
         /\ ops'[r].compute.machine = 0 /\ mem'[r].machine = 0
         /\ work' = work \cup {<<"create", r>>}
         /\ UNCHANGED <<own, replicas, machines, born, seen, run, closing, ask, redo, sync, faults>>
<1>1. ops \in [Resource -> Operations] /\ mem \in [Resource -> Allocations]
  BY Types
<1>2. PICK a \in Allocations : a = Allocation("provisioning", 0)
  BY AllocationType
<1>3. a.machine = 0
  BY <1>2 DEF Allocation
<1>4. PICK status \in Statuses : status = "started"
  BY DEF Statuses
<1>5. Created(r, status, a) /\ mem' = [mem EXCEPT ![r] = a]
  BY <1>2, <1>4 DEF Create
<1>6. /\ ops' \in [Resource -> Operations]
      /\ ops'[r].create = status /\ ops'[r].created = a /\ ops'[r].compute = a
      /\ ops'[r].destroy = ops[r].destroy /\ ops'[r].bare = ops[r].bare
      /\ \A q \in Resource : q # r => ops'[q] = ops[q]
  BY <1>1, <1>5, CreatedShape
<1>7. /\ mem' \in [Resource -> Allocations] /\ mem'[r] = a
      /\ \A q \in Resource : q # r => mem'[q] = mem[q]
  BY <1>1, <1>5
<1> QED BY <1>3, <1>4, <1>6, <1>7 DEF Create, cloud

LEMMA ReplayEffect ==
  ASSUME TypeInv, NEW r \in Resource, Replay(r)
  PROVE  /\ ops[r].create = "started" /\ redo' \in Waiting({"idle", "read"})
         /\ redo'[r].compute = ops[r].created
         /\ \A q \in Resource : q # r => redo'[q] = redo[q]
         /\ UNCHANGED <<ops, own, replicas, machines, born, seen, mem, work, run, closing, ask,
                        sync, faults>>
<1>1. PICK steps : steps = {"idle", "read"}
  OBVIOUS
<1>2. PICK a \in Allocations, s \in steps : a = ops[r].created /\ s = "read"
  BY <1>1, Types, OperationFields
<1>3. redo \in Waiting(steps) /\ redo' = Put(redo, r, s, a)
  BY <1>1, <1>2, Types DEF Replay, Put
<1>4. /\ redo' \in Waiting(steps)
      /\ redo'[r].step = s /\ redo'[r].compute = a
      /\ \A q \in Resource : q # r => redo'[q] = redo[q]
  BY <1>3, WaitingShape
<1> QED BY <1>1, <1>2, <1>4 DEF Replay, log, cloud

LEMMA ResumeEffect ==
  ASSUME TypeInv, NEW r \in Resource, Resume(r)
  PROVE  /\ redo[r].step = "read"
         /\ redo' \in Waiting({"idle", "read"}) /\ redo'[r].compute = Absent
         /\ \A q \in Resource : q # r => redo'[q] = redo[q]
         /\ mem' \in [Resource -> Allocations] /\ mem'[r] \in {mem[r], redo[r].compute}
         /\ \A q \in Resource : q # r => mem'[q] = mem[q]
         /\ work \subseteq work' /\ work' \subseteq work \cup {<<"create", r>>}
         /\ UNCHANGED <<ops, own, replicas, machines, born, seen, run, closing, ask, sync, faults>>
<1>1. PICK steps : steps = {"idle", "read"}
  OBVIOUS
<1>2. redo \in Waiting(steps) /\ "idle" \in steps /\ mem \in [Resource -> Allocations]
  BY <1>1, Types
<1>3. redo[r].compute \in Allocations
  BY <1>2, WaitingFields
<1>4. /\ redo' \in Waiting(steps)
      /\ redo'[r].step = "idle" /\ redo'[r].compute = Absent
      /\ \A q \in Resource : q # r => redo'[q] = redo[q]
  <2>1. redo' = Emptied(redo, r)
    BY DEF Resume, Emptied
  <2> QED BY <1>2, <2>1, RestShape
<1>5. /\ mem' \in [Resource -> Allocations] /\ mem'[r] \in {mem[r], redo[r].compute}
      /\ \A q \in Resource : q # r => mem'[q] = mem[q]
      /\ work \subseteq work' /\ work' \subseteq work \cup {<<"create", r>>}
  <2>1. CASE UNCHANGED <<mem, work>>
    BY <1>2, <2>1
  <2>2. CASE mem' = [mem EXCEPT ![r] = redo[r].compute] /\ work' = work \cup {<<"create", r>>}
    BY <1>2, <1>3, <2>2
  <2> QED BY <2>1, <2>2 DEF Resume
<1> QED BY <1>1, <1>4, <1>5 DEF Resume, log, cloud

SyncSteps == {"idle", "call", "release", "activate", "record"}

LEMMA SyncGotoShape ==
  ASSUME sync \in Waiting(SyncSteps), NEW r \in Resource, NEW s \in SyncSteps,
         NEW a \in Allocations, SyncGoto(r, s, a)
  PROVE  /\ sync' \in Waiting(SyncSteps)
         /\ sync'[r].step = s /\ sync'[r].compute = a
         /\ \A q \in Resource : q # r => sync'[q] = sync[q]
<1>1. sync' = Put(sync, r, s, a)
  BY DEF SyncGoto, Put
<1> QED BY <1>1, WaitingShape

LEMMA SyncFields ==
  ASSUME TypeInv, NEW r \in Resource
  PROVE  /\ sync \in Waiting(SyncSteps) /\ sync[r].step \in SyncSteps
         /\ sync[r].compute \in Allocations
<1>1. sync \in Waiting(SyncSteps)
  BY Types DEF SyncSteps
<1> QED BY <1>1, WaitingFields

\* A readback of r leaves those of the others alone.
SyncOnly(r) == \A q \in Resource : q # r => sync'[q] = sync[q]

LEMMA SyncReadEffect ==
  ASSUME TypeInv, NEW r \in Resource, SyncRead(r)
  PROVE  /\ r \in Synced
         /\ sync' \in Waiting(SyncSteps) /\ SyncOnly(r) /\ sync'[r].step = "call"
         /\ mem' \in [Resource -> Allocations]
         /\ \A q \in Resource : q # r => mem'[q] = mem[q]
         /\ \/ mem[r].machine # 0 /\ sync'[r].compute = mem[r] /\ mem' = mem
            \/ /\ ops[r].create = "succeeded" /\ mem'[r] = ops[r].created
               /\ sync'[r].compute = ops[r].created
         /\ UNCHANGED <<ops, own, replicas, machines, born, seen, work, run, closing, ask, redo, faults>>
<1>1. /\ sync \in Waiting(SyncSteps) /\ mem \in [Resource -> Allocations]
      /\ mem[r] \in Allocations /\ ops[r].created \in Allocations
  BY SyncFields, Types, OperationFields
<1>2. PICK s \in SyncSteps : s = "call"
  BY DEF SyncSteps
<1>3. CASE mem[r].machine # 0 /\ SyncGoto(r, "call", mem[r]) /\ UNCHANGED mem
  <2>1. PICK a \in Allocations : a = mem[r]
    BY <1>1
  <2>2. /\ sync' \in Waiting(SyncSteps)
        /\ sync'[r].step = s /\ sync'[r].compute = a
        /\ \A q \in Resource : q # r => sync'[q] = sync[q]
    BY <1>1, <1>2, <1>3, <2>1, SyncGotoShape
  <2> QED BY <1>1, <1>2, <1>3, <2>1, <2>2 DEF SyncRead, SyncOnly, log, cloud
<1>4. CASE /\ ops[r].create = "succeeded" /\ mem' = [mem EXCEPT ![r] = ops[r].created]
           /\ SyncGoto(r, "call", ops[r].created)
  <2>1. PICK a \in Allocations : a = ops[r].created
    BY <1>1
  <2>2. /\ sync' \in Waiting(SyncSteps)
        /\ sync'[r].step = s /\ sync'[r].compute = a
        /\ \A q \in Resource : q # r => sync'[q] = sync[q]
    BY <1>1, <1>2, <1>4, <2>1, SyncGotoShape
  <2> QED BY <1>1, <1>2, <1>4, <2>1, <2>2 DEF SyncRead, SyncOnly, log, cloud
<1> QED BY <1>3, <1>4 DEF SyncRead

LEMMA SyncCallEffect ==
  ASSUME TypeInv, NEW r \in Resource, SyncCall(r)
  PROVE  /\ sync[r].step = "call"
         /\ sync' \in Waiting(SyncSteps) /\ SyncOnly(r)
         /\ \/ sync'[r].step = "idle"
            \/ /\ sync'[r].step \in {"release", "record", "activate"}
               /\ sync'[r].compute.machine = sync[r].compute.machine
               /\ sync'[r].step = "release" => sync[r].compute.machine \notin machines
               /\ sync'[r].step = "activate" => own[r].status = "quarantined"
         /\ UNCHANGED <<ops, own, replicas, machines, born, seen, mem, work, run, closing, ask,
                        redo, faults>>
<1>1. PICK a \in Allocations : a = sync[r].compute
  BY SyncFields
<1>2. ASSUME NEW status \in {"external_deleted", "stopped", "running"}
      PROVE  [a EXCEPT !.status = status] \in Allocations /\ [a EXCEPT !.status = status].machine = a.machine
  BY DEF Allocations
<1>3. sync[r].step = "call"
      /\ UNCHANGED <<ops, own, replicas, machines, born, seen, mem, work, run, closing, ask,
                     redo, faults>>
  BY DEF SyncCall, log, cloud
<1>4. ASSUME NEW s \in SyncSteps, NEW b \in Allocations, SyncGoto(r, s, b)
      PROVE  /\ sync' \in Waiting(SyncSteps) /\ SyncOnly(r)
             /\ sync'[r].step = s /\ sync'[r].compute = b
  BY <1>4, SyncFields, SyncGotoShape DEF SyncOnly
<1>5. CASE SyncGoto(r, "idle", Absent)
  <2>1. PICK s \in SyncSteps, b \in Allocations : s = "idle" /\ b = Absent
    BY AllocationType DEF SyncSteps
  <2> QED BY <1>3, <1>4, <1>5, <2>1
<1>6. CASE Gone(a.machine) /\ SyncGoto(r, "release", [a EXCEPT !.status = "external_deleted"])
  <2>1. PICK s \in SyncSteps, b \in Allocations :
          s = "release" /\ b = [a EXCEPT !.status = "external_deleted"]
    BY <1>2 DEF SyncSteps
  <2> QED BY <1>1, <1>2, <1>3, <1>4, <1>6, <2>1 DEF Gone
<1>7. CASE SyncGoto(r, "record", [a EXCEPT !.status = "stopped"])
  <2>1. PICK s \in SyncSteps, b \in Allocations : s = "record" /\ b = [a EXCEPT !.status = "stopped"]
    BY <1>2 DEF SyncSteps
  <2> QED BY <1>1, <1>2, <1>3, <1>4, <1>7, <2>1
<1>8. CASE SyncGoto(r, IF own[r].status = "quarantined" THEN "activate" ELSE "record",
                    [a EXCEPT !.status = "running"])
  <2>1. PICK s \in SyncSteps, b \in Allocations :
          /\ s = IF own[r].status = "quarantined" THEN "activate" ELSE "record"
          /\ b = [a EXCEPT !.status = "running"]
    BY <1>2 DEF SyncSteps
  <2> QED BY <1>1, <1>2, <1>3, <1>4, <1>8, <2>1
<1> QED BY <1>1, <1>5, <1>6, <1>7, <1>8 DEF SyncCall

LEMMA SyncSaveEffect ==
  ASSUME TypeInv, NEW r \in Resource, SyncSave(r)
  PROVE  /\ sync[r].step \in {"release", "activate"}
         /\ sync' \in Waiting(SyncSteps) /\ SyncOnly(r)
         /\ own' \in [Resource -> Allocations]
         /\ \A q \in Resource : q # r => own'[q] = own[q]
         /\ own'[r].machine = own[r].machine
         /\ \/ /\ sync[r].step = "release" /\ own'[r].status \in {"none", "released"}
               /\ own'[r].status = "none" <=> own[r].status = "none"
               /\ sync'[r].step = "record" /\ sync'[r].compute = sync[r].compute
            \/ /\ sync[r].step = "activate" /\ own'[r].status = "active"
               /\ sync'[r].step = "record" /\ sync'[r].compute = sync[r].compute
            \/ own' = own /\ sync'[r].step = "idle"
         /\ faults' \in {faults, faults + 1} /\ faults' <= MaxFaults
         /\ UNCHANGED <<ops, replicas, machines, born, seen, mem, work, run, closing, ask, redo>>
<1>1. /\ own \in [Resource -> Allocations] /\ own[r].machine \in Machine \cup {0}
      /\ sync[r].compute \in Allocations
  BY Types, SyncFields, AllocationType
<1>2. ASSUME NEW s \in SyncSteps, NEW b \in Allocations, SyncGoto(r, s, b)
      PROVE  /\ sync' \in Waiting(SyncSteps) /\ SyncOnly(r)
             /\ sync'[r].step = s /\ sync'[r].compute = b
  BY <1>2, SyncFields, SyncGotoShape DEF SyncOnly
<1>3. /\ sync[r].step \in {"release", "activate"}
      /\ faults' \in {faults, faults + 1} /\ faults' <= MaxFaults
      /\ UNCHANGED <<ops, replicas, machines, born, seen, mem, work, run, closing, ask, redo>>
  BY FaultEffect DEF SyncSave, Sound, cloud
<1>4. PICK a \in Allocations, s \in SyncSteps : a = sync[r].compute /\ s = "record"
  BY <1>1 DEF SyncSteps
<1>5. CASE sync[r].step = "release" /\ ReleaseOwnership(r) /\ SyncGoto(r, "record", sync[r].compute)
  <2>1. /\ own' \in [Resource -> Allocations]
        /\ own'[r].machine = own[r].machine
        /\ own'[r].status \in {"none", "released"}
        /\ own'[r].status = "none" <=> own[r].status = "none"
        /\ \A q \in Resource : q # r => own'[q] = own[q]
    BY <1>1, <1>5, ReleaseShape
  <2> QED BY <1>2, <1>3, <1>4, <1>5, <2>1
<1>6. CASE /\ sync[r].step = "activate" /\ Own(r, "active", own[r].machine)
           /\ SyncGoto(r, "record", sync[r].compute)
  <2>1. PICK m \in Machine \cup {0} : m = own[r].machine
    BY <1>1
  <2>2. PICK status \in {"claimed", "active", "quarantined", "released"} : status = "active"
    OBVIOUS
  <2>3. /\ own' \in [Resource -> Allocations]
        /\ own'[r].status = status /\ own'[r].machine = m
        /\ \A q \in Resource : q # r => own'[q] = own[q]
    BY <1>1, <1>6, <2>1, <2>2, OwnShape
  <2> QED BY <1>2, <1>3, <1>4, <1>6, <2>1, <2>2, <2>3
<1>7. CASE SyncGoto(r, "idle", Absent) /\ UNCHANGED own
  <2>1. PICK z \in SyncSteps, b \in Allocations : z = "idle" /\ b = Absent
    BY AllocationType DEF SyncSteps
  <2> QED BY <1>1, <1>2, <1>3, <1>7, <2>1
<1> QED BY <1>3, <1>5, <1>6, <1>7 DEF SyncSave

LEMMA SyncRecordEffect ==
  ASSUME TypeInv, NEW r \in Resource, SyncRecord(r)
  PROVE  /\ sync[r].step = "record"
         /\ sync' \in Waiting(SyncSteps) /\ SyncOnly(r) /\ sync'[r].step = "idle"
         /\ ops' \in [Resource -> Operations]
         /\ \A q \in Resource : q # r => ops'[q] = ops[q]
         /\ ops'[r].create = ops[r].create /\ ops'[r].created = ops[r].created
         /\ ops'[r].bare = ops[r].bare /\ ops'[r].destroy = ops[r].destroy
         /\ ops'[r].compute \in {ops[r].compute, sync[r].compute}
         /\ mem' \in [Resource -> Allocations]
         /\ \A q \in Resource : q # r => mem'[q] = mem[q]
         /\ mem'[r] \in {mem[r], sync[r].compute}
         /\ faults' \in {faults, faults + 1} /\ faults' <= MaxFaults
         /\ UNCHANGED <<own, replicas, machines, born, seen, work, run, closing, ask, redo>>
<1>1. /\ ops \in [Resource -> Operations] /\ mem \in [Resource -> Allocations]
      /\ sync[r].compute \in Allocations
  BY Types, SyncFields
<1>2. sync' \in Waiting(SyncSteps) /\ SyncOnly(r) /\ sync'[r].step = "idle"
  <2>1. PICK z \in SyncSteps, b \in Allocations : z = "idle" /\ b = Absent
    BY AllocationType DEF SyncSteps
  <2>2. SyncGoto(r, z, b)
    BY <2>1 DEF SyncRecord
  <2> QED BY <2>1, <2>2, SyncFields, SyncGotoShape DEF SyncOnly
<1>3. /\ sync[r].step = "record"
      /\ faults' \in {faults, faults + 1} /\ faults' <= MaxFaults
      /\ UNCHANGED <<own, replicas, machines, born, seen, work, run, closing, ask, redo>>
  BY FaultEffect DEF SyncRecord, Sound, cloud
<1>4. CASE /\ ops' = [ops EXCEPT ![r].compute = sync[r].compute]
           /\ mem' = [mem EXCEPT ![r] = sync[r].compute]
  <2>1. PICK o \in Operations, a \in Allocations : o = ops[r] /\ a = sync[r].compute
    BY <1>1
  <2>2. PICK row : row = [o EXCEPT !.compute = a]
    OBVIOUS
  <2>3. /\ row \in Operations /\ row.create = o.create /\ row.created = o.created
        /\ row.bare = o.bare /\ row.destroy = o.destroy /\ row.compute = a
    BY <2>2 DEF Operations
  <2>4. ops' = [ops EXCEPT ![r] = row]
    BY <1>1, <1>4, <2>1, <2>2
  <2>5. /\ ops' \in [Resource -> Operations] /\ ops'[r] = row
        /\ \A q \in Resource : q # r => ops'[q] = ops[q]
    BY <1>1, <2>3, <2>4, RowWritten
  <2>6. /\ mem' \in [Resource -> Allocations] /\ mem'[r] = a
        /\ \A q \in Resource : q # r => mem'[q] = mem[q]
    BY <1>1, <1>4, <2>1
  <2> QED BY <1>2, <1>3, <2>1, <2>3, <2>5, <2>6
<1>5. CASE UNCHANGED <<ops, mem>>
  BY <1>1, <1>2, <1>3, <1>5
<1> QED BY <1>4, <1>5 DEF SyncRecord

LEMMA CrashEffect ==
  ASSUME TypeInv, Crash
  PROVE  /\ mem' \in [Resource -> Allocations] /\ \A r \in Resource : mem'[r] = ops[r].compute
         /\ work' = {} /\ run' = Free
         /\ closing' \in Waiting({"idle", "succeeded", "failed"})
         /\ ask' \in Waiting({"idle", "read"}) /\ redo' \in Waiting({"idle", "read"})
         /\ sync' \in Waiting(SyncSteps)
         /\ \A r \in Resource :
              /\ closing'[r].step = "idle" /\ closing'[r].compute = Absent
              /\ ask'[r].step = "idle" /\ ask'[r].compute = Absent
              /\ redo'[r].step = "idle" /\ redo'[r].compute = Absent
              /\ sync'[r].step = "idle"
         /\ faults' = faults + 1 /\ faults' <= MaxFaults
         /\ UNCHANGED <<ops, own, replicas, machines, born, seen>>
<1>1. \A r \in Resource : ops[r].compute \in Allocations
  BY Types, OperationFields
<1>2. mem' \in [Resource -> Allocations] /\ \A r \in Resource : mem'[r] = ops[r].compute
  <2>1. mem' = [r \in Resource |-> ops[r].compute]
    BY DEF Crash
  <2> QED BY <1>1, <2>1
<1>3. /\ closing' = [r \in Resource |-> Rest] /\ ask' = [r \in Resource |-> Rest]
      /\ redo' = [r \in Resource |-> Rest] /\ sync' = [r \in Resource |-> Rest]
  BY DEF Crash
<1>4. /\ closing' \in Waiting({"idle", "succeeded", "failed"})
      /\ ask' \in Waiting({"idle", "read"}) /\ redo' \in Waiting({"idle", "read"})
      /\ sync' \in Waiting(SyncSteps)
  BY <1>3, AllocationType DEF Waiting, Rest, SyncSteps
<1>5. Rest.step = "idle" /\ Rest.compute = Absent
  BY DEF Rest
<1> QED BY <1>2, <1>3, <1>4, <1>5, FaultEffect DEF Crash, log, cloud

\* What the provider does to the machines of the pool.
CloudStep ==
  \/ \E m \in Machine : /\ m \notin born /\ Cardinality(machines) < replicas /\ replicas' = replicas
                        /\ machines' = machines \cup {m} /\ born' = born \cup {m} /\ faults' = faults
  \/ \E m \in machines : /\ machines' = machines \ {m} /\ born' = born
                         /\ \/ /\ Cardinality(machines) > replicas /\ replicas' = replicas
                               /\ faults' = faults
                            \/ replicas' \in Nat /\ replicas' <= replicas /\ faults' = faults + 1

LEMMA CloudEffect ==
  ASSUME TypeInv, NEW m \in Machine, Arrive(m) \/ Leave(m) \/ Vanish(m)
  PROVE  /\ CloudStep /\ faults' <= MaxFaults
         /\ UNCHANGED <<ops, own, seen, mem, work, run, closing, ask, redo, sync>>
<1>1. replicas \in Nat /\ Fewer \in Nat /\ Fewer <= replicas
  BY Types DEF Fewer
<1>2. CASE Arrive(m)
  BY <1>2, FaultEffect DEF Arrive, CloudStep, log, process
<1>3. CASE Leave(m)
  BY <1>3, FaultEffect DEF Leave, CloudStep, log, process
<1>4. CASE Vanish(m)
  <2>1. replicas' \in Nat /\ replicas' <= replicas
    BY <1>1, <1>4 DEF Vanish
  <2> QED BY <1>4, <2>1, FaultEffect DEF Vanish, CloudStep, log, process
<1> QED BY <1>2, <1>3, <1>4

----------------------------------------------------------------------------
(* The process and the pool keep their shapes, a machine is only claimed   *)
(* for a creation that is waited for, and a destruction is one of an       *)
(* allocation.                                                             *)

LEMMA AssigningKept ==
  ASSUME Keeps(run', run), run'.i = run.i, Assigning
  PROVE  Assigning'
BY DEF Keeps, Onward, Assigning, Limit

LEMMA EndsIdle ==
  ASSUME NEW v, NEW w, NEW err, Ends(v, w, err)
  PROVE  v.pc \notin Claiming
BY DEF Ends, Returns, Free, Claiming

WorkerOK ==
  /\ run.pc \in Claiming => Assigning
  /\ OfDestruction /\ OfResource /\ (run.kind = "none" <=> run.pc = "idle")

WorkerInv == TypeOK /\ WorkerOK

\* A worker goes on, or is done.
LEMMA EndsWell ==
  ASSUME NEW err, run \in Workers, Ends(run', run, err) \/ Returns(run', run),
         OfResource, run.kind # "none"
  PROVE  WorkerOK'
<1>0. run.kind \in {"create", "destroy"}
  BY WorkerFields
<1>1. CASE Returns(run', run)
  BY <1>0, <1>1 DEF Returns, Keeps, Onward, Free, WorkerOK, OfDestruction, OfResource, Claiming
<1>2. CASE run'.pc \in {"plan", "prepare", "finalize"} /\ Onward(run', run)
  BY <1>0, <1>2 DEF Onward, WorkerOK, OfDestruction, OfResource, Claiming
<1> QED BY <1>1, <1>2 DEF Ends, Keeps

\* It goes on with the same creations.
LEMMA KeepsWell ==
  ASSUME run \in Workers, Keeps(run', run), OfResource, run.kind # "none",
         run'.pc \in {"assign", "plan"} \/ (run'.pc \in Claiming /\ run'.i = run.i /\ Assigning)
  PROVE  WorkerOK'
<1>1. run'.pc \in Claiming => Assigning'
  BY AssigningKept DEF Claiming
<1>2. run'.kind # "none" /\ OfResource'
  BY DEF Keeps, Onward, OfResource
<1>3. OfDestruction' /\ run'.pc # "idle"
  BY DEF OfDestruction, Claiming
<1> QED BY <1>1, <1>2, <1>3 DEF WorkerOK

LEMMA WorkerStep ==
  ASSUME WorkerInv, [Next]_vars
  PROVE  WorkerOK'
<1>0. /\ TypeInv /\ OfDestruction /\ OfResource /\ (run.kind = "none" <=> run.pc = "idle")
      /\ run.pc \in Claiming => Assigning
      /\ run.pc \in {"destroy", "release", "cancel", "fail"} => run.of \in Resource
      /\ run \in Workers
  BY DEF WorkerInv, WorkerOK, TypeInv, TypeOK, OfDestruction, OfResource
<1>1. ASSUME Plan
      PROVE  WorkerOK'
  <2>1. run'.pc \notin Claiming
    BY <1>1, <1>0, PlanEffect DEF Claiming, Free
  <2> QED BY <1>1, <2>1, <1>0, PlanEffect DEF WorkerOK, OfDestruction, OfResource, Keeps, Onward, Free
<1>2. ASSUME Call
      PROVE  WorkerOK'
  <2>1. run'.pc \notin Claiming
    BY <1>2, <1>0, CallEffect DEF Claiming, Free
  <2> QED BY <1>2, <2>1, <1>0, CallEffect DEF WorkerOK, OfDestruction, OfResource, Keeps, Onward, Free
<1>3. ASSUME CallFails
      PROVE  WorkerOK'
  <2>1. (Ends(run', run, TRUE) \/ Returns(run', run)) /\ run.kind # "none" /\ run \in Workers
    BY <1>3, <1>0, CallFailsEffect
  <2> QED BY <2>1, <1>0, EndsWell
<1>4. ASSUME Claim
      PROVE  WorkerOK'
  <2>1. /\ Keeps(run', run) /\ run.kind # "none" /\ run \in Workers
        /\ run'.pc \in {"assign", "plan"} \/ (run'.pc \in Claiming /\ run'.i = run.i /\ Assigning)
    BY <1>4, <1>0, ClaimEffect DEF Claiming
  <2> QED BY <2>1, <1>0, KeepsWell
<1>5. ASSUME Judge
      PROVE  WorkerOK'
  <2>1. run.kind # "none" /\ run \in Workers
    BY <1>5, <1>0, JudgeEffect
  <2>2. \/ /\ Keeps(run', run)
           /\ run'.pc \in {"assign", "plan"} \/ (run'.pc \in Claiming /\ run'.i = run.i /\ Assigning)
        \/ Ends(run', run, TRUE)
    BY <1>5, <1>0, JudgeEffect DEF Claiming
  <2> QED BY <2>1, <2>2, <1>0, EndsWell, KeepsWell
<1>6. ASSUME RecordAssigned
      PROVE  WorkerOK'
  <2>1. run.kind # "none" /\ run \in Workers
    BY <1>6, <1>0, RecordAssignedEffect
  <2>2. \/ /\ Keeps(run', run)
           /\ run'.pc \in {"assign", "plan"} \/ (run'.pc \in Claiming /\ run'.i = run.i /\ Assigning)
        \/ Ends(run', run, TRUE)
    BY <1>6, <1>0, RecordAssignedEffect DEF Claiming
  <2> QED BY <2>1, <2>2, <1>0, EndsWell, KeepsWell
<1>7. ASSUME Check
      PROVE  WorkerOK'
  <2>1. (Ends(run', run, FALSE) \/ Returns(run', run)) /\ run.kind # "none" /\ run \in Workers
    BY <1>7, <1>0, CheckEffect
  <2> QED BY <2>1, <1>0, EndsWell
<1>8. ASSUME Prepared
      PROVE  WorkerOK'
  <2>1. /\ Keeps(run', run) /\ run.kind # "none" /\ run \in Workers
        /\ run'.pc \in {"assign", "plan"} \/ (run'.pc \in Claiming /\ run'.i = run.i /\ Assigning)
    BY <1>8, <1>0, PreparedEffect DEF Claiming
  <2> QED BY <2>1, <1>0, KeepsWell
<1>9. ASSUME Finalized \/ RecordFails
      PROVE  WorkerOK'
  <2>1. (Ends(run', run, TRUE) \/ Returns(run', run)) /\ run.kind # "none" /\ run \in Workers
    BY <1>9, <1>0, FinalizedEffect
  <2> QED BY <2>1, <1>0, EndsWell
<1>10. ASSUME NEW r \in Resource, Prepare(r)
      PROVE  WorkerOK'
  <2>1. run'.pc \notin Claiming
    BY <1>10, <1>0, PrepareEffect DEF Claiming, Free
  <2> QED BY <1>10, <2>1, <1>0, PrepareEffect DEF WorkerOK, OfDestruction, OfResource, Keeps, Onward, Free
<1>11. ASSUME NEW r \in Resource, Finalize(r)
      PROVE  WorkerOK'
  BY <1>11, <1>0, FinalizeEffect DEF WorkerOK, OfDestruction, OfResource, Assigning, Limit
<1>12. ASSUME DestroyMachine
      PROVE  WorkerOK'
  <2>1. run.of \in Resource
    BY <1>12, <1>0 DEF DestroyMachine, Release, Cancel, DestroyFails
  <2>2. run'.pc \notin Claiming
    BY <1>12, <1>0, <2>1, DestroyMachineEffect DEF Claiming, Free
  <2> QED BY <1>12, <2>1, <2>2, <1>0, DestroyMachineEffect DEF WorkerOK, OfDestruction, OfResource, Keeps, Onward, Free
<1>13. ASSUME Release
      PROVE  WorkerOK'
  <2>1. run.of \in Resource
    BY <1>13, <1>0 DEF DestroyMachine, Release, Cancel, DestroyFails
  <2>2. run'.pc \notin Claiming
    BY <1>13, <1>0, <2>1, ReleaseEffect DEF Claiming, Free
  <2> QED BY <1>13, <2>1, <2>2, <1>0, ReleaseEffect DEF WorkerOK, OfDestruction, OfResource, Keeps, Onward, Free
<1>14. ASSUME Cancel
      PROVE  WorkerOK'
  <2>1. run.of \in Resource
    BY <1>14, <1>0 DEF DestroyMachine, Release, Cancel, DestroyFails
  <2>2. run'.pc \notin Claiming
    BY <1>14, <1>0, <2>1, CancelEffect DEF Claiming, Free
  <2> QED BY <1>14, <2>1, <2>2, <1>0, CancelEffect DEF WorkerOK, OfDestruction, OfResource, Keeps, Onward, Free
<1>15. ASSUME DestroyFails
      PROVE  WorkerOK'
  <2>1. run.of \in Resource
    BY <1>15, <1>0 DEF DestroyMachine, Release, Cancel, DestroyFails
  <2>2. run'.pc \notin Claiming
    BY <1>15, <1>0, <2>1, DestroyFailsEffect DEF Claiming, Free
  <2> QED BY <1>15, <2>1, <2>2, <1>0, DestroyFailsEffect DEF WorkerOK, OfDestruction, OfResource, Keeps, Onward, Free
<1>16. ASSUME NEW w \in work, Start(w)
      PROVE  WorkerOK'
  <2>1. run'.pc \notin Claiming
    BY <1>16, <1>0, StartEffect DEF Claiming, Free
  <2> QED BY <1>16, <2>1, <1>0, StartEffect DEF WorkerOK, OfDestruction, OfResource, Keeps, Onward, Free
<1>17. ASSUME Crash
      PROVE  WorkerOK'
  <2>1. run'.pc \notin Claiming
    BY <1>17, <1>0, CrashEffect DEF Claiming, Free
  <2> QED BY <1>17, <2>1, <1>0, CrashEffect DEF WorkerOK, OfDestruction, OfResource, Keeps, Onward, Free
<1>18. ASSUME NEW r \in Resource, Create(r)
      PROVE  WorkerOK'
  BY <1>18, <1>0, CreateEffect DEF WorkerOK, OfDestruction, OfResource, Assigning, Limit
<1>19. ASSUME NEW r \in Resource, Replay(r)
      PROVE  WorkerOK'
  BY <1>19, <1>0, ReplayEffect DEF WorkerOK, OfDestruction, OfResource, Assigning, Limit
<1>20. ASSUME NEW r \in Resource, Resume(r)
      PROVE  WorkerOK'
  BY <1>20, <1>0, ResumeEffect DEF WorkerOK, OfDestruction, OfResource, Assigning, Limit
<1>21. ASSUME NEW r \in Resource, DestroyRead(r)
      PROVE  WorkerOK'
  BY <1>21, <1>0, DestroyReadEffect DEF WorkerOK, OfDestruction, OfResource, Assigning, Limit
<1>22. ASSUME NEW r \in Resource, DestroyLocked(r)
      PROVE  WorkerOK'
  BY <1>22, <1>0, DestroyLockedEffect DEF WorkerOK, OfDestruction, OfResource, Assigning, Limit
<1>23. ASSUME NEW r \in Resource, RecordDestroyed(r)
      PROVE  WorkerOK'
  BY <1>23, <1>0, RecordDestroyedEffect DEF WorkerOK, OfDestruction, OfResource, Assigning, Limit
<1>24. ASSUME NEW r \in Resource, SyncRead(r)
      PROVE  WorkerOK'
  BY <1>24, <1>0, SyncReadEffect DEF WorkerOK, OfDestruction, OfResource, Assigning, Limit
<1>25. ASSUME NEW r \in Resource, SyncCall(r)
      PROVE  WorkerOK'
  BY <1>25, <1>0, SyncCallEffect DEF WorkerOK, OfDestruction, OfResource, Assigning, Limit
<1>26. ASSUME NEW r \in Resource, SyncSave(r)
      PROVE  WorkerOK'
  BY <1>26, <1>0, SyncSaveEffect DEF WorkerOK, OfDestruction, OfResource, Assigning, Limit
<1>27. ASSUME NEW r \in Resource, SyncRecord(r)
      PROVE  WorkerOK'
  BY <1>27, <1>0, SyncRecordEffect DEF WorkerOK, OfDestruction, OfResource, Assigning, Limit
<1>28. ASSUME NEW m \in Machine, Arrive(m) \/ Leave(m) \/ Vanish(m)
      PROVE  WorkerOK'
  BY <1>28, <1>0, CloudEffect DEF WorkerOK, OfDestruction, OfResource, Assigning, Limit
<1>29. CASE UNCHANGED vars
  BY <1>29, <1>0 DEF vars, WorkerOK, OfDestruction, OfResource, Assigning, Limit
<1> QED BY <1>1, <1>2, <1>3, <1>4, <1>5, <1>6, <1>7, <1>8, <1>9, <1>10, <1>11, <1>12,
     <1>13, <1>14, <1>15, <1>16, <1>17, <1>18, <1>19, <1>20, <1>21, <1>22, <1>23, <1>24,
     <1>25, <1>26, <1>27, <1>28, <1>29 DEF Next, Reconcile, Finish

LEMMA TypeStep ==
  ASSUME WorkerInv, [Next]_vars
  PROVE  TypeOK'
<1>0. /\ TypeOK /\ TypeInv /\ faults \in Nat /\ MaxFaults \in Nat
      /\ run.pc \in {"destroy", "release", "cancel", "fail"} => run.of \in Resource
      /\ run \in Workers /\ run.demand \in Nat /\ Demand \in Nat
  <2>1. TypeOK /\ TypeInv /\ (run.pc \in {"destroy", "release", "cancel", "fail"} => run.of \in Resource)
    BY DEF WorkerInv, WorkerOK, TypeInv, OfDestruction, OfResource
  <2> QED BY <2>1, FaultEffect, Types, WorkerFields, PoolAssumption
<1>1. ASSUME Plan
      PROVE  TypeOK'
  BY <1>1, <1>0, PlanEffect, FreeType DEF TypeOK, SyncSteps
<1>2. ASSUME Call
      PROVE  TypeOK'
  BY <1>2, <1>0, CallEffect, FreeType DEF TypeOK, SyncSteps
<1>3. ASSUME CallFails
      PROVE  TypeOK'
  BY <1>3, <1>0, CallFailsEffect, FreeType DEF TypeOK, SyncSteps
<1>4. ASSUME Claim
      PROVE  TypeOK'
  BY <1>4, <1>0, ClaimEffect, FreeType DEF TypeOK, SyncSteps
<1>5. ASSUME Judge
      PROVE  TypeOK'
  <2>1. faults' \in {faults, faults + 1} /\ faults' <= MaxFaults
    BY <1>5, <1>0, JudgeEffect
  <2>2. faults' \in 0..MaxFaults
    BY <1>0, <2>1
  <2> QED BY <1>5, <2>2, <1>0, JudgeEffect DEF TypeOK
<1>6. ASSUME RecordAssigned
      PROVE  TypeOK'
  <2>1. faults' \in {faults, faults + 1} /\ faults' <= MaxFaults
    BY <1>6, <1>0, RecordAssignedEffect
  <2>2. faults' \in 0..MaxFaults
    BY <1>0, <2>1
  <2> QED BY <1>6, <2>2, <1>0, RecordAssignedEffect DEF TypeOK
<1>7. ASSUME Check
      PROVE  TypeOK'
  BY <1>7, <1>0, CheckEffect, FreeType DEF TypeOK, SyncSteps
<1>8. ASSUME Prepared
      PROVE  TypeOK'
  BY <1>8, <1>0, PreparedEffect, FreeType DEF TypeOK, SyncSteps
<1>9. ASSUME Finalized \/ RecordFails
      PROVE  TypeOK'
  BY <1>9, <1>0, FinalizedEffect, FreeType DEF TypeOK, SyncSteps
<1>10. ASSUME NEW r \in Resource, Prepare(r)
      PROVE  TypeOK'
  BY <1>10, <1>0, PrepareEffect, FreeType DEF TypeOK, SyncSteps
<1>11. ASSUME NEW r \in Resource, Finalize(r)
      PROVE  TypeOK'
  BY <1>11, <1>0, FinalizeEffect, FreeType DEF TypeOK, SyncSteps
<1>12. ASSUME DestroyMachine
      PROVE  TypeOK'
  <2>1. run.of \in Resource
    BY <1>12, <1>0 DEF DestroyMachine, Release, Cancel, DestroyFails
  <2> QED BY <1>12, <2>1, <1>0, DestroyMachineEffect, FreeType DEF TypeOK
<1>13. ASSUME Release
      PROVE  TypeOK'
  <2>1. run.of \in Resource
    BY <1>13, <1>0 DEF DestroyMachine, Release, Cancel, DestroyFails
  <2> QED BY <1>13, <2>1, <1>0, ReleaseEffect, FreeType DEF TypeOK
<1>14. ASSUME Cancel
      PROVE  TypeOK'
  <2>1. run.of \in Resource
    BY <1>14, <1>0 DEF DestroyMachine, Release, Cancel, DestroyFails
  <2> QED BY <1>14, <2>1, <1>0, CancelEffect, FreeType DEF TypeOK
<1>15. ASSUME DestroyFails
      PROVE  TypeOK'
  <2>1. run.of \in Resource
    BY <1>15, <1>0 DEF DestroyMachine, Release, Cancel, DestroyFails
  <2> QED BY <1>15, <2>1, <1>0, DestroyFailsEffect, FreeType DEF TypeOK
<1>16. ASSUME NEW w \in work, Start(w)
      PROVE  TypeOK'
  BY <1>16, <1>0, StartEffect, FreeType DEF TypeOK, SyncSteps
<1>17. ASSUME Crash
      PROVE  TypeOK'
  BY <1>17, <1>0, CrashEffect, FreeType DEF TypeOK, SyncSteps
<1>18. ASSUME NEW r \in Resource, Create(r)
      PROVE  TypeOK'
  BY <1>18, <1>0, CreateEffect, FreeType DEF TypeOK, SyncSteps
<1>19. ASSUME NEW r \in Resource, Replay(r)
      PROVE  TypeOK'
  BY <1>19, <1>0, ReplayEffect, FreeType DEF TypeOK, SyncSteps
<1>20. ASSUME NEW r \in Resource, Resume(r)
      PROVE  TypeOK'
  BY <1>20, <1>0, ResumeEffect, FreeType DEF TypeOK, SyncSteps
<1>21. ASSUME NEW r \in Resource, DestroyRead(r)
      PROVE  TypeOK'
  BY <1>21, <1>0, DestroyReadEffect, FreeType DEF TypeOK, SyncSteps
<1>22. ASSUME NEW r \in Resource, DestroyLocked(r)
      PROVE  TypeOK'
  BY <1>22, <1>0, DestroyLockedEffect, FreeType DEF TypeOK, SyncSteps
<1>23. ASSUME NEW r \in Resource, RecordDestroyed(r)
      PROVE  TypeOK'
  BY <1>23, <1>0, RecordDestroyedEffect, FreeType DEF TypeOK, SyncSteps
<1>24. ASSUME NEW r \in Resource, SyncRead(r)
      PROVE  TypeOK'
  BY <1>24, <1>0, SyncReadEffect, FreeType DEF TypeOK, SyncSteps
<1>25. ASSUME NEW r \in Resource, SyncCall(r)
      PROVE  TypeOK'
  BY <1>25, <1>0, SyncCallEffect, FreeType DEF TypeOK, SyncSteps
<1>26. ASSUME NEW r \in Resource, SyncSave(r)
      PROVE  TypeOK'
  BY <1>26, <1>0, SyncSaveEffect, FreeType DEF TypeOK, SyncSteps
<1>27. ASSUME NEW r \in Resource, SyncRecord(r)
      PROVE  TypeOK'
  BY <1>27, <1>0, SyncRecordEffect, FreeType DEF TypeOK, SyncSteps
<1>28. ASSUME NEW m \in Machine, Arrive(m) \/ Leave(m) \/ Vanish(m)
      PROVE  TypeOK'
  <2>1. CloudStep /\ faults' \in 0..MaxFaults
    BY <1>28, <1>0, CloudEffect DEF CloudStep
  <2>2. machines' \subseteq born' /\ born \subseteq born' /\ born' \subseteq Machine /\ replicas' \in Nat
    BY <1>0, <2>1 DEF CloudStep, TypeOK
  <2> QED BY <1>28, <2>1, <2>2, <1>0, CloudEffect DEF TypeOK
<1>29. CASE UNCHANGED vars
  BY <1>29, <1>0 DEF vars, TypeOK
<1> QED BY <1>1, <1>2, <1>3, <1>4, <1>5, <1>6, <1>7, <1>8, <1>9, <1>10, <1>11, <1>12,
     <1>13, <1>14, <1>15, <1>16, <1>17, <1>18, <1>19, <1>20, <1>21, <1>22, <1>23, <1>24,
     <1>25, <1>26, <1>27, <1>28, <1>29 DEF Next, Reconcile, Finish

LEMMA WorkerInit ==
  ASSUME Init
  PROVE  WorkerInv
<1>1. TypeOK
  <2>1. [r \in Resource |-> Absent] \in [Resource -> Allocations]
    BY AllocationType
  <2>2. ops \in [Resource -> Operations]
    BY AllocationType DEF Init, Operations
  <2>3. /\ closing \in Waiting({"idle", "succeeded", "failed"})
        /\ ask \in Waiting({"idle", "read"}) /\ redo \in Waiting({"idle", "read"})
        /\ sync \in Waiting({"idle", "call", "release", "activate", "record"})
    BY AllAtRest DEF Init
  <2>4. faults \in 0..MaxFaults /\ replicas \in Nat
    BY PoolAssumption DEF Init
  <2> QED BY <2>1, <2>2, <2>3, <2>4, FreeType DEF Init, TypeOK
<1>2. Free.kind = "none" /\ Free.pc = "idle"
  BY DEF Free
<1>3. WorkerOK
  BY <1>2 DEF Init, WorkerOK, OfDestruction, OfResource, Claiming
<1> QED BY <1>1, <1>3 DEF WorkerInv

\* The log, the ownership rows, the pool and the process keep their shapes,
\* whatever the workers, the readbacks and the provider do.
THEOREM TypesAreKept == Spec => []TypeOK
<1>1. Init => WorkerInv
  BY WorkerInit
<1>2. WorkerInv /\ [Next]_vars => WorkerInv'
  BY WorkerStep, TypeStep DEF WorkerInv
<1>3. WorkerInv => TypeOK
  BY DEF WorkerInv
<1> QED BY <1>1, <1>2, <1>3, PTL DEF Spec

----------------------------------------------------------------------------
(* Whoever is waited for has asked, and has not been answered.             *)

\* Nothing is known of an allocation nobody asked for.
Fresh(r) ==
  ops[r].create = "none" =>
    /\ ops[r].destroy = "none" /\ ops[r].created = Absent /\ ops[r].compute = Absent
    /\ ~ops[r].bare /\ own[r] = Absent /\ mem[r] = Absent
    /\ ask[r].step = "idle" /\ redo[r].step = "idle" /\ sync[r].step = "idle"

\* A destruction at work was asked for.
Asked(r) ==
  <<"destroy", r>> \in work \/ (run.kind = "destroy" /\ run.of = r) \/ closing[r].step # "idle"
    => ops[r].destroy # "none"

\* The creations the worker has yet to look at are started, and the one that
\* is destroyed is none of those it serves.
ToCome ==
  /\ run.pc = "call" => \A r \in run.pending : ops[r].create = "started"
  /\ run.pc \in {"assign"} \cup Claiming =>
       \A r \in run.pending :
         Cardinality(Before(run.pending, r)) >= run.i - 1 => ops[r].create = "started"
  /\ run.pc = "prepare" => \A r \in run.todo : ops[r].create = "started"

NotServed == run.kind = "destroy" => run.of \notin run.pending

LogInv ==
  WorkerInv /\ ToCome /\ NotServed /\ \A r \in Resource : Fresh(r) /\ Asked(r)

LEMMA LogFacts ==
  ASSUME LogInv
  PROVE  /\ TypeInv /\ ToCome /\ NotServed /\ OfResource
         /\ run \in Workers /\ (run.kind = "none" <=> run.pc = "idle")
         /\ run.pc \in {"destroy", "release", "cancel", "fail"} =>
              run.kind = "destroy" /\ run.of \in Resource
         /\ \A r \in Resource : Fresh(r) /\ Asked(r)
BY DEF LogInv, WorkerInv, WorkerOK, TypeInv, TypeOK, OfDestruction, OfResource

\* The creation whose turn it is is waited for, and not to be destroyed by
\* the worker itself.
LEMMA TakerStarted ==
  ASSUME LogInv, run.pc \in {"assign"} \cup Claiming, Assigning
  PROVE  /\ Taker \in run.pending /\ Taker \in Resource /\ ops[Taker].create = "started"
         /\ Cardinality(Before(run.pending, Taker)) = run.i - 1
         /\ Candidate \in run.free /\ Candidate \in Machine
         /\ run.kind = "destroy" => Taker # run.of
<1>1. run \in Workers /\ ToCome /\ NotServed
  BY LogFacts
<1>2. /\ Taker \in run.pending /\ Taker \in Resource
      /\ Cardinality(Before(run.pending, Taker)) = run.i - 1
      /\ Candidate \in run.free /\ Candidate \in Machine
  BY <1>1, Served
<1>3. run.i - 1 >= run.i - 1
  BY <1>1, WorkerFields
<1>4. ops[Taker].create = "started"
  BY <1>1, <1>2, <1>3 DEF ToCome
<1> QED BY <1>1, <1>2, <1>4 DEF NotServed

LEMMA AbsentFields == Absent.status = "none" /\ Absent.machine = 0
BY DEF Absent, Allocation

LEMMA FreshStep ==
  ASSUME LogInv, [Next]_vars, NEW q \in Resource
  PROVE  Fresh(q)'
<1>0. /\ TypeInv /\ Fresh(q) /\ Asked(q) /\ ToCome
      /\ run.pc \in {"destroy", "release", "cancel", "fail"} =>
           run.kind = "destroy" /\ run.of \in Resource
      /\ Absent.status = "none" /\ Absent.machine = 0
      /\ run.pc \in {"assign"} \cup Claiming /\ Assigning =>
           Taker \in Resource /\ ops[Taker].create = "started"
  BY LogFacts, TakerStarted, AbsentFields
<1>1. ASSUME Plan
      PROVE  Fresh(q)'
  BY <1>1, <1>0, PlanEffect DEF Fresh
<1>2. ASSUME Call
      PROVE  Fresh(q)'
  BY <1>2, <1>0, CallEffect DEF Fresh, ToCome
<1>3. ASSUME CallFails
      PROVE  Fresh(q)'
  BY <1>3, <1>0, CallFailsEffect DEF Fresh, ToCome
<1>4. ASSUME Claim
      PROVE  Fresh(q)'
  <2>1. Taker \in Resource /\ ops[Taker].create = "started"
    BY <1>4, <1>0, ClaimEffect DEF Claiming
  <2> QED BY <1>4, <1>0, <2>1, ClaimEffect DEF Fresh
<1>5. ASSUME Judge
      PROVE  Fresh(q)'
  <2>1. Taker \in Resource /\ ops[Taker].create = "started"
    BY <1>5, <1>0, JudgeEffect DEF Claiming
  <2> QED BY <1>5, <1>0, <2>1, JudgeEffect DEF Fresh
<1>6. ASSUME RecordAssigned
      PROVE  Fresh(q)'
  <2>1. Taker \in Resource /\ ops[Taker].create = "started"
    BY <1>6, <1>0, RecordAssignedEffect DEF Claiming
  <2> QED BY <1>6, <1>0, <2>1, RecordAssignedEffect DEF Fresh
<1>7. ASSUME Check
      PROVE  Fresh(q)'
  BY <1>7, <1>0, CheckEffect DEF Fresh
<1>8. ASSUME Prepared
      PROVE  Fresh(q)'
  BY <1>8, <1>0, PreparedEffect DEF Fresh
<1>9. ASSUME Finalized \/ RecordFails
      PROVE  Fresh(q)'
  BY <1>9, <1>0, FinalizedEffect DEF Fresh
<1>10. ASSUME NEW r \in Resource, Prepare(r)
      PROVE  Fresh(q)'
  BY <1>10, <1>0, PrepareEffect DEF Fresh, ToCome
<1>11. ASSUME NEW r \in Resource, Finalize(r)
      PROVE  Fresh(q)'
  BY <1>11, <1>0, FinalizeEffect DEF Fresh
<1>12. ASSUME DestroyMachine
      PROVE  Fresh(q)'
  <2>1. run.of \in Resource /\ run.kind = "destroy"
    BY <1>12, <1>0 DEF DestroyMachine, Release, Cancel, DestroyFails
  <2> QED BY <1>12, <1>0, <2>1, DestroyMachineEffect DEF Fresh, Asked
<1>13. ASSUME Release
      PROVE  Fresh(q)'
  <2>1. run.of \in Resource /\ run.kind = "destroy"
    BY <1>13, <1>0 DEF DestroyMachine, Release, Cancel, DestroyFails
  <2> QED BY <1>13, <1>0, <2>1, ReleaseEffect DEF Fresh, Asked
<1>14. ASSUME Cancel
      PROVE  Fresh(q)'
  <2>1. run.of \in Resource /\ run.kind = "destroy"
    BY <1>14, <1>0 DEF DestroyMachine, Release, Cancel, DestroyFails
  <2> QED BY <1>14, <1>0, <2>1, CancelEffect DEF Fresh, Asked
<1>15. ASSUME DestroyFails
      PROVE  Fresh(q)'
  <2>1. run.of \in Resource /\ run.kind = "destroy"
    BY <1>15, <1>0 DEF DestroyMachine, Release, Cancel, DestroyFails
  <2> QED BY <1>15, <1>0, <2>1, DestroyFailsEffect DEF Fresh, Asked
<1>16. ASSUME NEW w \in work, Start(w)
      PROVE  Fresh(q)'
  BY <1>16, <1>0, StartEffect DEF Fresh
<1>17. ASSUME Crash
      PROVE  Fresh(q)'
  BY <1>17, <1>0, CrashEffect DEF Fresh
<1>18. ASSUME NEW r \in Resource, Create(r)
      PROVE  Fresh(q)'
  BY <1>18, <1>0, CreateEffect DEF Fresh
<1>19. ASSUME NEW r \in Resource, Replay(r)
      PROVE  Fresh(q)'
  BY <1>19, <1>0, ReplayEffect DEF Fresh
<1>20. ASSUME NEW r \in Resource, Resume(r)
      PROVE  Fresh(q)'
  BY <1>20, <1>0, ResumeEffect DEF Fresh
<1>21. ASSUME NEW r \in Resource, DestroyRead(r)
      PROVE  Fresh(q)'
  BY <1>21, <1>0, DestroyReadEffect DEF Fresh
<1>22. ASSUME NEW r \in Resource, DestroyLocked(r)
      PROVE  Fresh(q)'
  BY <1>22, <1>0, DestroyLockedEffect DEF Fresh
<1>23. ASSUME NEW r \in Resource, RecordDestroyed(r)
      PROVE  Fresh(q)'
  BY <1>23, <1>0, RecordDestroyedEffect DEF Fresh, Asked
<1>24. ASSUME NEW r \in Resource, SyncRead(r)
      PROVE  Fresh(q)'
  BY <1>24, <1>0, SyncReadEffect DEF Fresh, SyncOnly
<1>25. ASSUME NEW r \in Resource, SyncCall(r)
      PROVE  Fresh(q)'
  BY <1>25, <1>0, SyncCallEffect DEF Fresh, SyncOnly
<1>26. ASSUME NEW r \in Resource, SyncSave(r)
      PROVE  Fresh(q)'
  BY <1>26, <1>0, SyncSaveEffect DEF Fresh, SyncOnly
<1>27. ASSUME NEW r \in Resource, SyncRecord(r)
      PROVE  Fresh(q)'
  BY <1>27, <1>0, SyncRecordEffect DEF Fresh, SyncOnly
<1>28. ASSUME NEW m \in Machine, Arrive(m) \/ Leave(m) \/ Vanish(m)
      PROVE  Fresh(q)'
  BY <1>28, <1>0, CloudEffect DEF Fresh
<1>29. CASE UNCHANGED vars
  BY <1>29, <1>0 DEF vars, Fresh
<1> QED BY <1>1, <1>2, <1>3, <1>4, <1>5, <1>6, <1>7, <1>8, <1>9, <1>10, <1>11, <1>12,
     <1>13, <1>14, <1>15, <1>16, <1>17, <1>18, <1>19, <1>20, <1>21, <1>22, <1>23, <1>24,
     <1>25, <1>26, <1>27, <1>28, <1>29 DEF Next, Reconcile, Finish

LEMMA AskedStep ==
  ASSUME LogInv, [Next]_vars, NEW q \in Resource
  PROVE  Asked(q)'
<1>0. /\ TypeInv /\ Fresh(q) /\ Asked(q)
      /\ run.pc \in {"destroy", "release", "cancel", "fail"} =>
           run.kind = "destroy" /\ run.of \in Resource
      /\ Free.kind = "none"
  BY LogFacts DEF Free
<1>1. ASSUME Plan
      PROVE  Asked(q)'
  BY <1>1, <1>0, PlanEffect DEF Asked, Onward
<1>2. ASSUME Call
      PROVE  Asked(q)'
  BY <1>2, <1>0, CallEffect DEF Asked, Onward
<1>3. ASSUME CallFails
      PROVE  Asked(q)'
  <2>1. run'.kind = "none" \/ Onward(run', run)
    BY <1>3, <1>0, CallFailsEffect DEF Ends, Returns, Keeps
  <2> QED BY <1>3, <1>0, <2>1, CallFailsEffect DEF Asked, Onward
<1>4. ASSUME Claim
      PROVE  Asked(q)'
  BY <1>4, <1>0, ClaimEffect DEF Asked, Keeps, Onward
<1>5. ASSUME Judge
      PROVE  Asked(q)'
  <2>1. run'.kind = "none" \/ Onward(run', run)
    BY <1>5, <1>0, JudgeEffect DEF Ends, Returns, Keeps
  <2> QED BY <1>5, <1>0, <2>1, JudgeEffect DEF Asked, Onward
<1>6. ASSUME RecordAssigned
      PROVE  Asked(q)'
  <2>1. run'.kind = "none" \/ Onward(run', run)
    BY <1>6, <1>0, RecordAssignedEffect DEF Ends, Returns, Keeps
  <2>2. Taker \in Resource /\ ops'[q].destroy = ops[q].destroy
    BY <1>6, <1>0, RecordAssignedEffect, TakerStarted DEF Claiming
  <2> QED BY <1>6, <1>0, <2>1, <2>2, RecordAssignedEffect DEF Asked, Onward
<1>7. ASSUME Check
      PROVE  Asked(q)'
  <2>1. run'.kind = "none" \/ Onward(run', run)
    BY <1>7, <1>0, CheckEffect DEF Ends, Returns, Keeps
  <2> QED BY <1>7, <1>0, <2>1, CheckEffect DEF Asked, Onward
<1>8. ASSUME Prepared
      PROVE  Asked(q)'
  BY <1>8, <1>0, PreparedEffect DEF Asked, Keeps, Onward
<1>9. ASSUME Finalized \/ RecordFails
      PROVE  Asked(q)'
  <2>1. run'.kind = "none" \/ Onward(run', run)
    BY <1>9, <1>0, FinalizedEffect DEF Ends, Returns, Keeps
  <2> QED BY <1>9, <1>0, <2>1, FinalizedEffect DEF Asked, Onward
<1>10. ASSUME NEW r \in Resource, Prepare(r)
      PROVE  Asked(q)'
  BY <1>10, <1>0, PrepareEffect DEF Asked, Onward
<1>11. ASSUME NEW r \in Resource, Finalize(r)
      PROVE  Asked(q)'
  BY <1>11, <1>0, FinalizeEffect DEF Asked
<1>12. ASSUME DestroyMachine
      PROVE  Asked(q)'
  <2>1. run.of \in Resource /\ run.kind = "destroy"
    BY <1>12, <1>0 DEF DestroyMachine, Release, Cancel, DestroyFails
  <2> QED BY <1>12, <1>0, <2>1, DestroyMachineEffect DEF Asked, Keeps, Onward
<1>13. ASSUME Release
      PROVE  Asked(q)'
  <2>1. run.of \in Resource /\ run.kind = "destroy"
    BY <1>13, <1>0 DEF DestroyMachine, Release, Cancel, DestroyFails
  <2> QED BY <1>13, <1>0, <2>1, ReleaseEffect DEF Asked, Keeps, Onward
<1>14. ASSUME Cancel
      PROVE  Asked(q)'
  <2>1. run.of \in Resource /\ run.kind = "destroy"
    BY <1>14, <1>0 DEF DestroyMachine, Release, Cancel, DestroyFails
  <2> QED BY <1>14, <1>0, <2>1, CancelEffect DEF Asked, Keeps, Onward
<1>15. ASSUME DestroyFails
      PROVE  Asked(q)'
  <2>1. run.of \in Resource /\ run.kind = "destroy"
    BY <1>15, <1>0 DEF DestroyMachine, Release, Cancel, DestroyFails
  <2> QED BY <1>15, <1>0, <2>1, DestroyFailsEffect DEF Asked, Keeps, Onward
<1>16. ASSUME NEW w \in work, Start(w)
      PROVE  Asked(q)'
  BY <1>16, <1>0, StartEffect DEF Asked
<1>17. ASSUME Crash
      PROVE  Asked(q)'
  BY <1>17, <1>0, CrashEffect DEF Asked
<1>18. ASSUME NEW r \in Resource, Create(r)
      PROVE  Asked(q)'
  BY <1>18, <1>0, CreateEffect DEF Asked
<1>19. ASSUME NEW r \in Resource, Replay(r)
      PROVE  Asked(q)'
  BY <1>19, <1>0, ReplayEffect DEF Asked
<1>20. ASSUME NEW r \in Resource, Resume(r)
      PROVE  Asked(q)'
  BY <1>20, <1>0, ResumeEffect DEF Asked
<1>21. ASSUME NEW r \in Resource, DestroyRead(r)
      PROVE  Asked(q)'
  BY <1>21, <1>0, DestroyReadEffect DEF Asked
<1>22. ASSUME NEW r \in Resource, DestroyLocked(r)
      PROVE  Asked(q)'
  BY <1>22, <1>0, DestroyLockedEffect DEF Asked
<1>23. ASSUME NEW r \in Resource, RecordDestroyed(r)
      PROVE  Asked(q)'
  BY <1>23, <1>0, RecordDestroyedEffect DEF Asked
<1>24. ASSUME NEW r \in Resource, SyncRead(r)
      PROVE  Asked(q)'
  BY <1>24, <1>0, SyncReadEffect DEF Asked
<1>25. ASSUME NEW r \in Resource, SyncCall(r)
      PROVE  Asked(q)'
  BY <1>25, <1>0, SyncCallEffect DEF Asked
<1>26. ASSUME NEW r \in Resource, SyncSave(r)
      PROVE  Asked(q)'
  BY <1>26, <1>0, SyncSaveEffect DEF Asked
<1>27. ASSUME NEW r \in Resource, SyncRecord(r)
      PROVE  Asked(q)'
  BY <1>27, <1>0, SyncRecordEffect DEF Asked
<1>28. ASSUME NEW m \in Machine, Arrive(m) \/ Leave(m) \/ Vanish(m)
      PROVE  Asked(q)'
  BY <1>28, <1>0, CloudEffect DEF Asked
<1>29. CASE UNCHANGED vars
  BY <1>29, <1>0 DEF vars, Asked
<1> QED BY <1>1, <1>2, <1>3, <1>4, <1>5, <1>6, <1>7, <1>8, <1>9, <1>10, <1>11, <1>12,
     <1>13, <1>14, <1>15, <1>16, <1>17, <1>18, <1>19, <1>20, <1>21, <1>22, <1>23, <1>24,
     <1>25, <1>26, <1>27, <1>28, <1>29 DEF Next, Reconcile, Finish

LEMMA NotServedStep ==
  ASSUME LogInv, [Next]_vars
  PROVE  NotServed'
<1>0. /\ TypeInv /\ NotServed /\ OfResource /\ \A q \in Resource : Asked(q)
      /\ run.pc \in {"destroy", "release", "cancel", "fail"} =>
           run.kind = "destroy" /\ run.of \in Resource
      /\ Free.kind = "none"
  BY LogFacts DEF Free
<1>1. ASSUME Plan
      PROVE  NotServed'
  BY <1>1, <1>0, PlanEffect DEF NotServed, Asked, OfResource, Onward, Pending
<1>2. ASSUME Call
      PROVE  NotServed'
  BY <1>2, <1>0, CallEffect DEF NotServed, Onward
<1>3. ASSUME CallFails
      PROVE  NotServed'
  <2>1. \/ run'.kind = "none"
        \/ Onward(run', run) /\ run'.pending \in {{}, run.pending}
    BY <1>3, <1>0, CallFailsEffect DEF Ends, Returns, Keeps
  <2> QED BY <2>1, <1>0 DEF NotServed, Onward
<1>4. ASSUME Claim
      PROVE  NotServed'
  BY <1>4, <1>0, ClaimEffect DEF NotServed, Keeps, Onward
<1>5. ASSUME Judge
      PROVE  NotServed'
  <2>1. \/ run'.kind = "none"
        \/ Onward(run', run) /\ run'.pending \in {{}, run.pending}
    BY <1>5, <1>0, JudgeEffect DEF Ends, Returns, Keeps
  <2> QED BY <2>1, <1>0 DEF NotServed, Onward
<1>6. ASSUME RecordAssigned
      PROVE  NotServed'
  <2>1. \/ run'.kind = "none"
        \/ Onward(run', run) /\ run'.pending \in {{}, run.pending}
    BY <1>6, <1>0, RecordAssignedEffect DEF Ends, Returns, Keeps
  <2> QED BY <2>1, <1>0 DEF NotServed, Onward
<1>7. ASSUME Check
      PROVE  NotServed'
  <2>1. \/ run'.kind = "none"
        \/ Onward(run', run) /\ run'.pending \in {{}, run.pending}
    BY <1>7, <1>0, CheckEffect DEF Ends, Returns, Keeps
  <2> QED BY <2>1, <1>0 DEF NotServed, Onward
<1>8. ASSUME Prepared
      PROVE  NotServed'
  BY <1>8, <1>0, PreparedEffect DEF NotServed, Keeps, Onward
<1>9. ASSUME Finalized \/ RecordFails
      PROVE  NotServed'
  <2>1. \/ run'.kind = "none"
        \/ Onward(run', run) /\ run'.pending \in {{}, run.pending}
    BY <1>9, <1>0, FinalizedEffect DEF Ends, Returns, Keeps
  <2> QED BY <2>1, <1>0 DEF NotServed, Onward
<1>10. ASSUME NEW r \in Resource, Prepare(r)
      PROVE  NotServed'
  BY <1>10, <1>0, PrepareEffect DEF NotServed, Onward
<1>11. ASSUME NEW r \in Resource, Finalize(r)
      PROVE  NotServed'
  BY <1>11, <1>0, FinalizeEffect DEF NotServed
<1>12. ASSUME DestroyMachine
      PROVE  NotServed'
  <2>1. run.of \in Resource
    BY <1>12, <1>0 DEF DestroyMachine, Release, Cancel, DestroyFails
  <2> QED BY <1>12, <1>0, <2>1, DestroyMachineEffect DEF NotServed, Keeps, Onward
<1>13. ASSUME Release
      PROVE  NotServed'
  <2>1. run.of \in Resource
    BY <1>13, <1>0 DEF DestroyMachine, Release, Cancel, DestroyFails
  <2> QED BY <1>13, <1>0, <2>1, ReleaseEffect DEF NotServed, Keeps, Onward
<1>14. ASSUME Cancel
      PROVE  NotServed'
  <2>1. run.of \in Resource
    BY <1>14, <1>0 DEF DestroyMachine, Release, Cancel, DestroyFails
  <2> QED BY <1>14, <1>0, <2>1, CancelEffect DEF NotServed, Keeps, Onward
<1>15. ASSUME DestroyFails
      PROVE  NotServed'
  <2>1. run.of \in Resource
    BY <1>15, <1>0 DEF DestroyMachine, Release, Cancel, DestroyFails
  <2> QED BY <1>15, <1>0, <2>1, DestroyFailsEffect DEF NotServed, Keeps, Onward
<1>16. ASSUME NEW w \in work, Start(w)
      PROVE  NotServed'
  BY <1>16, <1>0, StartEffect DEF NotServed
<1>17. ASSUME Crash
      PROVE  NotServed'
  BY <1>17, <1>0, CrashEffect DEF NotServed
<1>18. ASSUME NEW r \in Resource, Create(r)
      PROVE  NotServed'
  BY <1>18, <1>0, CreateEffect DEF NotServed
<1>19. ASSUME NEW r \in Resource, Replay(r)
      PROVE  NotServed'
  BY <1>19, <1>0, ReplayEffect DEF NotServed
<1>20. ASSUME NEW r \in Resource, Resume(r)
      PROVE  NotServed'
  BY <1>20, <1>0, ResumeEffect DEF NotServed
<1>21. ASSUME NEW r \in Resource, DestroyRead(r)
      PROVE  NotServed'
  BY <1>21, <1>0, DestroyReadEffect DEF NotServed
<1>22. ASSUME NEW r \in Resource, DestroyLocked(r)
      PROVE  NotServed'
  BY <1>22, <1>0, DestroyLockedEffect DEF NotServed
<1>23. ASSUME NEW r \in Resource, RecordDestroyed(r)
      PROVE  NotServed'
  BY <1>23, <1>0, RecordDestroyedEffect DEF NotServed
<1>24. ASSUME NEW r \in Resource, SyncRead(r)
      PROVE  NotServed'
  BY <1>24, <1>0, SyncReadEffect DEF NotServed
<1>25. ASSUME NEW r \in Resource, SyncCall(r)
      PROVE  NotServed'
  BY <1>25, <1>0, SyncCallEffect DEF NotServed
<1>26. ASSUME NEW r \in Resource, SyncSave(r)
      PROVE  NotServed'
  BY <1>26, <1>0, SyncSaveEffect DEF NotServed
<1>27. ASSUME NEW r \in Resource, SyncRecord(r)
      PROVE  NotServed'
  BY <1>27, <1>0, SyncRecordEffect DEF NotServed
<1>28. ASSUME NEW m \in Machine, Arrive(m) \/ Leave(m) \/ Vanish(m)
      PROVE  NotServed'
  BY <1>28, <1>0, CloudEffect DEF NotServed
<1>29. CASE UNCHANGED vars
  BY <1>29, <1>0 DEF vars, NotServed
<1> QED BY <1>1, <1>2, <1>3, <1>4, <1>5, <1>6, <1>7, <1>8, <1>9, <1>10, <1>11, <1>12,
     <1>13, <1>14, <1>15, <1>16, <1>17, <1>18, <1>19, <1>20, <1>21, <1>22, <1>23, <1>24,
     <1>25, <1>26, <1>27, <1>28, <1>29 DEF Next, Reconcile, Finish

LEMMA ToComeStep ==
  ASSUME LogInv, [Next]_vars
  PROVE  ToCome'
<1>0. /\ TypeInv /\ ToCome /\ run \in Workers /\ run.i \in Nat
      /\ run.pc \in {"destroy", "release", "cancel", "fail"} => run.of \in Resource
      /\ Free.pc = "idle" /\ run.pending \subseteq Resource /\ run.todo \subseteq Resource
      /\ (run.kind = "none" <=> run.pc = "idle")
  BY LogFacts, WorkerFields DEF Free
<1>b. \A q \in run.pending : Cardinality(Before(run.pending, q)) \in Nat
  BY <1>0, BeforeIsFinite, FS_Subset, PoolAssumption
<1>1. ASSUME Plan
      PROVE  ToCome'
  BY <1>1, <1>0, PlanEffect DEF ToCome, Pending, Claiming
<1>2. ASSUME Call
      PROVE  ToCome'
  <2>1. run'.pc = "assign" /\ run'.pending = run.pending /\ run'.i = 1 /\ run.pc = "call"
    BY <1>2, <1>0, CallEffect
  <2>2. \A q \in Resource : ops'[q].create = ops[q].create
    BY <1>2, <1>0, CallEffect
  <2> QED BY <2>1, <2>2, <1>0 DEF ToCome, Claiming
<1>3. ASSUME CallFails
      PROVE  ToCome'
  <2>1. \/ run'.pc \notin {"call", "assign", "prepare"} \cup Claiming
        \/ run'.pc = "prepare" /\ run'.todo = Pending
    BY <1>3, <1>0, CallFailsEffect DEF Ends, Returns, Claiming
  <2>2. \A q \in Resource : ops'[q].create = ops[q].create
    BY <1>3, <1>0, CallFailsEffect
  <2> QED BY <2>1, <2>2, <1>0 DEF ToCome, Pending, Claiming
<1>4. ASSUME Claim
      PROVE  ToCome'
  <2>1. /\ run.pc = "assign" /\ run'.pc \in {"assign", "judge"} /\ run'.pending = run.pending
        /\ run'.i \in {run.i, run.i + 1} /\ ops' = ops
    BY <1>4, <1>0, ClaimEffect DEF Keeps
  <2>2. \A q \in run.pending : Cardinality(Before(run.pending, q)) >= run.i - 1 => ops[q].create = "started"
    BY <1>0, <2>1 DEF ToCome
  <2> QED BY <2>1, <2>2, <1>0, <1>b DEF ToCome, Claiming
<1>5. ASSUME Judge
      PROVE  ToCome'
  <2>1. run.pc \in Claiming /\ ops' = ops
    BY <1>5, <1>0, JudgeEffect DEF Claiming
  <2>2. \A q \in run.pending : Cardinality(Before(run.pending, q)) >= run.i - 1 => ops[q].create = "started"
    BY <1>0, <2>1 DEF ToCome
  <2>3. \/ /\ run'.pc \in {"assign"} \cup Claiming /\ run'.pending = run.pending
           /\ run'.i \in {run.i, run.i + 1}
        \/ run'.pc \notin {"call", "assign", "prepare"} \cup Claiming
        \/ run'.pc = "prepare" /\ run'.todo = Pending
    BY <1>5, <1>0, JudgeEffect DEF Ends, Returns, Claiming, Keeps
  <2>4. CASE run'.pc \in {"assign"} \cup Claiming
    BY <2>1, <2>2, <2>3, <2>4, <1>0, <1>b DEF ToCome, Claiming
  <2>5. CASE run'.pc \notin {"assign"} \cup Claiming
    BY <2>1, <2>3, <2>5, <1>0 DEF ToCome, Claiming, Pending
  <2> QED BY <2>4, <2>5
<1>6. ASSUME RecordAssigned
      PROVE  ToCome'
  <2>1. run.pc \in Claiming /\ Taker \in run.pending
        /\ Cardinality(Before(run.pending, Taker)) = run.i - 1
    BY <1>6, <1>0, RecordAssignedEffect, TakerStarted DEF Claiming
  <2>2. \A q \in run.pending : Cardinality(Before(run.pending, q)) >= run.i - 1 => ops[q].create = "started"
    BY <1>0, <2>1 DEF ToCome
  <2>3. \/ /\ run'.pc = "assign" /\ run'.pending = run.pending /\ run'.i = run.i + 1
           /\ \A q \in Resource : q # Taker => ops'[q] = ops[q]
        \/ run'.pc \notin {"call", "assign", "prepare"} \cup Claiming
        \/ run'.pc = "prepare" /\ run'.todo = Pending /\ ops' = ops
    BY <1>6, <1>0, RecordAssignedEffect DEF Ends, Returns, Claiming, Keeps
  <2>4. CASE run'.pc = "assign"
    <3>1. \A q \in run.pending : Cardinality(Before(run.pending, q)) >= run'.i - 1 =>
            q # Taker /\ Cardinality(Before(run.pending, q)) >= run.i - 1
      BY <2>1, <2>3, <2>4, <1>0, <1>b
    <3> QED BY <3>1, <2>1, <2>2, <2>3, <2>4, <1>0 DEF ToCome, Claiming
  <2>5. CASE run'.pc # "assign"
    BY <2>1, <2>3, <2>5, <1>0 DEF ToCome, Claiming, Pending
  <2> QED BY <2>4, <2>5
<1>7. ASSUME Check
      PROVE  ToCome'
  <2>1. \/ run'.pc \notin {"call", "assign", "prepare"} \cup Claiming
        \/ run'.pc = "prepare" /\ run'.todo = Pending
    BY <1>7, <1>0, CheckEffect DEF Ends, Returns, Claiming
  <2>2. \A q \in Resource : ops'[q].create = ops[q].create
    BY <1>7, <1>0, CheckEffect
  <2> QED BY <2>1, <2>2, <1>0 DEF ToCome, Pending, Claiming
<1>8. ASSUME Prepared
      PROVE  ToCome'
  BY <1>8, <1>0, PreparedEffect DEF ToCome, Claiming
<1>9. ASSUME Finalized \/ RecordFails
      PROVE  ToCome'
  <2>1. \/ run'.pc \notin {"call", "assign", "prepare"} \cup Claiming
        \/ run'.pc = "prepare" /\ run'.todo = Pending
    BY <1>9, <1>0, FinalizedEffect DEF Ends, Returns, Claiming
  <2>2. \A q \in Resource : ops'[q].create = ops[q].create
    BY <1>9, <1>0, FinalizedEffect
  <2> QED BY <2>1, <2>2, <1>0 DEF ToCome, Pending, Claiming
<1>10. ASSUME NEW r \in Resource, Prepare(r)
      PROVE  ToCome'
  <2>1. run'.pc = "prepare" /\ run'.todo = run.todo \ {r} /\ run.pc = "prepare"
    BY <1>10, <1>0, PrepareEffect
  <2>2. \A q \in Resource : q # r => ops'[q] = ops[q]
    BY <1>10, <1>0, PrepareEffect
  <2> QED BY <2>1, <2>2, <1>0 DEF ToCome, Claiming
<1>11. ASSUME NEW r \in Resource, Finalize(r)
      PROVE  ToCome'
  <2>1. run' = run /\ \A q \in Resource : ops[q].create = "started" => ops'[q].create = "started"
    BY <1>11, <1>0, FinalizeEffect
  <2> QED BY <2>1, <1>0 DEF ToCome
<1>12. ASSUME DestroyMachine
      PROVE  ToCome'
  <2>1. run.of \in Resource
    BY <1>12, <1>0 DEF DestroyMachine, Release, Cancel, DestroyFails
  <2>2. run'.pc \notin {"call", "assign", "prepare"} \cup Claiming
    BY <1>12, <1>0, <2>1, DestroyMachineEffect DEF Claiming
  <2> QED BY <2>2 DEF ToCome, Claiming
<1>13. ASSUME Release
      PROVE  ToCome'
  <2>1. run.of \in Resource
    BY <1>13, <1>0 DEF DestroyMachine, Release, Cancel, DestroyFails
  <2>2. run'.pc \notin {"call", "assign", "prepare"} \cup Claiming
    BY <1>13, <1>0, <2>1, ReleaseEffect DEF Claiming
  <2> QED BY <2>2 DEF ToCome, Claiming
<1>14. ASSUME Cancel
      PROVE  ToCome'
  <2>1. run.of \in Resource
    BY <1>14, <1>0 DEF DestroyMachine, Release, Cancel, DestroyFails
  <2>2. run'.pc \notin {"call", "assign", "prepare"} \cup Claiming
    BY <1>14, <1>0, <2>1, CancelEffect DEF Claiming
  <2> QED BY <2>2 DEF ToCome, Claiming
<1>15. ASSUME DestroyFails
      PROVE  ToCome'
  <2>1. run.of \in Resource
    BY <1>15, <1>0 DEF DestroyMachine, Release, Cancel, DestroyFails
  <2>2. run'.pc \notin {"call", "assign", "prepare"} \cup Claiming
    BY <1>15, <1>0, <2>1, DestroyFailsEffect DEF Claiming
  <2> QED BY <2>2 DEF ToCome, Claiming
<1>16. ASSUME NEW w \in work, Start(w)
      PROVE  ToCome'
  <2>1. run'.pc \notin {"call", "assign", "prepare"} \cup Claiming
    BY <1>16, <1>0, StartEffect DEF Claiming
  <2> QED BY <2>1 DEF ToCome, Claiming
<1>17. ASSUME Crash
      PROVE  ToCome'
  <2>1. run'.pc \notin {"call", "assign", "prepare"} \cup Claiming
    BY <1>17, <1>0, CrashEffect DEF Claiming
  <2> QED BY <2>1 DEF ToCome, Claiming
<1>18. ASSUME NEW r \in Resource, Create(r)
      PROVE  ToCome'
  <2>1. run' = run /\ \A q \in Resource : ops[q].create = "started" => ops'[q].create = "started"
    BY <1>18, <1>0, CreateEffect
  <2> QED BY <2>1, <1>0 DEF ToCome
<1>19. ASSUME NEW r \in Resource, Replay(r)
      PROVE  ToCome'
  BY <1>19, <1>0, ReplayEffect DEF ToCome
<1>20. ASSUME NEW r \in Resource, Resume(r)
      PROVE  ToCome'
  BY <1>20, <1>0, ResumeEffect DEF ToCome
<1>21. ASSUME NEW r \in Resource, DestroyRead(r)
      PROVE  ToCome'
  BY <1>21, <1>0, DestroyReadEffect DEF ToCome
<1>22. ASSUME NEW r \in Resource, DestroyLocked(r)
      PROVE  ToCome'
  <2>1. run' = run /\ \A q \in Resource : ops[q].create = "started" => ops'[q].create = "started"
    BY <1>22, <1>0, DestroyLockedEffect
  <2> QED BY <2>1, <1>0 DEF ToCome
<1>23. ASSUME NEW r \in Resource, RecordDestroyed(r)
      PROVE  ToCome'
  <2>1. run' = run /\ \A q \in Resource : ops[q].create = "started" => ops'[q].create = "started"
    BY <1>23, <1>0, RecordDestroyedEffect
  <2> QED BY <2>1, <1>0 DEF ToCome
<1>24. ASSUME NEW r \in Resource, SyncRead(r)
      PROVE  ToCome'
  BY <1>24, <1>0, SyncReadEffect DEF ToCome
<1>25. ASSUME NEW r \in Resource, SyncCall(r)
      PROVE  ToCome'
  BY <1>25, <1>0, SyncCallEffect DEF ToCome
<1>26. ASSUME NEW r \in Resource, SyncSave(r)
      PROVE  ToCome'
  BY <1>26, <1>0, SyncSaveEffect DEF ToCome
<1>27. ASSUME NEW r \in Resource, SyncRecord(r)
      PROVE  ToCome'
  <2>1. run' = run /\ \A q \in Resource : ops[q].create = "started" => ops'[q].create = "started"
    BY <1>27, <1>0, SyncRecordEffect
  <2> QED BY <2>1, <1>0 DEF ToCome
<1>28. ASSUME NEW m \in Machine, Arrive(m) \/ Leave(m) \/ Vanish(m)
      PROVE  ToCome'
  BY <1>28, <1>0, CloudEffect DEF ToCome
<1>29. CASE UNCHANGED vars
  BY <1>29, <1>0 DEF vars, ToCome
<1> QED BY <1>1, <1>2, <1>3, <1>4, <1>5, <1>6, <1>7, <1>8, <1>9, <1>10, <1>11, <1>12,
     <1>13, <1>14, <1>15, <1>16, <1>17, <1>18, <1>19, <1>20, <1>21, <1>22, <1>23, <1>24,
     <1>25, <1>26, <1>27, <1>28, <1>29 DEF Next, Reconcile, Finish

LEMMA LogStep ==
  ASSUME LogInv, [Next]_vars
  PROVE  LogInv'
<1>1. WorkerInv'
  BY LogFacts, TypeStep, WorkerStep DEF LogInv, WorkerInv
<1> QED BY <1>1, FreshStep, AskedStep, ToComeStep, NotServedStep DEF LogInv

LEMMA LogInit ==
  ASSUME Init
  PROVE  LogInv
<1>1. /\ run.kind = "none" /\ run.pc = "idle" /\ work = {}
      /\ \A r \in Resource : /\ ops[r].destroy = "none" /\ ops[r].created = Absent
                             /\ ops[r].compute = Absent /\ ~ops[r].bare
                             /\ own[r] = Absent /\ mem[r] = Absent /\ closing[r].step = "idle"
                             /\ ask[r].step = "idle" /\ redo[r].step = "idle" /\ sync[r].step = "idle"
  BY DEF Init, Free, Rest
<1>2. \A r \in Resource : Fresh(r) /\ Asked(r)
  BY <1>1 DEF Fresh, Asked
<1>3. ToCome /\ NotServed
  BY <1>1 DEF ToCome, NotServed, Claiming
<1>4. WorkerInv
  BY WorkerInit
<1> QED BY <1>2, <1>3, <1>4 DEF LogInv

LEMMA LogAlways == Spec => []LogInv
<1>1. Init => LogInv
  BY LogInit
<1>2. LogInv /\ [Next]_vars => LogInv'
  BY LogStep
<1> QED BY <1>1, <1>2, PTL DEF Spec

----------------------------------------------------------------------------
(* Which machine is whose.                                                 *)

Unended == {"none", "started", "canceling"}

\* A creation that has not ended has no machine; once it has, its row, what
\* is known of it and every request in progress name that machine or none.
MachineOK(r) ==
  LET m == ops[r].created.machine
  IN /\ own[r].machine \in born \cup {0}
     /\ ops[r].create \in Unended => m = 0
     /\ m # 0 => own[r].machine = m
     /\ ops[r].compute.machine \in {0, m} /\ mem[r].machine \in {0, m}
     /\ closing[r].compute.machine \in {0, m} /\ ask[r].compute.machine \in {0, m}
     /\ redo[r].compute.machine = 0
     /\ run.kind = "destroy" /\ run.of = r => run.result.machine \in {0, m}
     /\ sync[r].step # "idle" => m # 0 /\ sync[r].compute.machine = m
     /\ sync[r].step = "release" => m \notin machines
     /\ sync[r].step = "activate" => ops[r].create = "failed"
     /\ ops[r].create = "succeeded" => m # 0 /\ own[r].status \in {"active", "released"}

\* The row a claim leads to is that of the creation whose turn it is.
TakerOK ==
  run.pc \in Claiming =>
    /\ own[Taker].machine = Candidate
    /\ own[Taker].status = IF run.pc = "judge" THEN "claimed"
                           ELSE IF run.pc = "succeeded" THEN "active" ELSE "quarantined"

FreeOK == run.owned \subseteq born \cup {0} /\ run.free \subseteq born

MachineInv == LogInv /\ TakerOK /\ FreeOK /\ \A r \in Resource : MachineOK(r)

LEMMA MachineFacts ==
  ASSUME MachineInv
  PROVE  /\ LogInv /\ TypeInv /\ ToCome /\ NotServed /\ OfResource /\ TakerOK /\ FreeOK
         /\ run \in Workers /\ (run.kind = "none" <=> run.pc = "idle")
         /\ run.pc \in {"destroy", "release", "cancel", "fail"} =>
              run.kind = "destroy" /\ run.of \in Resource
         /\ \A r \in Resource : MachineOK(r) /\ Fresh(r) /\ Asked(r)
         /\ machines \subseteq born /\ born \subseteq Machine /\ 0 \notin Machine
         /\ Absent.machine = 0 /\ Absent.status = "none"
         /\ Free.kind = "none" /\ Free.pc = "idle" /\ Free.free = {} /\ Free.owned = {}
BY LogFacts, Types, AbsentFields, PoolAssumption DEF MachineInv, Free

\* The machine that is claimed is one of the pool's that ever were.
LEMMA CandidateKnown ==
  ASSUME MachineInv, run.pc \in {"assign"} \cup Claiming, Assigning
  PROVE  /\ Taker \in Resource /\ ops[Taker].create = "started" /\ Taker \in run.pending
         /\ Candidate \in born /\ Candidate \in Machine /\ Candidate # 0
         /\ Candidate \in run.free
         /\ ops[Taker].created.machine = 0 /\ sync[Taker].step = "idle"
         /\ run.kind = "destroy" => Taker # run.of
<1>1. /\ LogInv /\ FreeOK /\ \A r \in Resource : MachineOK(r)
      /\ born \subseteq Machine /\ 0 \notin Machine
  BY MachineFacts
<1>2. /\ Taker \in Resource /\ ops[Taker].create = "started" /\ Taker \in run.pending
      /\ Candidate \in run.free /\ Candidate \in Machine
      /\ run.kind = "destroy" => Taker # run.of
  BY <1>1, TakerStarted
<1> QED BY <1>1, <1>2 DEF FreeOK, MachineOK, Unended

LEMMA MachineStep ==
  ASSUME MachineInv, [Next]_vars, NEW q \in Resource
  PROVE  MachineOK(q)'
<1>0. /\ TypeInv /\ MachineOK(q) /\ Fresh(q) /\ ToCome /\ TakerOK /\ OfResource
      /\ run.pc \in {"destroy", "release", "cancel", "fail"} =>
           run.kind = "destroy" /\ run.of \in Resource
      /\ (run.kind = "none" <=> run.pc = "idle")
      /\ machines \subseteq born /\ born \subseteq Machine /\ 0 \notin Machine
      /\ Absent.machine = 0 /\ Free.kind = "none"
  BY MachineFacts
<1>1. ASSUME Plan
      PROVE  MachineOK(q)'
  BY <1>1, <1>0, PlanEffect DEF MachineOK, Onward
<1>2. ASSUME Call
      PROVE  MachineOK(q)'
  BY <1>2, <1>0, CallEffect DEF MachineOK, Onward
<1>3. ASSUME CallFails
      PROVE  MachineOK(q)'
  <2>1. run'.kind = "none" \/ Onward(run', run)
    BY <1>3, <1>0, CallFailsEffect DEF Ends, Returns, Keeps
  <2> QED BY <1>3, <1>0, <2>1, CallFailsEffect DEF MachineOK, Onward
<1>4. ASSUME Claim
      PROVE  MachineOK(q)'
  <2>1. /\ Taker \in Resource /\ ops[Taker].create = "started" /\ Candidate \in born
        /\ ops[Taker].created.machine = 0
    BY <1>4, <1>0, ClaimEffect, CandidateKnown
  <2> QED BY <1>4, <1>0, <2>1, ClaimEffect DEF MachineOK, Keeps, Onward
<1>5. ASSUME Judge
      PROVE  MachineOK(q)'
  <2>1. /\ Taker \in Resource /\ ops[Taker].create = "started" /\ Candidate \in born
        /\ ops[Taker].created.machine = 0
    BY <1>5, <1>0, JudgeEffect, CandidateKnown DEF Claiming
  <2>2. run'.kind = "none" \/ Onward(run', run)
    BY <1>5, <1>0, JudgeEffect DEF Ends, Returns, Keeps
  <2> QED BY <1>5, <1>0, <2>1, <2>2, JudgeEffect DEF MachineOK, Onward
<1>6. ASSUME RecordAssigned
      PROVE  MachineOK(q)'
  <2>1. /\ Taker \in Resource /\ ops[Taker].create = "started" /\ Candidate # 0
        /\ ops[Taker].created.machine = 0 /\ sync[Taker].step = "idle"
    BY <1>6, <1>0, RecordAssignedEffect, CandidateKnown DEF Claiming
  <2>2. run'.kind = "none" \/ Onward(run', run)
    BY <1>6, <1>0, RecordAssignedEffect DEF Ends, Returns, Keeps
  <2>3. /\ own[Taker].machine = Candidate
        /\ run.pc = "succeeded" => own[Taker].status = "active"
    BY <1>6, <1>0, RecordAssignedEffect DEF TakerOK, Claiming
  <2>4. CASE q = Taker
    <3>1. CASE ops' = ops /\ mem' = mem
      BY <1>6, <1>0, <2>2, <3>1, RecordAssignedEffect DEF MachineOK, Onward
    <3>2. CASE ops' # ops \/ mem' # mem
      <4>1. /\ ops'[q].create \in {"succeeded", "failed"}
            /\ ops'[q].create = "succeeded" => run.pc = "succeeded"
            /\ ops'[q].created.machine = Candidate /\ ops'[q].compute.machine = Candidate
            /\ mem'[q].machine = Candidate
            /\ UNCHANGED <<own, born, machines, closing, ask, redo, sync>>
        BY <1>6, <1>0, <2>1, <2>4, <3>2, RecordAssignedEffect
      <4>2. /\ own[q].machine \in born \cup {0}
            /\ closing[q].compute.machine = 0 /\ ask[q].compute.machine = 0
            /\ redo[q].compute.machine = 0 /\ sync[q].step = "idle"
            /\ run.kind = "destroy" /\ run.of = q => run.result.machine = 0
        BY <1>0, <2>1, <2>4 DEF MachineOK
      <4> QED BY <2>1, <2>2, <2>3, <2>4, <4>1, <4>2 DEF MachineOK, Onward, Unended
    <3> QED BY <3>1, <3>2
  <2>5. CASE q # Taker
    <3>1. /\ ops'[q] = ops[q] /\ mem'[q] = mem[q]
          /\ UNCHANGED <<own, born, machines, closing, ask, redo, sync>>
      BY <1>6, <1>0, <2>1, <2>5, RecordAssignedEffect
    <3> QED BY <1>0, <2>2, <3>1 DEF MachineOK, Onward
  <2> QED BY <2>4, <2>5
<1>7. ASSUME Check
      PROVE  MachineOK(q)'
  <2>1. run'.kind = "none" \/ Onward(run', run)
    BY <1>7, <1>0, CheckEffect DEF Ends, Returns, Keeps
  <2> QED BY <1>7, <1>0, <2>1, CheckEffect DEF MachineOK, Onward
<1>8. ASSUME Prepared
      PROVE  MachineOK(q)'
  BY <1>8, <1>0, PreparedEffect DEF MachineOK, Keeps, Onward
<1>9. ASSUME Finalized \/ RecordFails
      PROVE  MachineOK(q)'
  <2>1. run'.kind = "none" \/ Onward(run', run)
    BY <1>9, <1>0, FinalizedEffect DEF Ends, Returns, Keeps
  <2> QED BY <1>9, <1>0, <2>1, FinalizedEffect DEF MachineOK, Onward
<1>10. ASSUME NEW r \in Resource, Prepare(r)
      PROVE  MachineOK(q)'
  <2>1. ops[r].create = "started" /\ run.pc = "prepare"
    BY <1>10, <1>0, PrepareEffect DEF ToCome
  <2>2. CASE q = r
    BY <1>10, <1>0, <2>1, <2>2, PrepareEffect DEF MachineOK, Onward, Unended
  <2>3. CASE q # r
    BY <1>10, <1>0, <2>3, PrepareEffect DEF MachineOK, Onward
  <2> QED BY <2>2, <2>3
<1>11. ASSUME NEW r \in Resource, Finalize(r)
      PROVE  MachineOK(q)'
  BY <1>11, <1>0, FinalizeEffect DEF MachineOK, Unended
<1>12. ASSUME DestroyMachine
      PROVE  MachineOK(q)'
  <2>1. run.of \in Resource /\ run.kind = "destroy"
    BY <1>12, <1>0 DEF DestroyMachine, Release, Cancel, DestroyFails
  <2> QED BY <1>12, <1>0, <2>1, DestroyMachineEffect DEF MachineOK, Keeps, Onward
<1>13. ASSUME Release
      PROVE  MachineOK(q)'
  <2>1. run.of \in Resource /\ run.kind = "destroy"
    BY <1>13, <1>0 DEF DestroyMachine, Release, Cancel, DestroyFails
  <2> QED BY <1>13, <1>0, <2>1, ReleaseEffect DEF MachineOK, Keeps, Onward
<1>14. ASSUME Cancel
      PROVE  MachineOK(q)'
  <2>1. run.of \in Resource /\ run.kind = "destroy"
    BY <1>14, <1>0 DEF DestroyMachine, Release, Cancel, DestroyFails
  <2> QED BY <1>14, <1>0, <2>1, CancelEffect DEF MachineOK, Keeps, Onward, Unfinished, Unended
<1>15. ASSUME DestroyFails
      PROVE  MachineOK(q)'
  <2>1. run.of \in Resource /\ run.kind = "destroy"
    BY <1>15, <1>0 DEF DestroyMachine, Release, Cancel, DestroyFails
  <2> QED BY <1>15, <1>0, <2>1, DestroyFailsEffect DEF MachineOK, Keeps, Onward
<1>16. ASSUME NEW w \in work, Start(w)
      PROVE  MachineOK(q)'
  BY <1>16, <1>0, StartEffect DEF MachineOK
<1>17. ASSUME Crash
      PROVE  MachineOK(q)'
  BY <1>17, <1>0, CrashEffect DEF MachineOK
<1>18. ASSUME NEW r \in Resource, Create(r)
      PROVE  MachineOK(q)'
  BY <1>18, <1>0, CreateEffect DEF MachineOK, Unended, Fresh
<1>19. ASSUME NEW r \in Resource, Replay(r)
      PROVE  MachineOK(q)'
  BY <1>19, <1>0, ReplayEffect DEF MachineOK, Unended
<1>20. ASSUME NEW r \in Resource, Resume(r)
      PROVE  MachineOK(q)'
  BY <1>20, <1>0, ResumeEffect DEF MachineOK
<1>21. ASSUME NEW r \in Resource, DestroyRead(r)
      PROVE  MachineOK(q)'
  BY <1>21, <1>0, DestroyReadEffect DEF MachineOK
<1>22. ASSUME NEW r \in Resource, DestroyLocked(r)
      PROVE  MachineOK(q)'
  BY <1>22, <1>0, DestroyLockedEffect DEF MachineOK
<1>23. ASSUME NEW r \in Resource, RecordDestroyed(r)
      PROVE  MachineOK(q)'
  BY <1>23, <1>0, RecordDestroyedEffect DEF MachineOK
<1>24. ASSUME NEW r \in Resource, SyncRead(r)
      PROVE  MachineOK(q)'
  BY <1>24, <1>0, SyncReadEffect DEF MachineOK, SyncOnly, Unended
<1>25. ASSUME NEW r \in Resource, SyncCall(r)
      PROVE  MachineOK(q)'
  <2>1. CASE q # r
    BY <1>25, <1>0, <2>1, SyncCallEffect DEF MachineOK, SyncOnly
  <2>2. CASE q = r
    <3>1. /\ ops[r].created.machine # 0 /\ sync[r].compute.machine = ops[r].created.machine
          /\ ops[r].create \in {"succeeded", "failed"}
          /\ own[r].status = "quarantined" => ops[r].create = "failed"
      BY <1>25, <1>0, <2>2, SyncCallEffect, Types DEF MachineOK, Unended, Operations
    <3> QED BY <1>25, <1>0, <2>2, <3>1, SyncCallEffect DEF MachineOK
  <2> QED BY <2>1, <2>2
<1>26. ASSUME NEW r \in Resource, SyncSave(r)
      PROVE  MachineOK(q)'
  BY <1>26, <1>0, SyncSaveEffect DEF MachineOK, SyncOnly
<1>27. ASSUME NEW r \in Resource, SyncRecord(r)
      PROVE  MachineOK(q)'
  BY <1>27, <1>0, SyncRecordEffect DEF MachineOK, SyncOnly
<1>28. ASSUME NEW m \in Machine, Arrive(m) \/ Leave(m) \/ Vanish(m)
      PROVE  MachineOK(q)'
  <2>1. /\ born \subseteq born'
        /\ \A x \in born : x \in machines' => x \in machines
    BY <1>28, <1>0, CloudEffect DEF CloudStep
  <2> QED BY <1>28, <1>0, <2>1, CloudEffect DEF MachineOK
<1>29. CASE UNCHANGED vars
  BY <1>29, <1>0 DEF vars, MachineOK
<1> QED BY <1>1, <1>2, <1>3, <1>4, <1>5, <1>6, <1>7, <1>8, <1>9, <1>10, <1>11, <1>12,
     <1>13, <1>14, <1>15, <1>16, <1>17, <1>18, <1>19, <1>20, <1>21, <1>22, <1>23, <1>24,
     <1>25, <1>26, <1>27, <1>28, <1>29 DEF Next, Reconcile, Finish

LEMMA FreeStep ==
  ASSUME MachineInv, [Next]_vars
  PROVE  FreeOK'
<1>0. /\ TypeInv /\ FreeOK /\ machines \subseteq born
      /\ \A r \in Resource : own[r].machine \in born \cup {0}
      /\ run.pc \in {"destroy", "release", "cancel", "fail"} => run.of \in Resource
      /\ Free.free = {} /\ Free.owned = {}
  BY MachineFacts DEF MachineOK
<1>1. ASSUME Plan
      PROVE  FreeOK'
  <2>1. run'.free \subseteq born /\ \A r \in Held : own[r].machine \in born \cup {0}
    <3>1. run'.free = run.free
      BY <1>1, <1>0 DEF Plan
    <3> QED BY <3>1, <1>0 DEF FreeOK, Held
  <2> QED BY <1>1, <1>0, <2>1, PlanEffect DEF FreeOK
<1>2. ASSUME Call
      PROVE  FreeOK'
  BY <1>2, <1>0, CallEffect DEF FreeOK
<1>3. ASSUME CallFails
      PROVE  FreeOK'
  <2>1. run'.free \in {{}, run.free} /\ run'.owned \in {{}, run.owned}
    BY <1>3, <1>0, CallFailsEffect DEF Ends, Returns, Keeps
  <2>2. born' = born
    BY <1>3, <1>0, CallFailsEffect
  <2> QED BY <2>1, <2>2, <1>0 DEF FreeOK
<1>4. ASSUME Claim
      PROVE  FreeOK'
  BY <1>4, <1>0, ClaimEffect DEF FreeOK, Keeps
<1>5. ASSUME Judge
      PROVE  FreeOK'
  <2>1. run'.free \in {{}, run.free} /\ run'.owned \in {{}, run.owned}
    BY <1>5, <1>0, JudgeEffect DEF Ends, Returns, Keeps
  <2>2. born' = born
    BY <1>5, <1>0, JudgeEffect
  <2> QED BY <2>1, <2>2, <1>0 DEF FreeOK
<1>6. ASSUME RecordAssigned
      PROVE  FreeOK'
  <2>1. run'.free \in {{}, run.free} /\ run'.owned \in {{}, run.owned}
    BY <1>6, <1>0, RecordAssignedEffect DEF Ends, Returns, Keeps
  <2>2. born' = born
    BY <1>6, <1>0, RecordAssignedEffect
  <2> QED BY <2>1, <2>2, <1>0 DEF FreeOK
<1>7. ASSUME Check
      PROVE  FreeOK'
  <2>1. run'.free \in {{}, run.free} /\ run'.owned \in {{}, run.owned}
    BY <1>7, <1>0, CheckEffect DEF Ends, Returns, Keeps
  <2>2. born' = born
    BY <1>7, <1>0, CheckEffect
  <2> QED BY <2>1, <2>2, <1>0 DEF FreeOK
<1>8. ASSUME Prepared
      PROVE  FreeOK'
  BY <1>8, <1>0, PreparedEffect DEF FreeOK, Keeps
<1>9. ASSUME Finalized \/ RecordFails
      PROVE  FreeOK'
  <2>1. run'.free \in {{}, run.free} /\ run'.owned \in {{}, run.owned}
    BY <1>9, <1>0, FinalizedEffect DEF Ends, Returns, Keeps
  <2>2. born' = born
    BY <1>9, <1>0, FinalizedEffect
  <2> QED BY <2>1, <2>2, <1>0 DEF FreeOK
<1>10. ASSUME NEW r \in Resource, Prepare(r)
      PROVE  FreeOK'
  BY <1>10, <1>0, PrepareEffect DEF FreeOK
<1>11. ASSUME NEW r \in Resource, Finalize(r)
      PROVE  FreeOK'
  BY <1>11, <1>0, FinalizeEffect DEF FreeOK
<1>12. ASSUME DestroyMachine
      PROVE  FreeOK'
  <2>1. run.of \in Resource
    BY <1>12, <1>0 DEF DestroyMachine, Release, Cancel, DestroyFails
  <2> QED BY <1>12, <1>0, <2>1, DestroyMachineEffect DEF FreeOK, Keeps
<1>13. ASSUME Release
      PROVE  FreeOK'
  <2>1. run.of \in Resource
    BY <1>13, <1>0 DEF DestroyMachine, Release, Cancel, DestroyFails
  <2> QED BY <1>13, <1>0, <2>1, ReleaseEffect DEF FreeOK, Keeps
<1>14. ASSUME Cancel
      PROVE  FreeOK'
  <2>1. run.of \in Resource
    BY <1>14, <1>0 DEF DestroyMachine, Release, Cancel, DestroyFails
  <2> QED BY <1>14, <1>0, <2>1, CancelEffect DEF FreeOK, Keeps
<1>15. ASSUME DestroyFails
      PROVE  FreeOK'
  <2>1. run.of \in Resource
    BY <1>15, <1>0 DEF DestroyMachine, Release, Cancel, DestroyFails
  <2> QED BY <1>15, <1>0, <2>1, DestroyFailsEffect DEF FreeOK, Keeps
<1>16. ASSUME NEW w \in work, Start(w)
      PROVE  FreeOK'
  BY <1>16, <1>0, StartEffect DEF FreeOK
<1>17. ASSUME Crash
      PROVE  FreeOK'
  BY <1>17, <1>0, CrashEffect DEF FreeOK
<1>18. ASSUME NEW r \in Resource, Create(r)
      PROVE  FreeOK'
  BY <1>18, <1>0, CreateEffect DEF FreeOK
<1>19. ASSUME NEW r \in Resource, Replay(r)
      PROVE  FreeOK'
  BY <1>19, <1>0, ReplayEffect DEF FreeOK
<1>20. ASSUME NEW r \in Resource, Resume(r)
      PROVE  FreeOK'
  BY <1>20, <1>0, ResumeEffect DEF FreeOK
<1>21. ASSUME NEW r \in Resource, DestroyRead(r)
      PROVE  FreeOK'
  BY <1>21, <1>0, DestroyReadEffect DEF FreeOK
<1>22. ASSUME NEW r \in Resource, DestroyLocked(r)
      PROVE  FreeOK'
  BY <1>22, <1>0, DestroyLockedEffect DEF FreeOK
<1>23. ASSUME NEW r \in Resource, RecordDestroyed(r)
      PROVE  FreeOK'
  BY <1>23, <1>0, RecordDestroyedEffect DEF FreeOK
<1>24. ASSUME NEW r \in Resource, SyncRead(r)
      PROVE  FreeOK'
  BY <1>24, <1>0, SyncReadEffect DEF FreeOK
<1>25. ASSUME NEW r \in Resource, SyncCall(r)
      PROVE  FreeOK'
  BY <1>25, <1>0, SyncCallEffect DEF FreeOK
<1>26. ASSUME NEW r \in Resource, SyncSave(r)
      PROVE  FreeOK'
  BY <1>26, <1>0, SyncSaveEffect DEF FreeOK
<1>27. ASSUME NEW r \in Resource, SyncRecord(r)
      PROVE  FreeOK'
  BY <1>27, <1>0, SyncRecordEffect DEF FreeOK
<1>28. ASSUME NEW m \in Machine, Arrive(m) \/ Leave(m) \/ Vanish(m)
      PROVE  FreeOK'
  BY <1>28, <1>0, CloudEffect DEF FreeOK, CloudStep
<1>29. CASE UNCHANGED vars
  BY <1>29, <1>0 DEF vars, FreeOK
<1> QED BY <1>1, <1>2, <1>3, <1>4, <1>5, <1>6, <1>7, <1>8, <1>9, <1>10, <1>11, <1>12,
     <1>13, <1>14, <1>15, <1>16, <1>17, <1>18, <1>19, <1>20, <1>21, <1>22, <1>23, <1>24,
     <1>25, <1>26, <1>27, <1>28, <1>29 DEF Next, Reconcile, Finish

\* The turn is the same as long as the worker keeps its lists and its place.
LEMMA SameTurn ==
  ASSUME run'.pending = run.pending, run'.free = run.free, run'.i = run.i
  PROVE  Taker' = Taker /\ Candidate' = Candidate
BY DEF Taker, Candidate, Nth

LEMMA TakerStep ==
  ASSUME MachineInv, [Next]_vars
  PROVE  TakerOK'
<1>0. /\ TypeInv /\ TakerOK
      /\ run.pc \in {"destroy", "release", "cancel", "fail"} => run.of \in Resource
      /\ Free.pc = "idle" /\ (run.kind = "none" <=> run.pc = "idle")
      /\ run.pc \in Claiming => Assigning
      /\ run' = run => Taker' = Taker /\ Candidate' = Candidate
  BY MachineFacts, SameTurn DEF TypeInv
<1>b. run.pc \in Claiming =>
        Taker \in Resource /\ ops[Taker].create = "started" /\ sync[Taker].step = "idle"
  BY <1>0, CandidateKnown
<1>1. ASSUME Plan
      PROVE  TakerOK'
  <2>1. run'.pc \notin Claiming
    BY <1>1, <1>0, PlanEffect DEF Ends, Returns, Claiming
  <2> QED BY <2>1 DEF TakerOK
<1>2. ASSUME Call
      PROVE  TakerOK'
  <2>1. run'.pc \notin Claiming
    BY <1>2, <1>0, CallEffect DEF Ends, Returns, Claiming
  <2> QED BY <2>1 DEF TakerOK
<1>3. ASSUME CallFails
      PROVE  TakerOK'
  <2>1. run'.pc \notin Claiming
    BY <1>3, <1>0, CallFailsEffect DEF Ends, Returns, Claiming
  <2> QED BY <2>1 DEF TakerOK
<1>4. ASSUME Claim
      PROVE  TakerOK'
  <2>1. CASE run'.pc = "judge" /\ run'.i = run.i
    <3>1. /\ Taker' = Taker /\ Candidate' = Candidate
          /\ own'[Taker].status = "claimed" /\ own'[Taker].machine = Candidate
      BY <1>4, <1>0, <2>1, ClaimEffect, SameTurn DEF Keeps
    <3> QED BY <2>1, <3>1 DEF TakerOK
  <2>2. CASE run'.pc = "assign"
    BY <2>2 DEF TakerOK, Claiming
  <2> QED BY <1>4, <1>0, <2>1, <2>2, ClaimEffect
<1>5. ASSUME Judge
      PROVE  TakerOK'
  <2>1. CASE run'.pc \in Claiming
    <3>1. /\ Keeps(run', run) /\ run'.i = run.i /\ own'[Taker].machine = Candidate
          /\ \/ own'[Taker].status = "active" /\ run'.pc = "succeeded"
             \/ own'[Taker].status = "quarantined" /\ run'.pc = "quarantined"
      BY <1>5, <1>0, <2>1, JudgeEffect DEF Ends, Returns, Claiming
    <3>2. Taker' = Taker /\ Candidate' = Candidate
      BY <3>1, SameTurn DEF Keeps
    <3> QED BY <2>1, <3>1, <3>2 DEF TakerOK
  <2>2. CASE run'.pc \notin Claiming
    BY <2>2 DEF TakerOK
  <2> QED BY <2>1, <2>2
<1>6. ASSUME RecordAssigned
      PROVE  TakerOK'
  <2>1. run'.pc \notin Claiming
    BY <1>6, <1>0, RecordAssignedEffect DEF Ends, Returns, Claiming
  <2> QED BY <2>1 DEF TakerOK
<1>7. ASSUME Check
      PROVE  TakerOK'
  <2>1. run'.pc \notin Claiming
    BY <1>7, <1>0, CheckEffect DEF Ends, Returns, Claiming
  <2> QED BY <2>1 DEF TakerOK
<1>8. ASSUME Prepared
      PROVE  TakerOK'
  <2>1. run'.pc \notin Claiming
    BY <1>8, <1>0, PreparedEffect DEF Ends, Returns, Claiming
  <2> QED BY <2>1 DEF TakerOK
<1>9. ASSUME Finalized \/ RecordFails
      PROVE  TakerOK'
  <2>1. run'.pc \notin Claiming
    BY <1>9, <1>0, FinalizedEffect DEF Ends, Returns, Claiming
  <2> QED BY <2>1 DEF TakerOK
<1>10. ASSUME NEW r \in Resource, Prepare(r)
      PROVE  TakerOK'
  <2>1. run'.pc \notin Claiming
    BY <1>10, <1>0, PrepareEffect DEF Ends, Returns, Claiming
  <2> QED BY <2>1 DEF TakerOK
<1>11. ASSUME NEW r \in Resource, Finalize(r)
      PROVE  TakerOK'
  BY <1>11, <1>0, FinalizeEffect DEF TakerOK
<1>12. ASSUME DestroyMachine
      PROVE  TakerOK'
  <2>1. run.of \in Resource
    BY <1>12, <1>0 DEF DestroyMachine, Release, Cancel, DestroyFails
  <2>2. run'.pc \notin Claiming
    BY <1>12, <1>0, <2>1, DestroyMachineEffect DEF Claiming
  <2> QED BY <2>2 DEF TakerOK
<1>13. ASSUME Release
      PROVE  TakerOK'
  <2>1. run.of \in Resource
    BY <1>13, <1>0 DEF DestroyMachine, Release, Cancel, DestroyFails
  <2>2. run'.pc \notin Claiming
    BY <1>13, <1>0, <2>1, ReleaseEffect DEF Claiming
  <2> QED BY <2>2 DEF TakerOK
<1>14. ASSUME Cancel
      PROVE  TakerOK'
  <2>1. run.of \in Resource
    BY <1>14, <1>0 DEF DestroyMachine, Release, Cancel, DestroyFails
  <2>2. run'.pc \notin Claiming
    BY <1>14, <1>0, <2>1, CancelEffect DEF Claiming
  <2> QED BY <2>2 DEF TakerOK
<1>15. ASSUME DestroyFails
      PROVE  TakerOK'
  <2>1. run.of \in Resource
    BY <1>15, <1>0 DEF DestroyMachine, Release, Cancel, DestroyFails
  <2>2. run'.pc \notin Claiming
    BY <1>15, <1>0, <2>1, DestroyFailsEffect DEF Claiming
  <2> QED BY <2>2 DEF TakerOK
<1>16. ASSUME NEW w \in work, Start(w)
      PROVE  TakerOK'
  <2>1. run'.pc \notin Claiming
    BY <1>16, <1>0, StartEffect DEF Ends, Returns, Claiming
  <2> QED BY <2>1 DEF TakerOK
<1>17. ASSUME Crash
      PROVE  TakerOK'
  <2>1. run'.pc \notin Claiming
    BY <1>17, <1>0, CrashEffect DEF Ends, Returns, Claiming
  <2> QED BY <2>1 DEF TakerOK
<1>18. ASSUME NEW r \in Resource, Create(r)
      PROVE  TakerOK'
  BY <1>18, <1>0, CreateEffect DEF TakerOK
<1>19. ASSUME NEW r \in Resource, Replay(r)
      PROVE  TakerOK'
  BY <1>19, <1>0, ReplayEffect DEF TakerOK
<1>20. ASSUME NEW r \in Resource, Resume(r)
      PROVE  TakerOK'
  BY <1>20, <1>0, ResumeEffect DEF TakerOK
<1>21. ASSUME NEW r \in Resource, DestroyRead(r)
      PROVE  TakerOK'
  BY <1>21, <1>0, DestroyReadEffect DEF TakerOK
<1>22. ASSUME NEW r \in Resource, DestroyLocked(r)
      PROVE  TakerOK'
  BY <1>22, <1>0, DestroyLockedEffect DEF TakerOK
<1>23. ASSUME NEW r \in Resource, RecordDestroyed(r)
      PROVE  TakerOK'
  BY <1>23, <1>0, RecordDestroyedEffect DEF TakerOK
<1>24. ASSUME NEW r \in Resource, SyncRead(r)
      PROVE  TakerOK'
  BY <1>24, <1>0, SyncReadEffect DEF TakerOK
<1>25. ASSUME NEW r \in Resource, SyncCall(r)
      PROVE  TakerOK'
  BY <1>25, <1>0, SyncCallEffect DEF TakerOK
<1>26. ASSUME NEW r \in Resource, SyncSave(r)
      PROVE  TakerOK'
  <2>1. run.pc \in Claiming => r # Taker /\ own'[Taker] = own[Taker]
    BY <1>26, <1>0, <1>b, SyncSaveEffect
  <2> QED BY <1>26, <1>0, <2>1, SyncSaveEffect DEF TakerOK
<1>27. ASSUME NEW r \in Resource, SyncRecord(r)
      PROVE  TakerOK'
  BY <1>27, <1>0, SyncRecordEffect DEF TakerOK
<1>28. ASSUME NEW m \in Machine, Arrive(m) \/ Leave(m) \/ Vanish(m)
      PROVE  TakerOK'
  BY <1>28, <1>0, CloudEffect DEF TakerOK
<1>29. CASE UNCHANGED vars
  BY <1>29, <1>0 DEF vars, TakerOK
<1> QED BY <1>1, <1>2, <1>3, <1>4, <1>5, <1>6, <1>7, <1>8, <1>9, <1>10, <1>11, <1>12,
     <1>13, <1>14, <1>15, <1>16, <1>17, <1>18, <1>19, <1>20, <1>21, <1>22, <1>23, <1>24,
     <1>25, <1>26, <1>27, <1>28, <1>29 DEF Next, Reconcile, Finish

LEMMA MachineInit ==
  ASSUME Init
  PROVE  MachineInv
<1>1. /\ LogInv /\ Absent.machine = 0 /\ Absent.status = "none"
      /\ run.kind = "none" /\ run.pc = "idle" /\ run.owned = {} /\ run.free = {}
      /\ \A r \in Resource :
           /\ ops[r].create = "none" /\ ops[r].created = Absent /\ ops[r].compute = Absent
           /\ own[r] = Absent /\ mem[r] = Absent /\ closing[r].compute = Absent
           /\ ask[r].compute = Absent /\ redo[r].compute = Absent /\ sync[r].step = "idle"
  BY LogInit, AbsentFields DEF Init, Free, Rest
<1> QED BY <1>1 DEF MachineInv, TakerOK, FreeOK, MachineOK, Claiming

LEMMA MachineAll ==
  ASSUME MachineInv, [Next]_vars
  PROVE  MachineInv'
<1>1. LogInv'
  BY LogStep DEF MachineInv
<1> QED BY <1>1, MachineStep, FreeStep, TakerStep DEF MachineInv

----------------------------------------------------------------------------
(* Which rows agree with their creations while nothing is destroyed.       *)

InPool == {"assign"} \cup Claiming
Undisturbed(r) == ops[r].destroy = "none"

\* The last answer showed no machine, to a creation still waited for.
Empty(r) == Undisturbed(r) /\ ops[r].create = "started" /\ ops[r].bare

\* That answer is only believed while it is the one at hand.
BareOK ==
  /\ run.pc = "call" => \A r \in Resource : Empty(r) => r \in run.pending
  /\ run.pc \in InPool => \A r \in Resource : Empty(r) => run.free = {}
  /\ run.pc \in InPool \/ (run.pc = "prepare" /\ ~run.unknown) =>
       \A r \in Resource : Empty(r) => own[r].machine \notin machines

OwnerOK(r) ==
  Undisturbed(r) =>
    /\ sync[r].step = "activate" => own[r].status = "quarantined"
    /\ ops[r].create = "failed" /\ r \in Held =>
         own[r].machine = ops[r].created.machine \/ own[r].machine \notin machines
    /\ own[r].status = "released" \/ ops[r].create = "canceling" => own[r].machine \notin machines

OwnersInv == MachineInv /\ BareOK /\ \A r \in Resource : OwnerOK(r)

LEMMA BareStep ==
  ASSUME OwnersInv, [Next]_vars
  PROVE  BareOK'
<1>0. /\ TypeInv /\ BareOK /\ run \in Workers
      /\ \A r \in Resource : Fresh(r) /\ own[r].machine \in born \cup {0}
      /\ run.pc \in {"destroy", "release", "cancel", "fail"} => run.of \in Resource
      /\ Free.pc = "idle" /\ (run.kind = "none" <=> run.pc = "idle")
      /\ machines \subseteq born /\ born \subseteq Machine /\ 0 \notin Machine
      /\ run.pc \in Claiming => Assigning
  BY MachineFacts DEF OwnersInv, MachineOK, TypeInv
\* Nobody is in doubt while there is a machine to give.
<1>b. ASSUME run.pc \in InPool, Assigning
      PROVE  (\A r \in Resource : ~Empty(r)) /\ Taker \in Resource
  BY <1>0, <1>b, CandidateKnown DEF BareOK, InPool, OwnersInv
<1>1. ASSUME Plan
      PROVE  BareOK'
  <2>1. run'.pc = "call" /\ run'.pending = Pending /\ ops' = ops
    BY <1>1, <1>0, PlanEffect
  <2> QED BY <2>1 DEF BareOK, InPool, Claiming, Empty, Undisturbed, Pending
<1>2. ASSUME Call
      PROVE  BareOK'
  <2>1. /\ run'.pc = "assign" /\ run.pc = "call" /\ run'.free \subseteq machines
        /\ own' = own /\ machines' = machines
    BY <1>2, <1>0, CallEffect
  <2>2. ASSUME NEW q \in Resource, Empty(q)'
        PROVE  machines = {}
    <3>1. /\ run.pc = "call" /\ Undisturbed(q) /\ ops[q].create = "started"
          /\ IF q \in run.pending THEN machines = {} ELSE ops[q].bare
      <4>1. /\ run.pc = "call" /\ ops'[q].create = ops[q].create /\ ops'[q].destroy = ops[q].destroy
            /\ ops'[q].bare = IF q \in run.pending THEN machines = {} ELSE ops[q].bare
        BY <1>2, <1>0, CallEffect
      <4>2. ops'[q].create = "started" /\ ops'[q].destroy = "none" /\ ops'[q].bare
        BY <2>2 DEF Empty, Undisturbed
      <4> QED BY <4>1, <4>2 DEF Undisturbed
    <3> QED BY <3>1, <1>0 DEF BareOK, Empty
  <2> QED BY <2>1, <2>2, <1>0 DEF BareOK, InPool, Claiming
<1>3. ASSUME CallFails
      PROVE  BareOK'
  <2>1. run'.pc \notin {"call"} \cup InPool /\ (run'.pc = "prepare" => run'.unknown)
    BY <1>3, <1>0, CallFailsEffect DEF Ends, Returns, InPool, Claiming
  <2> QED BY <2>1 DEF BareOK, InPool
<1>4. ASSUME Claim
      PROVE  BareOK'
  <2>1. run.pc \in InPool /\ Assigning /\ ops' = ops
    BY <1>4, <1>0, ClaimEffect DEF InPool, Claiming
  <2>2. run'.pc # "call"
    BY <1>4, <1>0, ClaimEffect DEF Ends, Returns
  <2> QED BY <2>1, <2>2, <1>b DEF BareOK, Empty, Undisturbed
<1>5. ASSUME Judge
      PROVE  BareOK'
  <2>1. run.pc \in InPool /\ Assigning /\ ops' = ops
    BY <1>5, <1>0, JudgeEffect DEF InPool, Claiming
  <2>2. run'.pc # "call"
    BY <1>5, <1>0, JudgeEffect DEF Ends, Returns
  <2> QED BY <2>1, <2>2, <1>b DEF BareOK, Empty, Undisturbed
<1>6. ASSUME RecordAssigned
      PROVE  BareOK'
  <2>1. run.pc \in InPool /\ Assigning
    BY <1>6, <1>0, RecordAssignedEffect DEF InPool, Claiming
  <2>2. run'.pc # "call"
    BY <1>6, <1>0, RecordAssignedEffect DEF Ends, Returns
  <2>3. \A q \in Resource : Empty(q)' => Empty(q)
    BY <1>6, <1>0, <1>b, <2>1, RecordAssignedEffect DEF Empty, Undisturbed
  <2> QED BY <2>1, <2>2, <2>3, <1>b DEF BareOK
<1>7. ASSUME Check
      PROVE  BareOK'
  <2>1. /\ run'.pc \notin {"call"} \cup InPool /\ run.pc \in InPool
        /\ ops' = ops /\ own' = own /\ machines' = machines
    BY <1>7, <1>0, CheckEffect DEF Ends, Returns, InPool, Claiming
  <2> QED BY <2>1, <1>0 DEF BareOK, Empty, Undisturbed
<1>8. ASSUME Prepared
      PROVE  BareOK'
  <2>1. run'.pc \notin {"call", "prepare"} \cup InPool
    BY <1>8, <1>0, PreparedEffect DEF InPool, Claiming
  <2> QED BY <2>1 DEF BareOK, InPool
<1>9. ASSUME Finalized \/ RecordFails
      PROVE  BareOK'
  <2>1. run'.pc \notin {"call", "prepare"} \cup InPool
    BY <1>9, <1>0, FinalizedEffect DEF Returns, InPool, Claiming
  <2> QED BY <2>1 DEF BareOK, InPool
<1>10. ASSUME NEW r \in Resource, Prepare(r)
      PROVE  BareOK'
  <2>1. /\ run'.pc = "prepare" /\ run.pc = "prepare" /\ run'.unknown = run.unknown
        /\ own' = own /\ machines' = machines
        /\ \A q \in Resource : Empty(q)' => Empty(q)
    BY <1>10, <1>0, PrepareEffect DEF Empty, Undisturbed
  <2> QED BY <2>1, <1>0 DEF BareOK, InPool, Claiming
<1>11. ASSUME NEW r \in Resource, Finalize(r)
      PROVE  BareOK'
  <2>1. /\ run' = run /\ own' = own /\ machines' \subseteq machines
        /\ \A q \in Resource : Empty(q)' => Empty(q)
    BY <1>11, <1>0, FinalizeEffect DEF Empty, Undisturbed
  <2> QED BY <2>1, <1>0 DEF BareOK
<1>12. ASSUME DestroyMachine
      PROVE  BareOK'
  <2>1. run.of \in Resource
    BY <1>12, <1>0 DEF DestroyMachine, Release, Cancel, DestroyFails
  <2>2. run'.pc \notin {"call", "prepare"} \cup InPool
    BY <1>12, <1>0, <2>1, DestroyMachineEffect DEF InPool, Claiming
  <2> QED BY <2>2 DEF BareOK, InPool
<1>13. ASSUME Release
      PROVE  BareOK'
  <2>1. run.of \in Resource
    BY <1>13, <1>0 DEF DestroyMachine, Release, Cancel, DestroyFails
  <2>2. run'.pc \notin {"call", "prepare"} \cup InPool
    BY <1>13, <1>0, <2>1, ReleaseEffect DEF InPool, Claiming
  <2> QED BY <2>2 DEF BareOK, InPool
<1>14. ASSUME Cancel
      PROVE  BareOK'
  <2>1. run.of \in Resource
    BY <1>14, <1>0 DEF DestroyMachine, Release, Cancel, DestroyFails
  <2>2. run'.pc \notin {"call", "prepare"} \cup InPool
    BY <1>14, <1>0, <2>1, CancelEffect DEF InPool, Claiming
  <2> QED BY <2>2 DEF BareOK, InPool
<1>15. ASSUME DestroyFails
      PROVE  BareOK'
  <2>1. run.of \in Resource
    BY <1>15, <1>0 DEF DestroyMachine, Release, Cancel, DestroyFails
  <2>2. run'.pc \notin {"call", "prepare"} \cup InPool
    BY <1>15, <1>0, <2>1, DestroyFailsEffect DEF InPool, Claiming
  <2> QED BY <2>2 DEF BareOK, InPool
<1>16. ASSUME NEW w \in work, Start(w)
      PROVE  BareOK'
  <2>1. run'.pc \notin {"call", "prepare"} \cup InPool
    BY <1>16, <1>0, StartEffect DEF InPool, Claiming
  <2> QED BY <2>1 DEF BareOK, InPool
<1>17. ASSUME Crash
      PROVE  BareOK'
  <2>1. run'.pc \notin {"call", "prepare"} \cup InPool
    BY <1>17, <1>0, CrashEffect DEF InPool, Claiming
  <2> QED BY <2>1 DEF BareOK, InPool
<1>18. ASSUME NEW r \in Resource, Create(r)
      PROVE  BareOK'
  <2>1. /\ run' = run /\ own' = own /\ machines' = machines
        /\ \A q \in Resource : Empty(q)' => Empty(q)
    BY <1>18, <1>0, CreateEffect DEF Empty, Undisturbed, Fresh
  <2> QED BY <2>1, <1>0 DEF BareOK
<1>19. ASSUME NEW r \in Resource, Replay(r)
      PROVE  BareOK'
  <2>1. /\ run' = run /\ own' = own /\ machines' \subseteq machines
        /\ \A q \in Resource : Empty(q)' => Empty(q)
    BY <1>19, <1>0, ReplayEffect DEF Empty, Undisturbed
  <2> QED BY <2>1, <1>0 DEF BareOK
<1>20. ASSUME NEW r \in Resource, Resume(r)
      PROVE  BareOK'
  <2>1. /\ run' = run /\ own' = own /\ machines' \subseteq machines
        /\ \A q \in Resource : Empty(q)' => Empty(q)
    BY <1>20, <1>0, ResumeEffect DEF Empty, Undisturbed
  <2> QED BY <2>1, <1>0 DEF BareOK
<1>21. ASSUME NEW r \in Resource, DestroyRead(r)
      PROVE  BareOK'
  <2>1. /\ run' = run /\ own' = own /\ machines' \subseteq machines
        /\ \A q \in Resource : Empty(q)' => Empty(q)
    BY <1>21, <1>0, DestroyReadEffect DEF Empty, Undisturbed
  <2> QED BY <2>1, <1>0 DEF BareOK
<1>22. ASSUME NEW r \in Resource, DestroyLocked(r)
      PROVE  BareOK'
  <2>1. /\ run' = run /\ own' = own /\ machines' \subseteq machines
        /\ \A q \in Resource : Empty(q)' => Empty(q)
    BY <1>22, <1>0, DestroyLockedEffect DEF Empty, Undisturbed
  <2> QED BY <2>1, <1>0 DEF BareOK
<1>23. ASSUME NEW r \in Resource, RecordDestroyed(r)
      PROVE  BareOK'
  <2>1. /\ run' = run /\ own' = own /\ machines' \subseteq machines
        /\ \A q \in Resource : Empty(q)' => Empty(q)
    BY <1>23, <1>0, RecordDestroyedEffect DEF Empty, Undisturbed
  <2> QED BY <2>1, <1>0 DEF BareOK
<1>24. ASSUME NEW r \in Resource, SyncRead(r)
      PROVE  BareOK'
  <2>1. /\ run' = run /\ own' = own /\ machines' \subseteq machines
        /\ \A q \in Resource : Empty(q)' => Empty(q)
    BY <1>24, <1>0, SyncReadEffect DEF Empty, Undisturbed
  <2> QED BY <2>1, <1>0 DEF BareOK
<1>25. ASSUME NEW r \in Resource, SyncCall(r)
      PROVE  BareOK'
  <2>1. /\ run' = run /\ own' = own /\ machines' \subseteq machines
        /\ \A q \in Resource : Empty(q)' => Empty(q)
    BY <1>25, <1>0, SyncCallEffect DEF Empty, Undisturbed
  <2> QED BY <2>1, <1>0 DEF BareOK
<1>26. ASSUME NEW r \in Resource, SyncSave(r)
      PROVE  BareOK'
  <2>1. /\ run' = run /\ machines' = machines
        /\ \A q \in Resource : own'[q].machine = own[q].machine /\ (Empty(q)' => Empty(q))
    BY <1>26, <1>0, SyncSaveEffect DEF Empty, Undisturbed
  <2> QED BY <2>1, <1>0 DEF BareOK
<1>27. ASSUME NEW r \in Resource, SyncRecord(r)
      PROVE  BareOK'
  <2>1. /\ run' = run /\ own' = own /\ machines' \subseteq machines
        /\ \A q \in Resource : Empty(q)' => Empty(q)
    BY <1>27, <1>0, SyncRecordEffect DEF Empty, Undisturbed
  <2> QED BY <2>1, <1>0 DEF BareOK
<1>28. ASSUME NEW m \in Machine, Arrive(m) \/ Leave(m) \/ Vanish(m)
      PROVE  BareOK'
  <2>1. /\ run' = run /\ own' = own /\ ops' = ops
        /\ \A x \in born \cup {0} : x \in machines' => x \in machines
    BY <1>28, <1>0, CloudEffect DEF CloudStep
  <2> QED BY <2>1, <1>0 DEF BareOK, Empty, Undisturbed
<1>29. CASE UNCHANGED vars
  BY <1>29, <1>0 DEF vars, BareOK, Empty, Undisturbed
<1> QED BY <1>1, <1>2, <1>3, <1>4, <1>5, <1>6, <1>7, <1>8, <1>9, <1>10, <1>11, <1>12,
     <1>13, <1>14, <1>15, <1>16, <1>17, <1>18, <1>19, <1>20, <1>21, <1>22, <1>23, <1>24,
     <1>25, <1>26, <1>27, <1>28, <1>29 DEF Next, Reconcile, Finish

LEMMA OwnerStep ==
  ASSUME OwnersInv, [Next]_vars, NEW q \in Resource
  PROVE  OwnerOK(q)'
<1>0. /\ TypeInv /\ OwnerOK(q) /\ MachineOK(q) /\ Asked(q) /\ Fresh(q) /\ BareOK /\ ToCome
      /\ run.pc \in {"destroy", "release", "cancel", "fail"} =>
           run.kind = "destroy" /\ run.of \in Resource
      /\ machines \subseteq born /\ born \subseteq Machine /\ 0 \notin Machine
      /\ Absent.machine = 0 /\ Absent.status = "none"
      /\ own[q].machine \in born \cup {0}
  BY MachineFacts DEF OwnersInv, MachineOK
<1>1. ASSUME Plan
      PROVE  OwnerOK(q)'
  <2>1. /\ Undisturbed(q)' => Undisturbed(q)
        /\ sync'[q] = sync[q] /\ own'[q] = own[q] /\ machines' \subseteq machines
        /\ ops'[q].create = ops[q].create /\ ops'[q].created = ops[q].created
    BY <1>1, <1>0, PlanEffect DEF Undisturbed, SyncOnly
  <2> QED BY <2>1, <1>0 DEF OwnerOK, Held
<1>2. ASSUME Call
      PROVE  OwnerOK(q)'
  <2>1. /\ Undisturbed(q)' => Undisturbed(q)
        /\ sync'[q] = sync[q] /\ own'[q] = own[q] /\ machines' \subseteq machines
        /\ ops'[q].create = ops[q].create /\ ops'[q].created = ops[q].created
    BY <1>2, <1>0, CallEffect DEF Undisturbed, SyncOnly
  <2> QED BY <2>1, <1>0 DEF OwnerOK, Held
<1>3. ASSUME CallFails
      PROVE  OwnerOK(q)'
  <2>1. /\ Undisturbed(q)' => Undisturbed(q)
        /\ sync'[q] = sync[q] /\ own'[q] = own[q] /\ machines' \subseteq machines
        /\ ops'[q].create = ops[q].create /\ ops'[q].created = ops[q].created
    BY <1>3, <1>0, CallFailsEffect DEF Undisturbed, SyncOnly
  <2> QED BY <2>1, <1>0 DEF OwnerOK, Held
<1>4. ASSUME Claim
      PROVE  OwnerOK(q)'
  <2>1. Taker \in Resource /\ ops[Taker].create = "started" /\ sync[Taker].step = "idle"
    BY <1>4, <1>0, ClaimEffect, CandidateKnown DEF OwnersInv, Claiming
  <2> QED BY <1>4, <1>0, <2>1, ClaimEffect DEF OwnerOK, Undisturbed, Held
<1>5. ASSUME Judge
      PROVE  OwnerOK(q)'
  <2>1. Taker \in Resource /\ ops[Taker].create = "started" /\ sync[Taker].step = "idle"
    BY <1>5, <1>0, JudgeEffect, CandidateKnown DEF OwnersInv, Claiming
  <2>2. /\ ops' = ops /\ sync' = sync /\ machines' = machines
        /\ \/ own'[q] = own[q]
           \/ q = Taker /\ (own'[q].status = "released" => own'[q].machine \notin machines)
    BY <1>5, <1>0, JudgeEffect
  <2> QED BY <1>0, <2>1, <2>2 DEF OwnerOK, Undisturbed, Held
<1>6. ASSUME RecordAssigned
      PROVE  OwnerOK(q)'
  <2>1. Taker \in Resource /\ ops[Taker].create = "started" /\ sync[Taker].step = "idle"
    BY <1>6, <1>0, RecordAssignedEffect, CandidateKnown DEF OwnersInv, Claiming
  <2>2. run.pc \in Claiming /\ TakerOK
    BY <1>6, <1>0, RecordAssignedEffect, MachineFacts DEF OwnersInv, Claiming
  <2>3. own[Taker].machine = Candidate /\ own[Taker].status # "released"
    BY <2>2 DEF TakerOK
  <2>4. /\ own' = own /\ sync' = sync /\ machines' = machines
        /\ \/ ops'[q] = ops[q]
           \/ /\ q = Taker /\ ops'[q].created.machine = Candidate
              /\ ops'[q].create \in {"succeeded", "failed"}
    BY <1>6, <1>0, RecordAssignedEffect
  <2> QED BY <1>0, <2>1, <2>3, <2>4 DEF OwnerOK, Undisturbed, Held
<1>7. ASSUME Check
      PROVE  OwnerOK(q)'
  <2>1. /\ Undisturbed(q)' => Undisturbed(q)
        /\ sync'[q] = sync[q] /\ own'[q] = own[q] /\ machines' \subseteq machines
        /\ ops'[q].create = ops[q].create /\ ops'[q].created = ops[q].created
    BY <1>7, <1>0, CheckEffect DEF Undisturbed, SyncOnly
  <2> QED BY <2>1, <1>0 DEF OwnerOK, Held
<1>8. ASSUME Prepared
      PROVE  OwnerOK(q)'
  <2>1. /\ Undisturbed(q)' => Undisturbed(q)
        /\ sync'[q] = sync[q] /\ own'[q] = own[q] /\ machines' \subseteq machines
        /\ ops'[q].create = ops[q].create /\ ops'[q].created = ops[q].created
    BY <1>8, <1>0, PreparedEffect DEF Undisturbed, SyncOnly
  <2> QED BY <2>1, <1>0 DEF OwnerOK, Held
<1>9. ASSUME Finalized \/ RecordFails
      PROVE  OwnerOK(q)'
  <2>1. /\ Undisturbed(q)' => Undisturbed(q)
        /\ sync'[q] = sync[q] /\ own'[q] = own[q] /\ machines' \subseteq machines
        /\ ops'[q].create = ops[q].create /\ ops'[q].created = ops[q].created
    BY <1>9, <1>0, FinalizedEffect DEF Undisturbed, SyncOnly
  <2> QED BY <2>1, <1>0 DEF OwnerOK, Held
<1>10. ASSUME NEW r \in Resource, Prepare(r)
      PROVE  OwnerOK(q)'
  <2>1. ops[r].create = "started" /\ run.pc = "prepare"
    BY <1>10, <1>0, PrepareEffect DEF ToCome
  <2>2. Undisturbed(r) /\ ops[r].bare /\ ~run.unknown => own[r].machine \notin machines
    BY <1>0, <2>1 DEF BareOK, Empty
  <2> QED BY <1>10, <1>0, <2>1, <2>2, PrepareEffect DEF OwnerOK, Undisturbed, Held
<1>11. ASSUME NEW r \in Resource, Finalize(r)
      PROVE  OwnerOK(q)'
  BY <1>11, <1>0, FinalizeEffect DEF OwnerOK, MachineOK, Undisturbed, Held, SyncOnly, Fresh
<1>12. ASSUME DestroyMachine
      PROVE  OwnerOK(q)'
  <2>1. run.of \in Resource /\ run.kind = "destroy"
    BY <1>12, <1>0 DEF DestroyMachine, Release, Cancel, DestroyFails
  <2>2. Undisturbed(q)' => q # run.of
    BY <1>12, <1>0, <2>1, DestroyMachineEffect DEF Undisturbed, Asked
  <2> QED BY <1>12, <1>0, <2>1, <2>2, DestroyMachineEffect DEF OwnerOK, Undisturbed, Held
<1>13. ASSUME Release
      PROVE  OwnerOK(q)'
  <2>1. run.of \in Resource /\ run.kind = "destroy"
    BY <1>13, <1>0 DEF DestroyMachine, Release, Cancel, DestroyFails
  <2>2. Undisturbed(q)' => q # run.of
    BY <1>13, <1>0, <2>1, ReleaseEffect DEF Undisturbed, Asked
  <2> QED BY <1>13, <1>0, <2>1, <2>2, ReleaseEffect DEF OwnerOK, Undisturbed, Held
<1>14. ASSUME Cancel
      PROVE  OwnerOK(q)'
  <2>1. run.of \in Resource /\ run.kind = "destroy"
    BY <1>14, <1>0 DEF DestroyMachine, Release, Cancel, DestroyFails
  <2>2. Undisturbed(q)' => q # run.of
    BY <1>14, <1>0, <2>1, CancelEffect DEF Undisturbed, Asked
  <2> QED BY <1>14, <1>0, <2>1, <2>2, CancelEffect DEF OwnerOK, Undisturbed, Held
<1>15. ASSUME DestroyFails
      PROVE  OwnerOK(q)'
  <2>1. run.of \in Resource /\ run.kind = "destroy"
    BY <1>15, <1>0 DEF DestroyMachine, Release, Cancel, DestroyFails
  <2>2. Undisturbed(q)' => q # run.of
    BY <1>15, <1>0, <2>1, DestroyFailsEffect DEF Undisturbed, Asked
  <2> QED BY <1>15, <1>0, <2>1, <2>2, DestroyFailsEffect DEF OwnerOK, Undisturbed, Held
<1>16. ASSUME NEW w \in work, Start(w)
      PROVE  OwnerOK(q)'
  <2>1. /\ Undisturbed(q)' => Undisturbed(q)
        /\ sync'[q] = sync[q] /\ own'[q] = own[q] /\ machines' \subseteq machines
        /\ ops'[q].create = ops[q].create /\ ops'[q].created = ops[q].created
    BY <1>16, <1>0, StartEffect DEF Undisturbed, SyncOnly
  <2> QED BY <2>1, <1>0 DEF OwnerOK, Held
<1>17. ASSUME Crash
      PROVE  OwnerOK(q)'
  <2>1. /\ sync'[q].step = "idle" /\ own' = own /\ machines' = machines /\ ops' = ops
    BY <1>17, <1>0, CrashEffect
  <2> QED BY <2>1, <1>0 DEF OwnerOK, Undisturbed, Held
<1>18. ASSUME NEW r \in Resource, Create(r)
      PROVE  OwnerOK(q)'
  BY <1>18, <1>0, CreateEffect DEF OwnerOK, MachineOK, Undisturbed, Held, SyncOnly, Fresh
<1>19. ASSUME NEW r \in Resource, Replay(r)
      PROVE  OwnerOK(q)'
  <2>1. /\ Undisturbed(q)' => Undisturbed(q)
        /\ sync'[q] = sync[q] /\ own'[q] = own[q] /\ machines' \subseteq machines
        /\ ops'[q].create = ops[q].create /\ ops'[q].created = ops[q].created
    BY <1>19, <1>0, ReplayEffect DEF Undisturbed, SyncOnly
  <2> QED BY <2>1, <1>0 DEF OwnerOK, Held
<1>20. ASSUME NEW r \in Resource, Resume(r)
      PROVE  OwnerOK(q)'
  <2>1. /\ Undisturbed(q)' => Undisturbed(q)
        /\ sync'[q] = sync[q] /\ own'[q] = own[q] /\ machines' \subseteq machines
        /\ ops'[q].create = ops[q].create /\ ops'[q].created = ops[q].created
    BY <1>20, <1>0, ResumeEffect DEF Undisturbed, SyncOnly
  <2> QED BY <2>1, <1>0 DEF OwnerOK, Held
<1>21. ASSUME NEW r \in Resource, DestroyRead(r)
      PROVE  OwnerOK(q)'
  <2>1. /\ Undisturbed(q)' => Undisturbed(q)
        /\ sync'[q] = sync[q] /\ own'[q] = own[q] /\ machines' \subseteq machines
        /\ ops'[q].create = ops[q].create /\ ops'[q].created = ops[q].created
    BY <1>21, <1>0, DestroyReadEffect DEF Undisturbed, SyncOnly
  <2> QED BY <2>1, <1>0 DEF OwnerOK, Held
<1>22. ASSUME NEW r \in Resource, DestroyLocked(r)
      PROVE  OwnerOK(q)'
  <2>1. /\ Undisturbed(q)' => Undisturbed(q)
        /\ sync'[q] = sync[q] /\ own'[q] = own[q] /\ machines' \subseteq machines
        /\ ops'[q].create = ops[q].create /\ ops'[q].created = ops[q].created
    BY <1>22, <1>0, DestroyLockedEffect DEF Undisturbed, SyncOnly
  <2> QED BY <2>1, <1>0 DEF OwnerOK, Held
<1>23. ASSUME NEW r \in Resource, RecordDestroyed(r)
      PROVE  OwnerOK(q)'
  <2>1. /\ Undisturbed(q)' => Undisturbed(q)
        /\ sync'[q] = sync[q] /\ own'[q] = own[q] /\ machines' \subseteq machines
        /\ ops'[q].create = ops[q].create /\ ops'[q].created = ops[q].created
    BY <1>23, <1>0, RecordDestroyedEffect DEF Undisturbed, SyncOnly
  <2> QED BY <2>1, <1>0 DEF OwnerOK, Held
<1>24. ASSUME NEW r \in Resource, SyncRead(r)
      PROVE  OwnerOK(q)'
  BY <1>24, <1>0, SyncReadEffect DEF OwnerOK, Undisturbed, Held, SyncOnly
<1>25. ASSUME NEW r \in Resource, SyncCall(r)
      PROVE  OwnerOK(q)'
  BY <1>25, <1>0, SyncCallEffect DEF OwnerOK, Undisturbed, Held, SyncOnly
<1>26. ASSUME NEW r \in Resource, SyncSave(r)
      PROVE  OwnerOK(q)'
  <2>1. CASE q # r
    BY <1>26, <1>0, <2>1, SyncSaveEffect DEF OwnerOK, Undisturbed, Held, SyncOnly
  <2>2. CASE q = r
    <3>1. /\ own[r].machine = ops[r].created.machine
          /\ sync[r].step = "release" => own[r].machine \notin machines
      BY <1>26, <1>0, <2>2, SyncSaveEffect DEF MachineOK
    <3> QED BY <1>26, <1>0, <2>2, <3>1, SyncSaveEffect DEF OwnerOK, Undisturbed, Held
  <2> QED BY <2>1, <2>2
<1>27. ASSUME NEW r \in Resource, SyncRecord(r)
      PROVE  OwnerOK(q)'
  BY <1>27, <1>0, SyncRecordEffect DEF OwnerOK, Undisturbed, Held, SyncOnly
<1>28. ASSUME NEW m \in Machine, Arrive(m) \/ Leave(m) \/ Vanish(m)
      PROVE  OwnerOK(q)'
  <2>1. /\ sync' = sync /\ own' = own /\ ops' = ops
        /\ own[q].machine \in machines' => own[q].machine \in machines
    BY <1>28, <1>0, CloudEffect DEF CloudStep
  <2> QED BY <2>1, <1>0 DEF OwnerOK, Undisturbed, Held
<1>29. CASE UNCHANGED vars
  BY <1>29, <1>0 DEF vars, OwnerOK, Undisturbed, Held
<1> QED BY <1>1, <1>2, <1>3, <1>4, <1>5, <1>6, <1>7, <1>8, <1>9, <1>10, <1>11, <1>12,
     <1>13, <1>14, <1>15, <1>16, <1>17, <1>18, <1>19, <1>20, <1>21, <1>22, <1>23, <1>24,
     <1>25, <1>26, <1>27, <1>28, <1>29 DEF Next, Reconcile, Finish

LEMMA OwnersStep ==
  ASSUME OwnersInv, [Next]_vars
  PROVE  OwnersInv'
<1>1. MachineInv'
  BY MachineAll DEF OwnersInv
<1> QED BY <1>1, BareStep, OwnerStep DEF OwnersInv

LEMMA OwnersInit ==
  ASSUME Init
  PROVE  OwnersInv
<1>1. /\ MachineInv /\ Absent.status = "none" /\ run.pc = "idle"
      /\ \A r \in Resource :
           ops[r].create = "none" /\ own[r] = Absent /\ sync[r].step = "idle"
  BY MachineInit, AbsentFields DEF Init, Free, Rest
<1> QED BY <1>1 DEF OwnersInv, BareOK, OwnerOK, InPool, Claiming, Held

\* No step gives a machine to a second row: a claim takes one no other row
\* has, and every other write of a row keeps its machine.
OneOwner ==
  \A q, r \in Resource : own[q].machine = own[r].machine /\ own[q].machine # 0 => q = r
SameMachines == \A q \in Resource : own'[q].machine = own[q].machine

LEMMA OneOwnerStep ==
  ASSUME MachineInv, OneOwner, [Next]_vars
  PROVE  OneOwner'
<1>0. /\ TypeInv /\ TakerOK /\ OfResource
      /\ run.pc \in {"destroy", "release", "cancel", "fail"} =>
           run.kind = "destroy" /\ run.of \in Resource
  BY MachineFacts
<1>s. SameMachines => OneOwner'
  BY DEF SameMachines, OneOwner
<1>1. ASSUME Plan
      PROVE  OneOwner'
  BY <1>1, <1>0, <1>s, PlanEffect DEF SameMachines
<1>2. ASSUME Call
      PROVE  OneOwner'
  BY <1>2, <1>0, <1>s, CallEffect DEF SameMachines
<1>3. ASSUME CallFails
      PROVE  OneOwner'
  BY <1>3, <1>0, <1>s, CallFailsEffect DEF SameMachines
<1>4. ASSUME Claim
      PROVE  OneOwner'
  <2>1. CASE /\ own'[Taker].machine = Candidate
             /\ \A q \in Resource \ {Taker} : own[q].machine # Candidate
             /\ \A q \in Resource : q # Taker => own'[q] = own[q]
    BY <2>1 DEF OneOwner
  <2>2. CASE own' = own
    BY <2>2, <1>s DEF SameMachines
  <2> QED BY <1>4, <1>0, <2>1, <2>2, ClaimEffect
<1>5. ASSUME Judge
      PROVE  OneOwner'
  <2>1. own[Taker].machine = Candidate
    BY <1>5, <1>0, JudgeEffect DEF TakerOK, Claiming
  <2> QED BY <1>5, <1>0, <1>s, <2>1, JudgeEffect DEF SameMachines
<1>6. ASSUME RecordAssigned
      PROVE  OneOwner'
  BY <1>6, <1>0, <1>s, RecordAssignedEffect DEF SameMachines
<1>7. ASSUME Check
      PROVE  OneOwner'
  BY <1>7, <1>0, <1>s, CheckEffect DEF SameMachines
<1>8. ASSUME Prepared
      PROVE  OneOwner'
  BY <1>8, <1>0, <1>s, PreparedEffect DEF SameMachines
<1>9. ASSUME Finalized \/ RecordFails
      PROVE  OneOwner'
  BY <1>9, <1>0, <1>s, FinalizedEffect DEF SameMachines
<1>10. ASSUME NEW r \in Resource, Prepare(r)
      PROVE  OneOwner'
  BY <1>10, <1>0, <1>s, PrepareEffect DEF SameMachines
<1>11. ASSUME NEW r \in Resource, Finalize(r)
      PROVE  OneOwner'
  BY <1>11, <1>0, <1>s, FinalizeEffect DEF SameMachines
<1>12. ASSUME DestroyMachine
      PROVE  OneOwner'
  <2>1. run.of \in Resource
    BY <1>12, <1>0 DEF DestroyMachine
  <2> QED BY <1>12, <1>0, <1>s, <2>1, DestroyMachineEffect DEF SameMachines
<1>13. ASSUME Release
      PROVE  OneOwner'
  <2>1. run.of \in Resource
    BY <1>13, <1>0 DEF Release
  <2> QED BY <1>13, <1>0, <1>s, <2>1, ReleaseEffect DEF SameMachines
<1>14. ASSUME Cancel
      PROVE  OneOwner'
  <2>1. run.of \in Resource
    BY <1>14, <1>0 DEF Cancel
  <2> QED BY <1>14, <1>0, <1>s, <2>1, CancelEffect DEF SameMachines
<1>15. ASSUME DestroyFails
      PROVE  OneOwner'
  <2>1. run.of \in Resource
    BY <1>15, <1>0 DEF DestroyFails
  <2> QED BY <1>15, <1>0, <1>s, <2>1, DestroyFailsEffect DEF SameMachines
<1>16. ASSUME NEW w \in work, Start(w)
      PROVE  OneOwner'
  BY <1>16, <1>0, <1>s, StartEffect DEF SameMachines
<1>17. ASSUME Crash
      PROVE  OneOwner'
  BY <1>17, <1>0, <1>s, CrashEffect DEF SameMachines
<1>18. ASSUME NEW r \in Resource, Create(r)
      PROVE  OneOwner'
  BY <1>18, <1>0, <1>s, CreateEffect DEF SameMachines
<1>19. ASSUME NEW r \in Resource, Replay(r)
      PROVE  OneOwner'
  BY <1>19, <1>0, <1>s, ReplayEffect DEF SameMachines
<1>20. ASSUME NEW r \in Resource, Resume(r)
      PROVE  OneOwner'
  BY <1>20, <1>0, <1>s, ResumeEffect DEF SameMachines
<1>21. ASSUME NEW r \in Resource, DestroyRead(r)
      PROVE  OneOwner'
  BY <1>21, <1>0, <1>s, DestroyReadEffect DEF SameMachines
<1>22. ASSUME NEW r \in Resource, DestroyLocked(r)
      PROVE  OneOwner'
  BY <1>22, <1>0, <1>s, DestroyLockedEffect DEF SameMachines
<1>23. ASSUME NEW r \in Resource, RecordDestroyed(r)
      PROVE  OneOwner'
  BY <1>23, <1>0, <1>s, RecordDestroyedEffect DEF SameMachines
<1>24. ASSUME NEW r \in Resource, SyncRead(r)
      PROVE  OneOwner'
  BY <1>24, <1>0, <1>s, SyncReadEffect DEF SameMachines
<1>25. ASSUME NEW r \in Resource, SyncCall(r)
      PROVE  OneOwner'
  BY <1>25, <1>0, <1>s, SyncCallEffect DEF SameMachines
<1>26. ASSUME NEW r \in Resource, SyncSave(r)
      PROVE  OneOwner'
  BY <1>26, <1>0, <1>s, SyncSaveEffect DEF SameMachines
<1>27. ASSUME NEW r \in Resource, SyncRecord(r)
      PROVE  OneOwner'
  BY <1>27, <1>0, <1>s, SyncRecordEffect DEF SameMachines
<1>28. ASSUME NEW m \in Machine, Arrive(m) \/ Leave(m) \/ Vanish(m)
      PROVE  OneOwner'
  BY <1>28, <1>0, <1>s, CloudEffect DEF SameMachines
<1>29. CASE UNCHANGED vars
  BY <1>29, <1>s DEF vars, SameMachines
<1> QED BY <1>1, <1>2, <1>3, <1>4, <1>5, <1>6, <1>7, <1>8, <1>9, <1>10, <1>11, <1>12,
     <1>13, <1>14, <1>15, <1>16, <1>17, <1>18, <1>19, <1>20, <1>21, <1>22, <1>23, <1>24,
     <1>25, <1>26, <1>27, <1>28, <1>29 DEF Next, Reconcile, Finish

\* A machine has one owner; while nobody asks for its destruction, an
\* ownership row and the record of its creation agree, whatever fails, dies,
\* or is read back meanwhile.
THEOREM OwnersStayTrue == Spec => []OwnersAreTrue
<1>1. Init => OwnersInv /\ OneOwner
  <2>1. Init => \A r \in Resource : own[r].machine = 0
    BY AbsentFields DEF Init
  <2> QED BY OwnersInit, <2>1 DEF OneOwner
<1>2. OwnersInv /\ OneOwner /\ [Next]_vars => OwnersInv' /\ OneOwner'
  BY OwnersStep, OneOwnerStep DEF OwnersInv
<1>3. OwnersInv /\ OneOwner => OwnersAreTrue
  <2> SUFFICES ASSUME OwnersInv, NEW r \in Resource, Undisturbed(r)
               PROVE  /\ ops[r].create = "succeeded" =>
                           /\ own[r].status \in {"active", "released"}
                           /\ own[r].machine = ops[r].created.machine
                      /\ ops[r].create = "failed" /\ r \in Held =>
                           \/ own[r].machine = ops[r].created.machine
                           \/ own[r].machine \notin machines
                      /\ own[r].status = "released" => own[r].machine \notin machines
    BY DEF OwnersAreTrue, OneOwner, Undisturbed
  <2>1. OwnerOK(r) /\ MachineOK(r)
    BY MachineFacts DEF OwnersInv
  <2> QED BY <2>1 DEF OwnerOK, MachineOK
<1> QED BY <1>1, <1>2, <1>3, PTL DEF Spec

----------------------------------------------------------------------------
(* What a destruction leaves behind.                                       *)

\* Only a readback puts the row of a destroyed allocation back in use.
Loose(r) == r \in Held => r \in Synced

SettledOK(r) ==
  /\ closing[r].step = "succeeded" \/ ops[r].destroy = "succeeded" =>
       ops[r].create \notin Unended /\ Loose(r)
  /\ run.kind = "destroy" /\ run.of = r /\ run.pc \notin {"destroy", "release", "fail"} => Loose(r)
  /\ sync[r].step # "idle" => r \in Synced

SettledInv == MachineInv /\ \A r \in Resource : SettledOK(r)

LEMMA SettledStep ==
  ASSUME SettledInv, [Next]_vars, NEW q \in Resource
  PROVE  SettledOK(q)'
<1>0. /\ TypeInv /\ SettledOK(q) /\ Asked(q) /\ Fresh(q) /\ ToCome /\ OfResource
      /\ run.pc \in {"destroy", "release", "cancel", "fail"} =>
           run.kind = "destroy" /\ run.of \in Resource
      /\ Free.kind = "none" /\ (run.kind = "none" <=> run.pc = "idle")
  BY MachineFacts DEF SettledInv
<1>1. ASSUME Plan
      PROVE  SettledOK(q)'
  <2>1. /\ closing' = closing /\ ops'[q].create = ops[q].create
        /\ ops'[q].destroy = ops[q].destroy /\ own'[q] = own[q] /\ sync' = sync
    BY <1>1, <1>0, PlanEffect
  <2>2. \/ run'.kind = "none"
        \/ /\ Onward(run', run)
           /\ run.pc \notin {"destroy", "release", "fail"} \/ run'.pc \in {"destroy", "release", "fail"}
    BY <1>1, <1>0, PlanEffect DEF Ends, Returns, Keeps, Claiming
  <2> QED BY <2>1, <2>2, <1>0 DEF SettledOK, Loose, Held, Onward
<1>2. ASSUME Call
      PROVE  SettledOK(q)'
  <2>1. /\ closing' = closing /\ ops'[q].create = ops[q].create
        /\ ops'[q].destroy = ops[q].destroy /\ own'[q] = own[q] /\ sync' = sync
    BY <1>2, <1>0, CallEffect
  <2>2. \/ run'.kind = "none"
        \/ /\ Onward(run', run)
           /\ run.pc \notin {"destroy", "release", "fail"} \/ run'.pc \in {"destroy", "release", "fail"}
    BY <1>2, <1>0, CallEffect DEF Ends, Returns, Keeps, Claiming
  <2> QED BY <2>1, <2>2, <1>0 DEF SettledOK, Loose, Held, Onward
<1>3. ASSUME CallFails
      PROVE  SettledOK(q)'
  <2>1. /\ closing' = closing /\ ops'[q].create = ops[q].create
        /\ ops'[q].destroy = ops[q].destroy /\ own'[q] = own[q] /\ sync' = sync
    BY <1>3, <1>0, CallFailsEffect
  <2>2. \/ run'.kind = "none"
        \/ /\ Onward(run', run)
           /\ run.pc \notin {"destroy", "release", "fail"} \/ run'.pc \in {"destroy", "release", "fail"}
    BY <1>3, <1>0, CallFailsEffect DEF Ends, Returns, Keeps, Claiming
  <2> QED BY <2>1, <2>2, <1>0 DEF SettledOK, Loose, Held, Onward
<1>4. ASSUME Claim
      PROVE  SettledOK(q)'
  <2>1. /\ Taker \in Resource /\ ops[Taker].create = "started"
        /\ run.kind = "destroy" => Taker # run.of
    BY <1>4, <1>0, ClaimEffect, CandidateKnown DEF SettledInv, Claiming
  <2>2. \/ run'.kind = "none"
        \/ Onward(run', run) /\ run.pc \notin {"destroy", "release", "fail"}
    BY <1>4, <1>0, ClaimEffect DEF Ends, Returns, Keeps
  <2>3. /\ closing' = closing /\ sync' = sync /\ ops'[q].destroy = ops[q].destroy
        /\ q # Taker => own'[q] = own[q] /\ ops'[q].create = ops[q].create
        /\ ops[q].create \notin Unended => ops'[q].create \notin Unended
    BY <1>4, <1>0, <2>1, ClaimEffect DEF Unended
  <2>4. CASE q = Taker
    BY <1>0, <2>1, <2>2, <2>3, <2>4 DEF SettledOK, Onward, Unended
  <2>5. CASE q # Taker
    BY <1>0, <2>2, <2>3, <2>5 DEF SettledOK, Onward, Loose, Held
  <2> QED BY <2>4, <2>5
<1>5. ASSUME Judge
      PROVE  SettledOK(q)'
  <2>1. /\ Taker \in Resource /\ ops[Taker].create = "started"
        /\ run.kind = "destroy" => Taker # run.of
    BY <1>5, <1>0, JudgeEffect, CandidateKnown DEF SettledInv, Claiming
  <2>2. \/ run'.kind = "none"
        \/ Onward(run', run) /\ run.pc \notin {"destroy", "release", "fail"}
    BY <1>5, <1>0, JudgeEffect DEF Ends, Returns, Keeps
  <2>3. /\ closing' = closing /\ sync' = sync /\ ops'[q].destroy = ops[q].destroy
        /\ q # Taker => own'[q] = own[q] /\ ops'[q].create = ops[q].create
        /\ ops[q].create \notin Unended => ops'[q].create \notin Unended
    BY <1>5, <1>0, <2>1, JudgeEffect DEF Unended
  <2>4. CASE q = Taker
    BY <1>0, <2>1, <2>2, <2>3, <2>4 DEF SettledOK, Onward, Unended
  <2>5. CASE q # Taker
    BY <1>0, <2>2, <2>3, <2>5 DEF SettledOK, Onward, Loose, Held
  <2> QED BY <2>4, <2>5
<1>6. ASSUME RecordAssigned
      PROVE  SettledOK(q)'
  <2>1. /\ Taker \in Resource /\ ops[Taker].create = "started"
        /\ run.kind = "destroy" => Taker # run.of
    BY <1>6, <1>0, RecordAssignedEffect, CandidateKnown DEF SettledInv, Claiming
  <2>2. \/ run'.kind = "none"
        \/ Onward(run', run) /\ run.pc \notin {"destroy", "release", "fail"}
    BY <1>6, <1>0, RecordAssignedEffect DEF Ends, Returns, Keeps
  <2>3. /\ closing' = closing /\ sync' = sync /\ ops'[q].destroy = ops[q].destroy
        /\ q # Taker => own'[q] = own[q] /\ ops'[q].create = ops[q].create
        /\ ops[q].create \notin Unended => ops'[q].create \notin Unended
    BY <1>6, <1>0, <2>1, RecordAssignedEffect DEF Unended
  <2>4. CASE q = Taker
    BY <1>0, <2>1, <2>2, <2>3, <2>4 DEF SettledOK, Onward, Unended
  <2>5. CASE q # Taker
    BY <1>0, <2>2, <2>3, <2>5 DEF SettledOK, Onward, Loose, Held
  <2> QED BY <2>4, <2>5
<1>7. ASSUME Check
      PROVE  SettledOK(q)'
  <2>1. /\ closing' = closing /\ ops'[q].create = ops[q].create
        /\ ops'[q].destroy = ops[q].destroy /\ own'[q] = own[q] /\ sync' = sync
    BY <1>7, <1>0, CheckEffect
  <2>2. \/ run'.kind = "none"
        \/ /\ Onward(run', run)
           /\ run.pc \notin {"destroy", "release", "fail"} \/ run'.pc \in {"destroy", "release", "fail"}
    BY <1>7, <1>0, CheckEffect DEF Ends, Returns, Keeps, Claiming
  <2> QED BY <2>1, <2>2, <1>0 DEF SettledOK, Loose, Held, Onward
<1>8. ASSUME Prepared
      PROVE  SettledOK(q)'
  <2>1. /\ closing' = closing /\ ops'[q].create = ops[q].create
        /\ ops'[q].destroy = ops[q].destroy /\ own'[q] = own[q] /\ sync' = sync
    BY <1>8, <1>0, PreparedEffect
  <2>2. \/ run'.kind = "none"
        \/ /\ Onward(run', run)
           /\ run.pc \notin {"destroy", "release", "fail"} \/ run'.pc \in {"destroy", "release", "fail"}
    BY <1>8, <1>0, PreparedEffect DEF Ends, Returns, Keeps, Claiming
  <2> QED BY <2>1, <2>2, <1>0 DEF SettledOK, Loose, Held, Onward
<1>9. ASSUME Finalized \/ RecordFails
      PROVE  SettledOK(q)'
  <2>1. /\ closing' = closing /\ ops'[q].create = ops[q].create
        /\ ops'[q].destroy = ops[q].destroy /\ own'[q] = own[q] /\ sync' = sync
    BY <1>9, <1>0, FinalizedEffect
  <2>2. \/ run'.kind = "none"
        \/ /\ Onward(run', run)
           /\ run.pc \notin {"destroy", "release", "fail"} \/ run'.pc \in {"destroy", "release", "fail"}
    BY <1>9, <1>0, FinalizedEffect DEF Ends, Returns, Keeps, Claiming
  <2> QED BY <2>1, <2>2, <1>0 DEF SettledOK, Loose, Held, Onward
<1>10. ASSUME NEW r \in Resource, Prepare(r)
      PROVE  SettledOK(q)'
  <2>1. /\ ops[r].create = "started" /\ run.pc = "prepare" /\ run'.pc = "prepare" /\ Onward(run', run)
        /\ closing' = closing /\ sync' = sync /\ own' = own
        /\ ops'[q].destroy = ops[q].destroy /\ (q # r => ops'[q].create = ops[q].create)
    BY <1>10, <1>0, PrepareEffect DEF ToCome
  <2> QED BY <2>1, <1>0 DEF SettledOK, Loose, Held, Onward, Unended
<1>11. ASSUME NEW r \in Resource, Finalize(r)
      PROVE  SettledOK(q)'
  <2>1. /\ ops[r].create = "canceling" /\ run' = run
        /\ closing' = closing /\ sync' = sync /\ own' = own
        /\ ops'[q].destroy = ops[q].destroy /\ (q # r => ops'[q].create = ops[q].create)
    BY <1>11, <1>0, FinalizeEffect
  <2> QED BY <2>1, <1>0 DEF SettledOK, Loose, Held, Unended
<1>12. ASSUME DestroyMachine
      PROVE  SettledOK(q)'
  <2>1. run.of \in Resource /\ run.kind = "destroy"
    BY <1>12, <1>0 DEF DestroyMachine, Release, Cancel, DestroyFails
  <2>2. q = run.of => ops[q].create # "none"
    BY <1>0, <2>1 DEF Asked, Fresh
  <2> QED BY <1>12, <1>0, <2>1, <2>2, DestroyMachineEffect DEF SettledOK, Loose, Held, Keeps, Onward, Unended, Unfinished
<1>13. ASSUME Release
      PROVE  SettledOK(q)'
  <2>1. run.of \in Resource /\ run.kind = "destroy"
    BY <1>13, <1>0 DEF DestroyMachine, Release, Cancel, DestroyFails
  <2>2. q = run.of => ops[q].create # "none"
    BY <1>0, <2>1 DEF Asked, Fresh
  <2> QED BY <1>13, <1>0, <2>1, <2>2, ReleaseEffect DEF SettledOK, Loose, Held, Keeps, Onward, Unended, Unfinished
<1>14. ASSUME Cancel
      PROVE  SettledOK(q)'
  <2>1. run.of \in Resource /\ run.kind = "destroy"
    BY <1>14, <1>0 DEF DestroyMachine, Release, Cancel, DestroyFails
  <2>2. q = run.of => ops[q].create # "none"
    BY <1>0, <2>1 DEF Asked, Fresh
  <2> QED BY <1>14, <1>0, <2>1, <2>2, CancelEffect DEF SettledOK, Loose, Held, Keeps, Onward, Unended, Unfinished
<1>15. ASSUME DestroyFails
      PROVE  SettledOK(q)'
  <2>1. run.of \in Resource /\ run.kind = "destroy"
    BY <1>15, <1>0 DEF DestroyMachine, Release, Cancel, DestroyFails
  <2>2. q = run.of => ops[q].create # "none"
    BY <1>0, <2>1 DEF Asked, Fresh
  <2> QED BY <1>15, <1>0, <2>1, <2>2, DestroyFailsEffect DEF SettledOK, Loose, Held, Keeps, Onward, Unended, Unfinished
<1>16. ASSUME NEW w \in work, Start(w)
      PROVE  SettledOK(q)'
  BY <1>16, <1>0, StartEffect DEF SettledOK, Loose, Held
<1>17. ASSUME Crash
      PROVE  SettledOK(q)'
  BY <1>17, <1>0, CrashEffect DEF SettledOK, Loose, Held
<1>18. ASSUME NEW r \in Resource, Create(r)
      PROVE  SettledOK(q)'
  <2>1. /\ ops[r].create = "none" /\ run' = run
        /\ closing' = closing /\ sync' = sync /\ own' = own
        /\ ops'[q].destroy = ops[q].destroy /\ (q # r => ops'[q].create = ops[q].create)
    BY <1>18, <1>0, CreateEffect
  <2> QED BY <2>1, <1>0 DEF SettledOK, Loose, Held, Unended
<1>19. ASSUME NEW r \in Resource, Replay(r)
      PROVE  SettledOK(q)'
  BY <1>19, <1>0, ReplayEffect DEF SettledOK, Loose, Held
<1>20. ASSUME NEW r \in Resource, Resume(r)
      PROVE  SettledOK(q)'
  BY <1>20, <1>0, ResumeEffect DEF SettledOK, Loose, Held
<1>21. ASSUME NEW r \in Resource, DestroyRead(r)
      PROVE  SettledOK(q)'
  BY <1>21, <1>0, DestroyReadEffect DEF SettledOK, Loose, Held
<1>22. ASSUME NEW r \in Resource, DestroyLocked(r)
      PROVE  SettledOK(q)'
  BY <1>22, <1>0, DestroyLockedEffect DEF SettledOK, Loose, Held
<1>23. ASSUME NEW r \in Resource, RecordDestroyed(r)
      PROVE  SettledOK(q)'
  BY <1>23, <1>0, RecordDestroyedEffect DEF SettledOK, Loose, Held
<1>24. ASSUME NEW r \in Resource, SyncRead(r)
      PROVE  SettledOK(q)'
  BY <1>24, <1>0, SyncReadEffect DEF SettledOK, Loose, Held, SyncOnly
<1>25. ASSUME NEW r \in Resource, SyncCall(r)
      PROVE  SettledOK(q)'
  BY <1>25, <1>0, SyncCallEffect DEF SettledOK, Loose, Held, SyncOnly
<1>26. ASSUME NEW r \in Resource, SyncSave(r)
      PROVE  SettledOK(q)'
  BY <1>26, <1>0, SyncSaveEffect DEF SettledOK, Loose, Held, SyncOnly
<1>27. ASSUME NEW r \in Resource, SyncRecord(r)
      PROVE  SettledOK(q)'
  BY <1>27, <1>0, SyncRecordEffect DEF SettledOK, Loose, Held, SyncOnly
<1>28. ASSUME NEW m \in Machine, Arrive(m) \/ Leave(m) \/ Vanish(m)
      PROVE  SettledOK(q)'
  BY <1>28, <1>0, CloudEffect DEF SettledOK, Loose, Held
<1>29. CASE UNCHANGED vars
  BY <1>29, <1>0 DEF vars, SettledOK, Loose, Held
<1> QED BY <1>1, <1>2, <1>3, <1>4, <1>5, <1>6, <1>7, <1>8, <1>9, <1>10, <1>11, <1>12,
     <1>13, <1>14, <1>15, <1>16, <1>17, <1>18, <1>19, <1>20, <1>21, <1>22, <1>23, <1>24,
     <1>25, <1>26, <1>27, <1>28, <1>29 DEF Next, Reconcile, Finish

\* A destruction that succeeded left no creation open, and no machine but one
\* that a readback beside it put back.
THEOREM DestructionsSettle == Spec => []DestroyedIsSettled
<1>1. Init => SettledInv
  <2> SUFFICES ASSUME Init PROVE SettledInv
    OBVIOUS
  <2>1. /\ MachineInv /\ run.kind = "none"
        /\ \A r \in Resource : /\ ops[r].destroy = "none" /\ closing[r].step = "idle"
                               /\ sync[r].step = "idle"
    BY MachineInit DEF Init, Free, Rest
  <2> QED BY <2>1 DEF SettledInv, SettledOK
<1>2. SettledInv /\ [Next]_vars => SettledInv'
  BY MachineAll, SettledStep DEF SettledInv
<1>3. SettledInv => DestroyedIsSettled
  BY DEF SettledInv, SettledOK, DestroyedIsSettled, Loose, Unended
<1> QED BY <1>1, <1>2, <1>3, PTL DEF Spec

----------------------------------------------------------------------------
(* What the pool is scaled to, while nobody asks for a destruction.        *)

Calm == \A r \in Resource : Undisturbed(r)

LEMMA CalmBefore ==
  ASSUME LogInv, [Next]_vars, Calm'
  PROVE  /\ Calm
         /\ run.kind # "destroy" /\ \A r \in Resource : closing[r].step = "idle"
<1>0. /\ TypeInv /\ OfResource /\ \A r \in Resource : Asked(r)
      /\ run.pc \in {"destroy", "release", "cancel", "fail"} =>
           run.kind = "destroy" /\ run.of \in Resource
      /\ \A r \in Resource : ops'[r].destroy = "none"
  BY LogFacts DEF Calm, Undisturbed
<1> SUFFICES Calm
  BY <1>0 DEF Asked, Calm, Undisturbed, OfResource
<1>1. ASSUME Plan
      PROVE  Calm
  BY <1>1, <1>0, PlanEffect DEF Calm, Undisturbed
<1>2. ASSUME Call
      PROVE  Calm
  BY <1>2, <1>0, CallEffect DEF Calm, Undisturbed
<1>3. ASSUME CallFails
      PROVE  Calm
  BY <1>3, <1>0, CallFailsEffect DEF Calm, Undisturbed
<1>4. ASSUME Claim
      PROVE  Calm
  BY <1>4, <1>0, ClaimEffect DEF Calm, Undisturbed
<1>5. ASSUME Judge
      PROVE  Calm
  BY <1>5, <1>0, JudgeEffect DEF Calm, Undisturbed
<1>6. ASSUME RecordAssigned
      PROVE  Calm
  BY <1>6, <1>0, RecordAssignedEffect DEF Calm, Undisturbed
<1>7. ASSUME Check
      PROVE  Calm
  BY <1>7, <1>0, CheckEffect DEF Calm, Undisturbed
<1>8. ASSUME Prepared
      PROVE  Calm
  BY <1>8, <1>0, PreparedEffect DEF Calm, Undisturbed
<1>9. ASSUME Finalized \/ RecordFails
      PROVE  Calm
  BY <1>9, <1>0, FinalizedEffect DEF Calm, Undisturbed
<1>10. ASSUME NEW r \in Resource, Prepare(r)
      PROVE  Calm
  BY <1>10, <1>0, PrepareEffect DEF Calm, Undisturbed
<1>11. ASSUME NEW r \in Resource, Finalize(r)
      PROVE  Calm
  BY <1>11, <1>0, FinalizeEffect DEF Calm, Undisturbed
<1>12. ASSUME DestroyMachine
      PROVE  Calm
  <2>1. run.of \in Resource
    BY <1>12, <1>0 DEF DestroyMachine, Release, Cancel, DestroyFails
  <2> QED BY <1>12, <1>0, <2>1, DestroyMachineEffect DEF Calm, Undisturbed
<1>13. ASSUME Release
      PROVE  Calm
  <2>1. run.of \in Resource
    BY <1>13, <1>0 DEF DestroyMachine, Release, Cancel, DestroyFails
  <2> QED BY <1>13, <1>0, <2>1, ReleaseEffect DEF Calm, Undisturbed
<1>14. ASSUME Cancel
      PROVE  Calm
  <2>1. run.of \in Resource
    BY <1>14, <1>0 DEF DestroyMachine, Release, Cancel, DestroyFails
  <2> QED BY <1>14, <1>0, <2>1, CancelEffect DEF Calm, Undisturbed
<1>15. ASSUME DestroyFails
      PROVE  Calm
  <2>1. run.of \in Resource
    BY <1>15, <1>0 DEF DestroyMachine, Release, Cancel, DestroyFails
  <2> QED BY <1>15, <1>0, <2>1, DestroyFailsEffect DEF Calm, Undisturbed
<1>16. ASSUME NEW w \in work, Start(w)
      PROVE  Calm
  BY <1>16, <1>0, StartEffect DEF Calm, Undisturbed
<1>17. ASSUME Crash
      PROVE  Calm
  BY <1>17, <1>0, CrashEffect DEF Calm, Undisturbed
<1>18. ASSUME NEW r \in Resource, Create(r)
      PROVE  Calm
  BY <1>18, <1>0, CreateEffect DEF Calm, Undisturbed
<1>19. ASSUME NEW r \in Resource, Replay(r)
      PROVE  Calm
  BY <1>19, <1>0, ReplayEffect DEF Calm, Undisturbed
<1>20. ASSUME NEW r \in Resource, Resume(r)
      PROVE  Calm
  BY <1>20, <1>0, ResumeEffect DEF Calm, Undisturbed
<1>21. ASSUME NEW r \in Resource, DestroyRead(r)
      PROVE  Calm
  BY <1>21, <1>0, DestroyReadEffect DEF Calm, Undisturbed
<1>22. ASSUME NEW r \in Resource, DestroyLocked(r)
      PROVE  Calm
  BY <1>22, <1>0, DestroyLockedEffect DEF Calm, Undisturbed
<1>23. ASSUME NEW r \in Resource, RecordDestroyed(r)
      PROVE  Calm
  BY <1>23, <1>0, RecordDestroyedEffect DEF Calm, Undisturbed
<1>24. ASSUME NEW r \in Resource, SyncRead(r)
      PROVE  Calm
  BY <1>24, <1>0, SyncReadEffect DEF Calm, Undisturbed
<1>25. ASSUME NEW r \in Resource, SyncCall(r)
      PROVE  Calm
  BY <1>25, <1>0, SyncCallEffect DEF Calm, Undisturbed
<1>26. ASSUME NEW r \in Resource, SyncSave(r)
      PROVE  Calm
  BY <1>26, <1>0, SyncSaveEffect DEF Calm, Undisturbed
<1>27. ASSUME NEW r \in Resource, SyncRecord(r)
      PROVE  Calm
  BY <1>27, <1>0, SyncRecordEffect DEF Calm, Undisturbed
<1>28. ASSUME NEW m \in Machine, Arrive(m) \/ Leave(m) \/ Vanish(m)
      PROVE  Calm
  BY <1>28, <1>0, CloudEffect DEF Calm, Undisturbed
<1>29. CASE UNCHANGED vars
  BY <1>29, <1>0 DEF vars, Calm, Undisturbed
<1> QED BY <1>1, <1>2, <1>3, <1>4, <1>5, <1>6, <1>7, <1>8, <1>9, <1>10, <1>11, <1>12,
     <1>13, <1>14, <1>15, <1>16, <1>17, <1>18, <1>19, <1>20, <1>21, <1>22, <1>23, <1>24,
     <1>25, <1>26, <1>27, <1>28, <1>29 DEF Next, Reconcile, Finish

\* The rows that account for a replica: those of machines in use, and those
\* whose machine went after their creation had ended.
Counted == Held \cup {r \in Resource : own[r].status = "released" /\ ops[r].create # "started"}
Account == Cardinality(Counted) + Cardinality(Pending)

\* Claiming is between the row and the record: the creation counts twice.
DemandOK ==
  Calm =>
    /\ run.pc = "call" => run.demand <= Account
    /\ run.pc \in {"assign", "finalize"} => replicas <= Account
    /\ run.pc \in Claiming => replicas + 1 <= Account

LEMMA FewerFit ==
  \A a \in Nat, b \in Nat, n \in Nat :
    b <= a => (a <= n => b <= n) /\ (a + 1 <= n => b + 1 <= n)
OBVIOUS

LEMMA AccountType ==
  /\ IsFiniteSet(Counted) /\ IsFiniteSet(Pending) /\ Account \in Nat
  /\ Cardinality(Counted) \in Nat /\ Cardinality(Pending) \in Nat
  /\ Counted \subseteq Resource /\ Held \subseteq Counted
<1>1. Counted \subseteq Resource /\ Pending \subseteq Resource
  BY DEF Counted, Held, Pending
<1>2. IsFiniteSet(Counted) /\ IsFiniteSet(Pending)
  BY <1>1, PoolAssumption, FS_Subset
<1> QED BY <1>1, <1>2, FS_CardinalityType DEF Account, Counted

LEMMA AccountGrows ==
  ASSUME Counted \subseteq Counted', Pending \subseteq Pending'
  PROVE  Account <= Account' /\ Account \in Nat /\ Account' \in Nat
<1>1. /\ IsFiniteSet(Counted) /\ IsFiniteSet(Pending) /\ Account \in Nat
      /\ IsFiniteSet(Counted') /\ IsFiniteSet(Pending') /\ Account' \in Nat
      /\ Cardinality(Counted) \in Nat /\ Cardinality(Pending) \in Nat
      /\ Cardinality(Counted') \in Nat /\ Cardinality(Pending') \in Nat
  <2>1. /\ Counted \subseteq Resource /\ Pending \subseteq Resource
        /\ Counted' \subseteq Resource /\ Pending' \subseteq Resource
    BY DEF Counted, Held, Pending
  <2>2. /\ IsFiniteSet(Counted) /\ IsFiniteSet(Pending)
        /\ IsFiniteSet(Counted') /\ IsFiniteSet(Pending')
    BY <2>1, PoolAssumption, FS_Subset
  <2> QED BY <2>2, FS_CardinalityType DEF Account
<1>2. Cardinality(Counted) <= Cardinality(Counted')
  BY <1>1, FS_Subset
<1>3. Cardinality(Pending) <= Cardinality(Pending')
  BY <1>1, FS_Subset
<1> QED BY <1>1, <1>2, <1>3 DEF Account

\* One creation more, or less.
LEMMA AccountMoves ==
  ASSUME NEW t
  PROVE  /\ Counted' = Counted \cup {t} /\ t \notin Counted /\ Pending' = Pending =>
              Account' = Account + 1
         /\ Counted \ {t} \subseteq Counted' /\ Pending' = Pending => Account <= Account' + 1
         /\ Counted \subseteq Counted' /\ Pending' = Pending \ {t} => Account <= Account' + 1
         /\ Account \in Nat /\ Account' \in Nat
<1>1. /\ Counted \subseteq Resource /\ Pending \subseteq Resource
      /\ Counted' \subseteq Resource /\ Pending' \subseteq Resource
  BY DEF Counted, Held, Pending
<1>2. /\ IsFiniteSet(Counted) /\ IsFiniteSet(Pending)
      /\ IsFiniteSet(Counted') /\ IsFiniteSet(Pending')
  BY <1>1, PoolAssumption, FS_Subset
<1>3. /\ Cardinality(Counted) \in Nat /\ Cardinality(Pending) \in Nat
      /\ Cardinality(Counted') \in Nat /\ Cardinality(Pending') \in Nat
  BY <1>2, FS_CardinalityType
<1>4. t \notin Counted => Cardinality(Counted \cup {t}) = Cardinality(Counted) + 1
  BY <1>2, FS_AddElement
<1>5. /\ IsFiniteSet(Counted \ {t}) /\ Cardinality(Counted \ {t}) \in Nat
      /\ Cardinality(Counted) <= Cardinality(Counted \ {t}) + 1
  <2>1. IsFiniteSet(Counted \ {t})
    BY <1>2, FS_RemoveElement
  <2>2. Cardinality(Counted \ {t}) \in Nat
    BY <2>1, FS_CardinalityType
  <2>3. Cardinality(Counted \ {t}) =
          IF t \in Counted THEN Cardinality(Counted) - 1 ELSE Cardinality(Counted)
    BY <1>2, FS_RemoveElement
  <2>4. Cardinality(Counted) <= Cardinality(Counted \ {t}) + 1
    BY <1>3, <2>3
  <2> QED BY <2>1, <2>2, <2>4
<1>6. Cardinality(Pending) <= Cardinality(Pending \ {t}) + 1
  BY <1>2, <1>3, FS_RemoveElement
<1>7. Counted \ {t} \subseteq Counted' => Cardinality(Counted \ {t}) <= Cardinality(Counted')
  BY <1>2, FS_Subset
<1>8. Counted \subseteq Counted' => Cardinality(Counted) <= Cardinality(Counted')
  BY <1>2, FS_Subset
<1> QED BY <1>3, <1>4, <1>5, <1>6, <1>7, <1>8 DEF Account

DemandInv == OwnersInv /\ DemandOK

LEMMA DemandStep ==
  ASSUME DemandInv, [Next]_vars
  PROVE  DemandOK'
<1> SUFFICES ASSUME Calm'
             PROVE  /\ run'.pc = "call" => run'.demand <= Account'
                    /\ run'.pc \in {"assign", "finalize"} => replicas' <= Account'
                    /\ run'.pc \in Claiming => replicas' + 1 <= Account'
  BY DEF DemandOK
<1>0. /\ MachineInv /\ TypeInv /\ run \in Workers /\ run.demand \in Nat /\ replicas \in Nat
      /\ \A r \in Resource : MachineOK(r) /\ Fresh(r)
      /\ run.kind # "destroy" /\ \A r \in Resource : closing[r].step = "idle" /\ ops[r].destroy = "none"
      /\ run.pc \in {"destroy", "release", "cancel", "fail"} => run.kind = "destroy"
      /\ Free.pc = "idle" /\ Free.kind = "none" /\ (run.kind = "none" <=> run.pc = "idle")
      /\ \A r \in Resource : ops'[r].destroy = "none"
  BY MachineFacts, CalmBefore, WorkerFields, Types DEF DemandInv, OwnersInv, Calm, Undisturbed
<1>b. /\ run.pc = "call" => run.demand <= Account
      /\ run.pc \in {"assign", "finalize"} => replicas <= Account
      /\ run.pc \in Claiming => replicas + 1 <= Account
  BY CalmBefore, <1>0 DEF DemandInv, DemandOK, MachineInv
<1>c. Account \in Nat
  BY AccountType
<1>d. ASSUME own' = own, \A q \in Resource : ops[q].create = ops'[q].create
      PROVE  Account' = Account
  <2>1. Counted' = Counted /\ Pending' = Pending
    BY <1>0, <1>d DEF Counted, Held, Pending
  <2> QED BY <2>1 DEF Account
<1>1. ASSUME Plan
      PROVE  /\ run'.pc = "call" => run'.demand <= Account'
             /\ run'.pc \in {"assign", "finalize"} => replicas' <= Account'
             /\ run'.pc \in Claiming => replicas' + 1 <= Account'
  <2>1. run'.pc = "call" /\ run'.demand = Demand /\ Account' = Account
    BY <1>1, <1>0, <1>d, PlanEffect
  <2>2. Demand <= Account
    BY AccountType, FS_Subset, FS_CardinalityType DEF Demand, Account
  <2> QED BY <2>1, <2>2 DEF Claiming
<1>2. ASSUME Call
      PROVE  /\ run'.pc = "call" => run'.demand <= Account'
             /\ run'.pc \in {"assign", "finalize"} => replicas' <= Account'
             /\ run'.pc \in Claiming => replicas' + 1 <= Account'
  <2>1. run.pc = "call" /\ run'.pc = "assign" /\ replicas' = run.demand /\ Account' = Account
    BY <1>2, <1>0, <1>d, CallEffect
  <2> QED BY <2>1, <1>b DEF Claiming
<1>3. ASSUME CallFails
      PROVE  /\ run'.pc = "call" => run'.demand <= Account'
             /\ run'.pc \in {"assign", "finalize"} => replicas' <= Account'
             /\ run'.pc \in Claiming => replicas' + 1 <= Account'
  <2>1. run'.pc \notin {"call", "assign", "finalize"} \cup Claiming
    BY <1>3, <1>0, CallFailsEffect DEF Ends, Returns, Claiming
  <2> QED BY <2>1
<1>4. ASSUME Claim
      PROVE  /\ run'.pc = "call" => run'.demand <= Account'
             /\ run'.pc \in {"assign", "finalize"} => replicas' <= Account'
             /\ run'.pc \in Claiming => replicas' + 1 <= Account'
  <2>1. Taker \in Resource /\ ops[Taker].create = "started"
    BY <1>4, <1>0, ClaimEffect, CandidateKnown
  <2>2. CASE run'.pc = "assign" /\ own' = own
    <3>1. run.pc = "assign" /\ replicas' = replicas /\ Account' = Account
      BY <1>4, <1>0, <1>d, <2>2, ClaimEffect
    <3> QED BY <2>2, <3>1, <1>b DEF Claiming
  <2>3. CASE run'.pc = "judge"
    <3>1. /\ run.pc = "assign" /\ replicas' = replicas /\ ops' = ops
          /\ Taker \notin Held /\ own'[Taker].status = "claimed"
          /\ \A q \in Resource : q # Taker => own'[q] = own[q]
      BY <1>4, <1>0, <2>3, ClaimEffect
    <3>2. Counted' = Counted \cup {Taker} /\ Taker \notin Counted /\ Pending' = Pending
      BY <2>1, <3>1 DEF Counted, Held, Pending
    <3>3. Account' = Account + 1
      BY <3>2, AccountMoves
    <3> QED BY <2>3, <3>1, <3>3, <1>b, <1>c, <1>0
  <2> QED BY <1>4, <1>0, <2>2, <2>3, ClaimEffect
<1>5. ASSUME Judge
      PROVE  /\ run'.pc = "call" => run'.demand <= Account'
             /\ run'.pc \in {"assign", "finalize"} => replicas' <= Account'
             /\ run'.pc \in Claiming => replicas' + 1 <= Account'
  <2>1. Taker \in Resource /\ ops[Taker].create = "started" /\ run.pc \in Claiming
    BY <1>5, <1>0, JudgeEffect, CandidateKnown DEF Claiming
  <2>2. own[Taker].status = "claimed" /\ Taker \in Counted
    <3>1. TakerOK /\ run.pc = "judge"
      BY <1>5, <1>0, JudgeEffect, MachineFacts
    <3> QED BY <3>1, <2>1 DEF TakerOK, Counted, Held, Claiming
  <2>3. CASE own' = own
    <3>1. run'.pc \notin {"call", "finalize"} \cup Claiming
      BY <1>5, <1>0, <2>2, <2>3, JudgeEffect DEF Ends, Returns, Claiming
    <3>2. replicas' = replicas /\ Account' = Account
      BY <1>5, <1>0, <1>d, <2>3, JudgeEffect
    <3> QED BY <3>1, <3>2, <2>1, <1>b, <1>0, <1>c
  <2>4. CASE own' # own
    <3>1. /\ ops' = ops /\ replicas' = replicas
          /\ \A q \in Resource : q # Taker => own'[q] = own[q]
          /\ \/ own'[Taker].status \in {"active", "quarantined"} /\ run'.pc \in Claiming
             \/ own'[Taker].status = "released" /\ run'.pc = "assign"
      BY <1>5, <1>0, <2>4, JudgeEffect DEF Claiming
    <3>2. CASE own'[Taker].status \in {"active", "quarantined"} /\ run'.pc \in Claiming
      <4>1. Counted \subseteq Counted' /\ Pending \subseteq Pending'
        BY <2>1, <3>1, <3>2 DEF Counted, Held, Pending
      <4> QED BY <4>1, <3>1, <3>2, AccountGrows, <2>1, <1>b, <1>0 DEF Claiming
    <3>3. CASE own'[Taker].status = "released" /\ run'.pc = "assign"
      <4>1. Counted \ {Taker} \subseteq Counted' /\ Pending' = Pending
        BY <3>1 DEF Counted, Held, Pending
      <4> QED BY <4>1, <3>1, <3>3, AccountMoves, <2>1, <1>b, <1>0 DEF Claiming
    <3> QED BY <3>1, <3>2, <3>3
  <2> QED BY <2>3, <2>4
<1>6. ASSUME RecordAssigned
      PROVE  /\ run'.pc = "call" => run'.demand <= Account'
             /\ run'.pc \in {"assign", "finalize"} => replicas' <= Account'
             /\ run'.pc \in Claiming => replicas' + 1 <= Account'
  <2>1. Taker \in Resource /\ run.pc \in Claiming
    BY <1>6, <1>0, RecordAssignedEffect, CandidateKnown DEF Claiming
  <2>2. CASE Ends(run', run, TRUE)
    BY <2>2, <1>0 DEF Ends, Returns, Claiming
  <2>3. CASE ~Ends(run', run, TRUE)
    <3>1. /\ run'.pc = "assign" /\ replicas' = replicas /\ own' = own
          /\ ops'[Taker].create # "started"
          /\ \A q \in Resource : q # Taker => ops'[q] = ops[q]
      BY <1>6, <1>0, <2>3, RecordAssignedEffect
    <3>2. Counted \subseteq Counted' /\ Pending' = Pending \ {Taker}
      BY <3>1, <1>0 DEF Counted, Held, Pending
    <3> QED BY <3>1, <3>2, AccountMoves, <2>1, <1>b, <1>0 DEF Claiming
  <2> QED BY <2>2, <2>3
<1>7. ASSUME Check
      PROVE  /\ run'.pc = "call" => run'.demand <= Account'
             /\ run'.pc \in {"assign", "finalize"} => replicas' <= Account'
             /\ run'.pc \in Claiming => replicas' + 1 <= Account'
  <2>1. /\ run.pc = "assign" /\ run'.pc \notin {"call"} \cup Claiming
        /\ replicas' = replicas /\ Account' = Account
    BY <1>7, <1>0, <1>d, CheckEffect DEF Ends, Returns, Claiming
  <2> QED BY <2>1, <1>b DEF Claiming
<1>8. ASSUME Prepared
      PROVE  /\ run'.pc = "call" => run'.demand <= Account'
             /\ run'.pc \in {"assign", "finalize"} => replicas' <= Account'
             /\ run'.pc \in Claiming => replicas' + 1 <= Account'
  <2>1. run'.pc \notin {"call", "assign", "finalize"} \cup Claiming
    BY <1>8, <1>0, PreparedEffect DEF Ends, Returns, Claiming
  <2> QED BY <2>1
<1>9. ASSUME Finalized \/ RecordFails
      PROVE  /\ run'.pc = "call" => run'.demand <= Account'
             /\ run'.pc \in {"assign", "finalize"} => replicas' <= Account'
             /\ run'.pc \in Claiming => replicas' + 1 <= Account'
  <2>1. run'.pc \notin {"call", "assign", "finalize"} \cup Claiming
    BY <1>9, <1>0, FinalizedEffect DEF Ends, Returns, Claiming
  <2> QED BY <2>1
<1>10. ASSUME NEW r \in Resource, Prepare(r)
      PROVE  /\ run'.pc = "call" => run'.demand <= Account'
             /\ run'.pc \in {"assign", "finalize"} => replicas' <= Account'
             /\ run'.pc \in Claiming => replicas' + 1 <= Account'
  <2>1. run'.pc \notin {"call", "assign", "finalize"} \cup Claiming
    BY <1>10, <1>0, PrepareEffect DEF Ends, Returns, Claiming
  <2> QED BY <2>1
<1>11. ASSUME NEW r \in Resource, Finalize(r)
      PROVE  /\ run'.pc = "call" => run'.demand <= Account'
             /\ run'.pc \in {"assign", "finalize"} => replicas' <= Account'
             /\ run'.pc \in Claiming => replicas' + 1 <= Account'
  <2>1. run' = run /\ replicas' = replicas /\ Counted \subseteq Counted' /\ Pending \subseteq Pending'
    BY <1>11, <1>0, FinalizeEffect DEF Counted, Held, Pending
  <2> QED BY <2>1, AccountGrows, <1>b, <1>0
<1>12. ASSUME DestroyMachine
      PROVE  /\ run'.pc = "call" => run'.demand <= Account'
             /\ run'.pc \in {"assign", "finalize"} => replicas' <= Account'
             /\ run'.pc \in Claiming => replicas' + 1 <= Account'
  BY <1>12, <1>0 DEF DestroyMachine
<1>13. ASSUME Release
      PROVE  /\ run'.pc = "call" => run'.demand <= Account'
             /\ run'.pc \in {"assign", "finalize"} => replicas' <= Account'
             /\ run'.pc \in Claiming => replicas' + 1 <= Account'
  BY <1>13, <1>0 DEF Release
<1>14. ASSUME Cancel
      PROVE  /\ run'.pc = "call" => run'.demand <= Account'
             /\ run'.pc \in {"assign", "finalize"} => replicas' <= Account'
             /\ run'.pc \in Claiming => replicas' + 1 <= Account'
  BY <1>14, <1>0 DEF Cancel
<1>15. ASSUME DestroyFails
      PROVE  /\ run'.pc = "call" => run'.demand <= Account'
             /\ run'.pc \in {"assign", "finalize"} => replicas' <= Account'
             /\ run'.pc \in Claiming => replicas' + 1 <= Account'
  BY <1>15, <1>0 DEF DestroyFails
<1>16. ASSUME NEW w \in work, Start(w)
      PROVE  /\ run'.pc = "call" => run'.demand <= Account'
             /\ run'.pc \in {"assign", "finalize"} => replicas' <= Account'
             /\ run'.pc \in Claiming => replicas' + 1 <= Account'
  <2>1. run'.pc \notin {"call", "assign", "finalize"} \cup Claiming
    BY <1>16, <1>0, StartEffect DEF Ends, Returns, Claiming
  <2> QED BY <2>1
<1>17. ASSUME Crash
      PROVE  /\ run'.pc = "call" => run'.demand <= Account'
             /\ run'.pc \in {"assign", "finalize"} => replicas' <= Account'
             /\ run'.pc \in Claiming => replicas' + 1 <= Account'
  <2>1. run'.pc \notin {"call", "assign", "finalize"} \cup Claiming
    BY <1>17, <1>0, CrashEffect DEF Ends, Returns, Claiming
  <2> QED BY <2>1
<1>18. ASSUME NEW r \in Resource, Create(r)
      PROVE  /\ run'.pc = "call" => run'.demand <= Account'
             /\ run'.pc \in {"assign", "finalize"} => replicas' <= Account'
             /\ run'.pc \in Claiming => replicas' + 1 <= Account'
  <2>1. run' = run /\ replicas' = replicas /\ Counted \subseteq Counted' /\ Pending \subseteq Pending'
    BY <1>18, <1>0, CreateEffect, AbsentFields DEF Counted, Held, Pending, Fresh
  <2> QED BY <2>1, AccountGrows, <1>b, <1>0
<1>19. ASSUME NEW r \in Resource, Replay(r)
      PROVE  /\ run'.pc = "call" => run'.demand <= Account'
             /\ run'.pc \in {"assign", "finalize"} => replicas' <= Account'
             /\ run'.pc \in Claiming => replicas' + 1 <= Account'
  <2>1. /\ run' = run /\ replicas' = replicas /\ Account' = Account
    BY <1>19, <1>0, <1>d, ReplayEffect
  <2> QED BY <2>1, <1>b
<1>20. ASSUME NEW r \in Resource, Resume(r)
      PROVE  /\ run'.pc = "call" => run'.demand <= Account'
             /\ run'.pc \in {"assign", "finalize"} => replicas' <= Account'
             /\ run'.pc \in Claiming => replicas' + 1 <= Account'
  <2>1. /\ run' = run /\ replicas' = replicas /\ Account' = Account
    BY <1>20, <1>0, <1>d, ResumeEffect
  <2> QED BY <2>1, <1>b
<1>21. ASSUME NEW r \in Resource, DestroyRead(r)
      PROVE  /\ run'.pc = "call" => run'.demand <= Account'
             /\ run'.pc \in {"assign", "finalize"} => replicas' <= Account'
             /\ run'.pc \in Claiming => replicas' + 1 <= Account'
  <2>1. /\ run' = run /\ replicas' = replicas /\ Account' = Account
    BY <1>21, <1>0, <1>d, DestroyReadEffect
  <2> QED BY <2>1, <1>b
<1>22. ASSUME NEW r \in Resource, DestroyLocked(r)
      PROVE  /\ run'.pc = "call" => run'.demand <= Account'
             /\ run'.pc \in {"assign", "finalize"} => replicas' <= Account'
             /\ run'.pc \in Claiming => replicas' + 1 <= Account'
  <2>1. /\ run' = run /\ replicas' = replicas /\ Account' = Account
    BY <1>22, <1>0, <1>d, DestroyLockedEffect
  <2> QED BY <2>1, <1>b
<1>23. ASSUME NEW r \in Resource, RecordDestroyed(r)
      PROVE  /\ run'.pc = "call" => run'.demand <= Account'
             /\ run'.pc \in {"assign", "finalize"} => replicas' <= Account'
             /\ run'.pc \in Claiming => replicas' + 1 <= Account'
  BY <1>23, <1>0, RecordDestroyedEffect
<1>24. ASSUME NEW r \in Resource, SyncRead(r)
      PROVE  /\ run'.pc = "call" => run'.demand <= Account'
             /\ run'.pc \in {"assign", "finalize"} => replicas' <= Account'
             /\ run'.pc \in Claiming => replicas' + 1 <= Account'
  <2>1. /\ run' = run /\ replicas' = replicas /\ Account' = Account
    BY <1>24, <1>0, <1>d, SyncReadEffect
  <2> QED BY <2>1, <1>b
<1>25. ASSUME NEW r \in Resource, SyncCall(r)
      PROVE  /\ run'.pc = "call" => run'.demand <= Account'
             /\ run'.pc \in {"assign", "finalize"} => replicas' <= Account'
             /\ run'.pc \in Claiming => replicas' + 1 <= Account'
  <2>1. /\ run' = run /\ replicas' = replicas /\ Account' = Account
    BY <1>25, <1>0, <1>d, SyncCallEffect
  <2> QED BY <2>1, <1>b
<1>26. ASSUME NEW r \in Resource, SyncSave(r)
      PROVE  /\ run'.pc = "call" => run'.demand <= Account'
             /\ run'.pc \in {"assign", "finalize"} => replicas' <= Account'
             /\ run'.pc \in Claiming => replicas' + 1 <= Account'
  <2>1. ops[r].create # "started"
    BY <1>26, <1>0, SyncSaveEffect DEF MachineOK, Unended
  <2>2. run' = run /\ replicas' = replicas /\ Counted \subseteq Counted' /\ Pending \subseteq Pending'
    BY <1>26, <1>0, <2>1, SyncSaveEffect DEF Counted, Held, Pending
  <2> QED BY <2>2, AccountGrows, <1>b, <1>0
<1>27. ASSUME NEW r \in Resource, SyncRecord(r)
      PROVE  /\ run'.pc = "call" => run'.demand <= Account'
             /\ run'.pc \in {"assign", "finalize"} => replicas' <= Account'
             /\ run'.pc \in Claiming => replicas' + 1 <= Account'
  <2>1. /\ run' = run /\ replicas' = replicas /\ Account' = Account
    BY <1>27, <1>0, <1>d, SyncRecordEffect
  <2> QED BY <2>1, <1>b
<1>28. ASSUME NEW m \in Machine, Arrive(m) \/ Leave(m) \/ Vanish(m)
      PROVE  /\ run'.pc = "call" => run'.demand <= Account'
             /\ run'.pc \in {"assign", "finalize"} => replicas' <= Account'
             /\ run'.pc \in Claiming => replicas' + 1 <= Account'
  <2>1. run' = run /\ replicas' \in Nat /\ replicas' <= replicas /\ Account' = Account
    BY <1>28, <1>0, <1>d, CloudEffect DEF CloudStep
  <2>2. \A n \in Nat :
          /\ replicas <= n => replicas' <= n
          /\ replicas + 1 <= n => replicas' + 1 <= n
    <3>1. replicas \in Nat /\ replicas' \in Nat /\ replicas' <= replicas
      BY <1>0, <2>1
    <3> QED BY <3>1, FewerFit
  <2> QED BY <2>1, <2>2, <1>b, <1>c
<1>29. CASE UNCHANGED vars
  <2>1. run' = run /\ replicas' = replicas /\ Account' = Account
    BY <1>29, <1>d DEF vars
  <2> QED BY <2>1, <1>b
<1> QED BY <1>1, <1>2, <1>3, <1>4, <1>5, <1>6, <1>7, <1>8, <1>9, <1>10, <1>11, <1>12,
     <1>13, <1>14, <1>15, <1>16, <1>17, <1>18, <1>19, <1>20, <1>21, <1>22, <1>23, <1>24,
     <1>25, <1>26, <1>27, <1>28, <1>29 DEF Next, Reconcile, Finish

LEMMA DemandInit ==
  ASSUME Init
  PROVE  DemandInv
<1>1. OwnersInv /\ run.pc = "idle"
  BY OwnersInit DEF Init, Free
<1> QED BY <1>1 DEF DemandInv, DemandOK, Claiming

LEMMA DemandKept ==
  ASSUME DemandInv, [Next]_vars
  PROVE  DemandInv'
BY OwnersStep, DemandStep DEF DemandInv

\* A creation that is given up has been accounted for by the worker, or
\* somebody asked for its destruction.
LEMMA GivenUpHere ==
  ASSUME DemandInv, [Next]_vars, NEW q \in Resource,
         ops[q].create = "canceling", ops'[q].create = "failed"
  PROVE  run.pc = "finalize" \/ ops[q].destroy # "none"
<1>0. /\ MachineInv /\ TypeInv /\ ToCome /\ Asked(q)
      /\ run.pc \in {"destroy", "release", "cancel", "fail"} =>
           run.kind = "destroy" /\ run.of \in Resource
  BY MachineFacts DEF DemandInv, OwnersInv
<1>1. ASSUME Plan
      PROVE  run.pc = "finalize" \/ ops[q].destroy # "none"
  BY <1>1, <1>0, PlanEffect
<1>2. ASSUME Call
      PROVE  run.pc = "finalize" \/ ops[q].destroy # "none"
  BY <1>2, <1>0, CallEffect
<1>3. ASSUME CallFails
      PROVE  run.pc = "finalize" \/ ops[q].destroy # "none"
  BY <1>3, <1>0, CallFailsEffect
<1>4. ASSUME Claim
      PROVE  run.pc = "finalize" \/ ops[q].destroy # "none"
  BY <1>4, <1>0, ClaimEffect
<1>5. ASSUME Judge
      PROVE  run.pc = "finalize" \/ ops[q].destroy # "none"
  BY <1>5, <1>0, JudgeEffect
<1>6. ASSUME RecordAssigned
      PROVE  run.pc = "finalize" \/ ops[q].destroy # "none"
  <2>1. Taker \in Resource /\ ops[Taker].create = "started"
    BY <1>6, <1>0, RecordAssignedEffect, CandidateKnown DEF Claiming
  <2> QED BY <1>6, <1>0, <2>1, RecordAssignedEffect
<1>7. ASSUME Check
      PROVE  run.pc = "finalize" \/ ops[q].destroy # "none"
  BY <1>7, <1>0, CheckEffect
<1>8. ASSUME Prepared
      PROVE  run.pc = "finalize" \/ ops[q].destroy # "none"
  BY <1>8, <1>0, PreparedEffect
<1>9. ASSUME Finalized \/ RecordFails
      PROVE  run.pc = "finalize" \/ ops[q].destroy # "none"
  BY <1>9, <1>0, FinalizedEffect
<1>10. ASSUME NEW r \in Resource, Prepare(r)
      PROVE  run.pc = "finalize" \/ ops[q].destroy # "none"
  BY <1>10, <1>0, PrepareEffect DEF ToCome
<1>11. ASSUME NEW r \in Resource, Finalize(r)
      PROVE  run.pc = "finalize" \/ ops[q].destroy # "none"
  BY <1>11, <1>0, FinalizeEffect
<1>12. ASSUME DestroyMachine
      PROVE  run.pc = "finalize" \/ ops[q].destroy # "none"
  <2>1. run.of \in Resource /\ run.kind = "destroy"
    BY <1>12, <1>0 DEF DestroyMachine, Release, Cancel, DestroyFails
  <2> QED BY <1>12, <1>0, <2>1, DestroyMachineEffect DEF Asked
<1>13. ASSUME Release
      PROVE  run.pc = "finalize" \/ ops[q].destroy # "none"
  <2>1. run.of \in Resource /\ run.kind = "destroy"
    BY <1>13, <1>0 DEF DestroyMachine, Release, Cancel, DestroyFails
  <2> QED BY <1>13, <1>0, <2>1, ReleaseEffect DEF Asked
<1>14. ASSUME Cancel
      PROVE  run.pc = "finalize" \/ ops[q].destroy # "none"
  <2>1. run.of \in Resource /\ run.kind = "destroy"
    BY <1>14, <1>0 DEF DestroyMachine, Release, Cancel, DestroyFails
  <2> QED BY <1>14, <1>0, <2>1, CancelEffect DEF Asked
<1>15. ASSUME DestroyFails
      PROVE  run.pc = "finalize" \/ ops[q].destroy # "none"
  <2>1. run.of \in Resource /\ run.kind = "destroy"
    BY <1>15, <1>0 DEF DestroyMachine, Release, Cancel, DestroyFails
  <2> QED BY <1>15, <1>0, <2>1, DestroyFailsEffect DEF Asked
<1>16. ASSUME NEW w \in work, Start(w)
      PROVE  run.pc = "finalize" \/ ops[q].destroy # "none"
  BY <1>16, <1>0, StartEffect
<1>17. ASSUME Crash
      PROVE  run.pc = "finalize" \/ ops[q].destroy # "none"
  BY <1>17, <1>0, CrashEffect
<1>18. ASSUME NEW r \in Resource, Create(r)
      PROVE  run.pc = "finalize" \/ ops[q].destroy # "none"
  BY <1>18, <1>0, CreateEffect
<1>19. ASSUME NEW r \in Resource, Replay(r)
      PROVE  run.pc = "finalize" \/ ops[q].destroy # "none"
  BY <1>19, <1>0, ReplayEffect
<1>20. ASSUME NEW r \in Resource, Resume(r)
      PROVE  run.pc = "finalize" \/ ops[q].destroy # "none"
  BY <1>20, <1>0, ResumeEffect
<1>21. ASSUME NEW r \in Resource, DestroyRead(r)
      PROVE  run.pc = "finalize" \/ ops[q].destroy # "none"
  BY <1>21, <1>0, DestroyReadEffect
<1>22. ASSUME NEW r \in Resource, DestroyLocked(r)
      PROVE  run.pc = "finalize" \/ ops[q].destroy # "none"
  BY <1>22, <1>0, DestroyLockedEffect
<1>23. ASSUME NEW r \in Resource, RecordDestroyed(r)
      PROVE  run.pc = "finalize" \/ ops[q].destroy # "none"
  BY <1>23, <1>0, RecordDestroyedEffect
<1>24. ASSUME NEW r \in Resource, SyncRead(r)
      PROVE  run.pc = "finalize" \/ ops[q].destroy # "none"
  BY <1>24, <1>0, SyncReadEffect
<1>25. ASSUME NEW r \in Resource, SyncCall(r)
      PROVE  run.pc = "finalize" \/ ops[q].destroy # "none"
  BY <1>25, <1>0, SyncCallEffect
<1>26. ASSUME NEW r \in Resource, SyncSave(r)
      PROVE  run.pc = "finalize" \/ ops[q].destroy # "none"
  BY <1>26, <1>0, SyncSaveEffect
<1>27. ASSUME NEW r \in Resource, SyncRecord(r)
      PROVE  run.pc = "finalize" \/ ops[q].destroy # "none"
  BY <1>27, <1>0, SyncRecordEffect
<1>28. ASSUME NEW m \in Machine, Arrive(m) \/ Leave(m) \/ Vanish(m)
      PROVE  run.pc = "finalize" \/ ops[q].destroy # "none"
  BY <1>28, <1>0, CloudEffect
<1>29. CASE UNCHANGED vars
  BY <1>29, <1>0 DEF vars
<1> QED BY <1>1, <1>2, <1>3, <1>4, <1>5, <1>6, <1>7, <1>8, <1>9, <1>10, <1>11, <1>12,
     <1>13, <1>14, <1>15, <1>16, <1>17, <1>18, <1>19, <1>20, <1>21, <1>22, <1>23, <1>24,
     <1>25, <1>26, <1>27, <1>28, <1>29 DEF Next, Reconcile, Finish

\* A creation reported failed for want of a machine leaves no replica behind
\* that nobody accounts for, unless a machine went meanwhile or a destruction
\* was asked for.
THEOREM FailuresLeaveNoDemand == Spec => FailedLeavesNoDemand
<1>1. Init => DemandInv
  BY DemandInit
<1>2. DemandInv /\ [Next]_vars => DemandInv'
  BY DemandKept
<1>3. DemandInv /\ [Next]_vars =>
        [\A r \in Resource :
           ops[r].create = "canceling" /\ ops'[r].create = "failed"
             => \/ replicas <= Demand
                \/ \E q \in Resource : own[q].status = "released" \/ ops[q].destroy # "none"]_vars
  <2> SUFFICES ASSUME DemandInv, [Next]_vars, NEW r \in Resource,
                      ops[r].create = "canceling", ops'[r].create = "failed",
                      \A q \in Resource : own[q].status # "released" /\ ops[q].destroy = "none"
               PROVE  replicas <= Demand
    OBVIOUS
  <2>1. run.pc = "finalize"
    BY GivenUpHere
  <2>2. Calm
    BY DEF Calm, Undisturbed
  <2>3. replicas <= Account
    BY <2>1, <2>2 DEF DemandInv, DemandOK
  <2>4. Counted = Held
    BY DEF Counted
  <2> QED BY <2>3, <2>4 DEF Account, Demand
<1> QED BY <1>1, <1>2, <1>3, PTL DEF Spec, FailedLeavesNoDemand

----------------------------------------------------------------------------
(* The machines a readback returned, while only the provider fails.        *)

Quiet == faults = 0 /\ Calm

LEMMA QuietBefore ==
  ASSUME LogInv, [Next]_vars, Quiet'
  PROVE  Quiet /\ faults' = faults
<1>0. /\ TypeInv /\ Calm /\ faults' = 0 /\ faults \in Nat /\ run.kind # "destroy"
      /\ run.pc \in {"destroy", "release", "cancel", "fail"} => run.kind = "destroy"
  BY LogFacts, CalmBefore, FaultEffect DEF Quiet
<1> SUFFICES faults' = faults \/ faults' = faults + 1
  BY <1>0 DEF Quiet
<1>1. ASSUME Plan
      PROVE  faults' = faults \/ faults' = faults + 1
  BY <1>1, <1>0, PlanEffect
<1>2. ASSUME Call
      PROVE  faults' = faults \/ faults' = faults + 1
  BY <1>2, <1>0, CallEffect
<1>3. ASSUME CallFails
      PROVE  faults' = faults \/ faults' = faults + 1
  BY <1>3, <1>0, CallFailsEffect
<1>4. ASSUME Claim
      PROVE  faults' = faults \/ faults' = faults + 1
  BY <1>4, <1>0, ClaimEffect
<1>5. ASSUME Judge
      PROVE  faults' = faults \/ faults' = faults + 1
  BY <1>5, <1>0, JudgeEffect
<1>6. ASSUME RecordAssigned
      PROVE  faults' = faults \/ faults' = faults + 1
  BY <1>6, <1>0, RecordAssignedEffect
<1>7. ASSUME Check
      PROVE  faults' = faults \/ faults' = faults + 1
  BY <1>7, <1>0, CheckEffect
<1>8. ASSUME Prepared
      PROVE  faults' = faults \/ faults' = faults + 1
  BY <1>8, <1>0, PreparedEffect
<1>9. ASSUME Finalized \/ RecordFails
      PROVE  faults' = faults \/ faults' = faults + 1
  BY <1>9, <1>0, FinalizedEffect
<1>10. ASSUME NEW r \in Resource, Prepare(r)
      PROVE  faults' = faults \/ faults' = faults + 1
  BY <1>10, <1>0, PrepareEffect
<1>11. ASSUME NEW r \in Resource, Finalize(r)
      PROVE  faults' = faults \/ faults' = faults + 1
  BY <1>11, <1>0, FinalizeEffect
<1>12. ASSUME DestroyMachine
      PROVE  faults' = faults \/ faults' = faults + 1
  BY <1>12, <1>0 DEF DestroyMachine
<1>13. ASSUME Release
      PROVE  faults' = faults \/ faults' = faults + 1
  BY <1>13, <1>0 DEF Release
<1>14. ASSUME Cancel
      PROVE  faults' = faults \/ faults' = faults + 1
  BY <1>14, <1>0 DEF Cancel
<1>15. ASSUME DestroyFails
      PROVE  faults' = faults \/ faults' = faults + 1
  BY <1>15, <1>0 DEF DestroyFails
<1>16. ASSUME NEW w \in work, Start(w)
      PROVE  faults' = faults \/ faults' = faults + 1
  BY <1>16, <1>0, StartEffect
<1>17. ASSUME Crash
      PROVE  faults' = faults \/ faults' = faults + 1
  BY <1>17, <1>0, CrashEffect
<1>18. ASSUME NEW r \in Resource, Create(r)
      PROVE  faults' = faults \/ faults' = faults + 1
  BY <1>18, <1>0, CreateEffect
<1>19. ASSUME NEW r \in Resource, Replay(r)
      PROVE  faults' = faults \/ faults' = faults + 1
  BY <1>19, <1>0, ReplayEffect
<1>20. ASSUME NEW r \in Resource, Resume(r)
      PROVE  faults' = faults \/ faults' = faults + 1
  BY <1>20, <1>0, ResumeEffect
<1>21. ASSUME NEW r \in Resource, DestroyRead(r)
      PROVE  faults' = faults \/ faults' = faults + 1
  BY <1>21, <1>0, DestroyReadEffect
<1>22. ASSUME NEW r \in Resource, DestroyLocked(r)
      PROVE  faults' = faults \/ faults' = faults + 1
  BY <1>22, <1>0, DestroyLockedEffect
<1>23. ASSUME NEW r \in Resource, RecordDestroyed(r)
      PROVE  faults' = faults \/ faults' = faults + 1
  BY <1>23, <1>0, RecordDestroyedEffect
<1>24. ASSUME NEW r \in Resource, SyncRead(r)
      PROVE  faults' = faults \/ faults' = faults + 1
  BY <1>24, <1>0, SyncReadEffect
<1>25. ASSUME NEW r \in Resource, SyncCall(r)
      PROVE  faults' = faults \/ faults' = faults + 1
  BY <1>25, <1>0, SyncCallEffect
<1>26. ASSUME NEW r \in Resource, SyncSave(r)
      PROVE  faults' = faults \/ faults' = faults + 1
  BY <1>26, <1>0, SyncSaveEffect
<1>27. ASSUME NEW r \in Resource, SyncRecord(r)
      PROVE  faults' = faults \/ faults' = faults + 1
  BY <1>27, <1>0, SyncRecordEffect
<1>28. ASSUME NEW m \in Machine, Arrive(m) \/ Leave(m) \/ Vanish(m)
      PROVE  faults' = faults \/ faults' = faults + 1
  BY <1>28, <1>0, CloudEffect DEF CloudStep
<1>29. CASE UNCHANGED vars
  BY <1>29, <1>0 DEF vars
<1> QED BY <1>1, <1>2, <1>3, <1>4, <1>5, <1>6, <1>7, <1>8, <1>9, <1>10, <1>11, <1>12,
     <1>13, <1>14, <1>15, <1>16, <1>17, <1>18, <1>19, <1>20, <1>21, <1>22, <1>23, <1>24,
     <1>25, <1>26, <1>27, <1>28, <1>29 DEF Next, Reconcile, Finish

InUse == {own[r].machine : r \in Held}
Wanted == Held \cup Pending
Owed == Cardinality(Wanted)

\* Only the creation that is being claimed for has a row before its record.
ClaimedOK == Quiet => \A r \in Held : ops[r].create = "started" => run.pc \in Claiming /\ r = Taker

\* The machines about to be asked for are all that are in use, and no more
\* than are owed unless one of them went.
PlannedOK ==
  Quiet /\ run.pc = "call" =>
    /\ InUse \subseteq run.owned
    /\ run.owned \subseteq machines => run.demand <= Owed

\* Once a machine was returned, the pool has room for every machine it has
\* and owes them all, those in use among them, and no creation is believed to
\* have none.
SeenOK ==
  Quiet /\ seen # {} =>
    /\ seen \subseteq machines /\ Cardinality(machines) <= replicas /\ replicas <= Owed
    /\ InUse \subseteq seen
    /\ run.pc = "call" => replicas <= run.demand /\ run.owned \subseteq seen
    /\ run.pc \in InPool => run.free \subseteq seen
    /\ run.pc \in InPool \/ (run.pc = "prepare" /\ ~run.unknown) =>
         \A r \in Resource : ops[r].create = "started" => ~ops[r].bare

KeptInv == OwnersInv /\ ClaimedOK /\ PlannedOK /\ SeenOK

LEMMA KeptFacts ==
  ASSUME KeptInv, [Next]_vars, Quiet'
  PROVE  /\ MachineInv /\ LogInv /\ TypeInv /\ BareOK /\ ToCome /\ TakerOK /\ FreeOK /\ run \in Workers
         /\ \A r \in Resource : MachineOK(r) /\ OwnerOK(r) /\ Fresh(r)
         /\ Quiet /\ Calm /\ faults' = faults
         /\ run.kind # "destroy" /\ \A r \in Resource : closing[r].step = "idle"
         /\ run.pc \notin {"destroy", "release", "cancel", "fail"}
         /\ \A r \in Resource : ops[r].destroy = "none" /\ ops'[r].destroy = "none"
         /\ Free.pc = "idle" /\ (run.kind = "none" <=> run.pc = "idle")
         /\ machines \subseteq born /\ born \subseteq Machine /\ 0 \notin Machine
         /\ Absent.machine = 0 /\ Absent.status = "none"
         /\ run.pc \in Claiming => Assigning
<1>1. MachineInv /\ LogInv /\ BareOK /\ \A r \in Resource : OwnerOK(r)
  BY MachineFacts DEF KeptInv, OwnersInv
<1>2. Quiet /\ Calm /\ faults' = faults
  BY <1>1, QuietBefore DEF Quiet
<1>3. run.kind # "destroy" /\ \A r \in Resource : closing[r].step = "idle"
  BY <1>1, CalmBefore DEF Quiet
<1>4. \A r \in Resource : ops[r].destroy = "none" /\ ops'[r].destroy = "none"
  BY <1>2 DEF Quiet, Calm, Undisturbed
<1> QED BY <1>1, <1>2, <1>3, <1>4, MachineFacts DEF TypeInv

LEMMA ClaimedStep ==
  ASSUME KeptInv, [Next]_vars, Quiet', NEW q \in Resource, q \in Held', ops'[q].create = "started"
  PROVE  run'.pc \in Claiming /\ q = Taker'
<1>0. /\ TypeInv /\ faults' = faults /\ MachineOK(q) /\ Fresh(q)
      /\ run.kind # "destroy" /\ \A r \in Resource : closing[r].step = "idle"
      /\ run.pc \notin {"destroy", "release", "cancel", "fail"}
      /\ faults \in Nat /\ Absent.status = "none"
      /\ run' = run => Taker' = Taker
  BY KeptFacts, FaultEffect, SameTurn
<1>a. faults' # faults + 1
  BY <1>0
<1>b. q \in Held /\ ops[q].create = "started" => run.pc \in Claiming /\ q = Taker
  BY KeptFacts DEF KeptInv, ClaimedOK
<1>1. ASSUME Plan
      PROVE  run'.pc \in Claiming /\ q = Taker'
  <2>1. run.pc \notin Claiming /\ q \in Held /\ ops[q].create = "started"
    BY <1>1, <1>0, PlanEffect DEF Held, Claiming
  <2> QED BY <2>1, <1>b
<1>2. ASSUME Call
      PROVE  run'.pc \in Claiming /\ q = Taker'
  <2>1. run.pc \notin Claiming /\ q \in Held /\ ops[q].create = "started"
    BY <1>2, <1>0, CallEffect DEF Held, Claiming
  <2> QED BY <2>1, <1>b
<1>3. ASSUME CallFails
      PROVE  run'.pc \in Claiming /\ q = Taker'
  <2>1. run.pc \notin Claiming /\ q \in Held /\ ops[q].create = "started"
    BY <1>3, <1>0, CallFailsEffect DEF Held, Claiming
  <2> QED BY <2>1, <1>b
<1>4. ASSUME Claim
      PROVE  run'.pc \in Claiming /\ q = Taker'
  <2>1. q = Taker \/ q \notin Held
    BY <1>4, <1>0, <1>b, ClaimEffect DEF Claiming
  <2>2. \/ own' = own
        \/ /\ run'.pc = "judge" /\ run'.i = run.i /\ Keeps(run', run)
           /\ \A r \in Resource : r # Taker => own'[r] = own[r]
    BY <1>4, <1>0, ClaimEffect
  <2>3. own' # own
    BY <1>4, <1>0, <1>b, ClaimEffect DEF Held, Claiming
  <2>4. q = Taker
    BY <2>1, <2>2, <2>3 DEF Held
  <2> QED BY <2>2, <2>3, <2>4, SameTurn DEF Keeps, Claiming
<1>5. ASSUME Judge
      PROVE  run'.pc \in Claiming /\ q = Taker'
  <2>1. /\ ops' = ops /\ run.pc = "judge" /\ Keeps(run', run)
        /\ \A r \in Resource : r # Taker => own'[r] = own[r]
        /\ \/ own'[Taker].status \in {"active", "quarantined"} /\ run'.pc \in Claiming /\ run'.i = run.i
           \/ own'[Taker].status = "released"
    BY <1>5, <1>0, <1>a, JudgeEffect DEF Claiming
  <2>2. q = Taker
    BY <2>1, <1>b DEF Held
  <2>3. run'.pc \in Claiming /\ run'.i = run.i
    BY <2>1, <2>2 DEF Held
  <2> QED BY <2>1, <2>2, <2>3, SameTurn DEF Keeps
<1>6. ASSUME RecordAssigned
      PROVE  run'.pc \in Claiming /\ q = Taker'
  <2>1. /\ own' = own /\ ops'[Taker].create # "started"
        /\ \A r \in Resource : r # Taker => ops'[r] = ops[r]
    BY <1>6, <1>0, <1>a, RecordAssignedEffect
  <2> QED BY <2>1, <1>b DEF Held
<1>7. ASSUME Check
      PROVE  run'.pc \in Claiming /\ q = Taker'
  <2>1. run.pc \notin Claiming /\ q \in Held /\ ops[q].create = "started"
    BY <1>7, <1>0, CheckEffect DEF Held, Claiming
  <2> QED BY <2>1, <1>b
<1>8. ASSUME Prepared
      PROVE  run'.pc \in Claiming /\ q = Taker'
  <2>1. run.pc \notin Claiming /\ q \in Held /\ ops[q].create = "started"
    BY <1>8, <1>0, PreparedEffect DEF Held, Claiming
  <2> QED BY <2>1, <1>b
<1>9. ASSUME Finalized \/ RecordFails
      PROVE  run'.pc \in Claiming /\ q = Taker'
  <2>1. run.pc \notin Claiming /\ q \in Held /\ ops[q].create = "started"
    BY <1>9, <1>0, FinalizedEffect DEF Held, Claiming
  <2> QED BY <2>1, <1>b
<1>10. ASSUME NEW r \in Resource, Prepare(r)
      PROVE  run'.pc \in Claiming /\ q = Taker'
  <2>1. run.pc \notin Claiming /\ q \in Held /\ ops[q].create = "started"
    BY <1>10, <1>0, PrepareEffect DEF Held, Claiming
  <2> QED BY <2>1, <1>b
<1>11. ASSUME NEW r \in Resource, Finalize(r)
      PROVE  run'.pc \in Claiming /\ q = Taker'
  <2>1. run' = run /\ q \in Held /\ ops[q].create = "started"
    BY <1>11, <1>0, FinalizeEffect DEF Held
  <2> QED BY <2>1, <1>0, <1>b
<1>12. ASSUME DestroyMachine
      PROVE  run'.pc \in Claiming /\ q = Taker'
  BY <1>12, <1>0 DEF DestroyMachine
<1>13. ASSUME Release
      PROVE  run'.pc \in Claiming /\ q = Taker'
  BY <1>13, <1>0 DEF Release
<1>14. ASSUME Cancel
      PROVE  run'.pc \in Claiming /\ q = Taker'
  BY <1>14, <1>0 DEF Cancel
<1>15. ASSUME DestroyFails
      PROVE  run'.pc \in Claiming /\ q = Taker'
  BY <1>15, <1>0 DEF DestroyFails
<1>16. ASSUME NEW w \in work, Start(w)
      PROVE  run'.pc \in Claiming /\ q = Taker'
  <2>1. run.pc \notin Claiming /\ q \in Held /\ ops[q].create = "started"
    BY <1>16, <1>0, StartEffect, KeptFacts DEF Held, Claiming
  <2> QED BY <2>1, <1>b
<1>17. ASSUME Crash
      PROVE  run'.pc \in Claiming /\ q = Taker'
  BY <1>17, <1>0, CrashEffect
<1>18. ASSUME NEW r \in Resource, Create(r)
      PROVE  run'.pc \in Claiming /\ q = Taker'
  <2>1. run' = run /\ q \in Held /\ ops[q].create = "started"
    BY <1>18, <1>0, CreateEffect DEF Held, Fresh
  <2> QED BY <2>1, <1>0, <1>b
<1>19. ASSUME NEW r \in Resource, Replay(r)
      PROVE  run'.pc \in Claiming /\ q = Taker'
  <2>1. run' = run /\ q \in Held /\ ops[q].create = "started"
    BY <1>19, <1>0, ReplayEffect DEF Held
  <2> QED BY <2>1, <1>0, <1>b
<1>20. ASSUME NEW r \in Resource, Resume(r)
      PROVE  run'.pc \in Claiming /\ q = Taker'
  <2>1. run' = run /\ q \in Held /\ ops[q].create = "started"
    BY <1>20, <1>0, ResumeEffect DEF Held
  <2> QED BY <2>1, <1>0, <1>b
<1>21. ASSUME NEW r \in Resource, DestroyRead(r)
      PROVE  run'.pc \in Claiming /\ q = Taker'
  <2>1. run' = run /\ q \in Held /\ ops[q].create = "started"
    BY <1>21, <1>0, DestroyReadEffect DEF Held
  <2> QED BY <2>1, <1>0, <1>b
<1>22. ASSUME NEW r \in Resource, DestroyLocked(r)
      PROVE  run'.pc \in Claiming /\ q = Taker'
  <2>1. run' = run /\ q \in Held /\ ops[q].create = "started"
    BY <1>22, <1>0, DestroyLockedEffect DEF Held
  <2> QED BY <2>1, <1>0, <1>b
<1>23. ASSUME NEW r \in Resource, RecordDestroyed(r)
      PROVE  run'.pc \in Claiming /\ q = Taker'
  BY <1>23, <1>0, RecordDestroyedEffect
<1>24. ASSUME NEW r \in Resource, SyncRead(r)
      PROVE  run'.pc \in Claiming /\ q = Taker'
  <2>1. run' = run /\ q \in Held /\ ops[q].create = "started"
    BY <1>24, <1>0, SyncReadEffect DEF Held
  <2> QED BY <2>1, <1>0, <1>b
<1>25. ASSUME NEW r \in Resource, SyncCall(r)
      PROVE  run'.pc \in Claiming /\ q = Taker'
  <2>1. run' = run /\ q \in Held /\ ops[q].create = "started"
    BY <1>25, <1>0, SyncCallEffect DEF Held
  <2> QED BY <2>1, <1>0, <1>b
<1>26. ASSUME NEW r \in Resource, SyncSave(r)
      PROVE  run'.pc \in Claiming /\ q = Taker'
  <2>1. run' = run /\ q \in Held /\ ops[q].create = "started"
    BY <1>26, <1>0, SyncSaveEffect DEF Held, MachineOK, Unended
  <2> QED BY <2>1, <1>0, <1>b
<1>27. ASSUME NEW r \in Resource, SyncRecord(r)
      PROVE  run'.pc \in Claiming /\ q = Taker'
  <2>1. run' = run /\ q \in Held /\ ops[q].create = "started"
    BY <1>27, <1>0, SyncRecordEffect DEF Held
  <2> QED BY <2>1, <1>0, <1>b
<1>28. ASSUME NEW m \in Machine, Arrive(m) \/ Leave(m) \/ Vanish(m)
      PROVE  run'.pc \in Claiming /\ q = Taker'
  <2>1. run' = run /\ q \in Held /\ ops[q].create = "started"
    BY <1>28, <1>0, CloudEffect DEF Held
  <2> QED BY <2>1, <1>0, <1>b
<1>29. CASE UNCHANGED vars
  BY <1>29, <1>0, <1>b DEF vars, Held
<1> QED BY <1>1, <1>2, <1>3, <1>4, <1>5, <1>6, <1>7, <1>8, <1>9, <1>10, <1>11, <1>12,
     <1>13, <1>14, <1>15, <1>16, <1>17, <1>18, <1>19, <1>20, <1>21, <1>22, <1>23, <1>24,
     <1>25, <1>26, <1>27, <1>28, <1>29 DEF Next, Reconcile, Finish

LEMMA OwedType ==
  /\ IsFiniteSet(Wanted) /\ Owed \in Nat
  /\ (\A r \in Held : ops[r].create # "started") => Demand = Owed
<1>1. Held \subseteq Resource /\ Pending \subseteq Resource
  BY PendingType
<1>2. IsFiniteSet(Held) /\ IsFiniteSet(Pending) /\ IsFiniteSet(Wanted)
  BY <1>1, PoolAssumption, FS_Subset, FS_Union DEF Wanted
<1>3. Cardinality(Held) \in Nat /\ Cardinality(Pending) \in Nat /\ Owed \in Nat
  BY <1>2, FS_CardinalityType DEF Owed
<1>4. ASSUME \A r \in Held : ops[r].create # "started"
      PROVE  Demand = Owed
  <2>1. Held \cap Pending = {}
    BY <1>4 DEF Pending
  <2>2. Cardinality(Held \cap Pending) = 0
    BY <2>1, FS_EmptySet
  <2>3. Cardinality(Held \cup Pending) =
          Cardinality(Held) + Cardinality(Pending) - Cardinality(Held \cap Pending)
    BY <1>2, FS_Union
  <2> QED BY <2>2, <2>3, <1>3 DEF Demand, Owed, Wanted
<1> QED BY <1>2, <1>3, <1>4

LEMMA OwedGrows ==
  ASSUME Wanted \subseteq Wanted'
  PROVE  Owed <= Owed' /\ Owed \in Nat /\ Owed' \in Nat
<1>1. Wanted \subseteq Resource /\ Wanted' \subseteq Resource
  BY DEF Wanted, Held, Pending
<1>2. IsFiniteSet(Wanted) /\ IsFiniteSet(Wanted')
  BY <1>1, PoolAssumption, FS_Subset
<1> QED BY <1>2, FS_Subset, FS_CardinalityType DEF Owed

\* Nothing stops being wanted but a machine in use that went and a creation
\* the provider showed no machine to, and nothing comes in use but what is free.
WantedOn ==
  \/ Wanted \subseteq Wanted'
  \/ \E x \in InUse : x \in born \ machines
  \/ run.pc = "prepare" /\ ~run.unknown /\ \E r \in Resource : ops[r].create = "started" /\ ops[r].bare
UsedOn == InUse' \subseteq InUse \cup (IF run.pc = "assign" THEN run.free ELSE {})

LEMMA WantedStep ==
  ASSUME KeptInv, [Next]_vars, Quiet'
  PROVE  WantedOn /\ UsedOn
<1>0. /\ MachineInv /\ TypeInv /\ faults' = faults /\ faults \in Nat
      /\ TakerOK /\ \A r \in Resource : MachineOK(r) /\ Fresh(r) /\ OwnerOK(r) /\ ops[r].destroy = "none"
      /\ run.kind # "destroy" /\ \A r \in Resource : closing[r].step = "idle"
      /\ run.pc \notin {"destroy", "release", "cancel", "fail"}
      /\ machines \subseteq born /\ born \subseteq Machine /\ 0 \notin Machine
      /\ Absent.status = "none" /\ \A r \in Resource : ops'[r].destroy = "none"
  BY KeptFacts, FaultEffect
<1>a. faults' # faults + 1
  BY <1>0
<1>d. ASSUME own' = own,
             \A q \in Resource : ops[q].create = "started" => ops'[q].create = "started" \/ q \in Held
      PROVE  WantedOn /\ UsedOn
  <2>1. Held' = Held
    BY <1>d DEF Held
  <2>2. InUse' = InUse
    BY <1>d, <2>1 DEF InUse
  <2>3. Wanted \subseteq Wanted'
    BY <1>0, <1>d, <2>1 DEF Wanted, Pending
  <2> QED BY <2>2, <2>3 DEF WantedOn, UsedOn
<1>1. ASSUME Plan
      PROVE  WantedOn /\ UsedOn
  BY <1>1, <1>0, <1>d, PlanEffect
<1>2. ASSUME Call
      PROVE  WantedOn /\ UsedOn
  BY <1>2, <1>0, <1>d, CallEffect
<1>3. ASSUME CallFails
      PROVE  WantedOn /\ UsedOn
  BY <1>3, <1>0, <1>d, CallFailsEffect
<1>4. ASSUME Claim
      PROVE  WantedOn /\ UsedOn
  <2>1. /\ Taker \in Resource /\ ops[Taker].create = "started" /\ Candidate \in run.free
    BY <1>4, <1>0, ClaimEffect, CandidateKnown
  <2>2. CASE own' = own
    BY <1>4, <1>0, <1>d, <2>2, ClaimEffect
  <2>3. CASE own' # own
    <3>1. /\ run.pc = "assign" /\ ops' = ops
          /\ own'[Taker].status = "claimed" /\ own'[Taker].machine = Candidate
          /\ Taker \notin Held
          /\ \A q \in Resource : q # Taker => own'[q] = own[q]
      BY <1>4, <1>0, <2>3, ClaimEffect
    <3>2. Held' = Held \cup {Taker}
      BY <2>1, <3>1 DEF Held
    <3>3. Wanted \subseteq Wanted'
      BY <3>1, <3>2 DEF Wanted, Pending
    <3>4. InUse' \subseteq InUse \cup run.free
      BY <2>1, <3>1, <3>2 DEF InUse, Held
    <3> QED BY <3>1, <3>3, <3>4 DEF WantedOn, UsedOn
  <2> QED BY <2>2, <2>3
<1>5. ASSUME Judge
      PROVE  WantedOn /\ UsedOn
  <2>1. /\ Taker \in Resource /\ ops[Taker].create = "started" /\ Candidate \in born
    BY <1>5, <1>0, JudgeEffect, CandidateKnown DEF Claiming
  <2>2. own[Taker].machine = Candidate /\ own[Taker].status = "claimed"
    BY <1>5, <1>0, JudgeEffect DEF TakerOK, Claiming
  <2>3. /\ ops' = ops /\ run.pc = "judge" /\ own'[Taker].machine = Candidate
        /\ \A q \in Resource : q # Taker => own'[q] = own[q]
        /\ \/ own'[Taker].status \in {"active", "quarantined"}
           \/ own'[Taker].status = "released" /\ Candidate \notin machines
    BY <1>5, <1>0, <1>a, JudgeEffect
  <2>4. Taker \in Held /\ Held' \subseteq Held /\ Candidate \in InUse
    BY <2>1, <2>2, <2>3 DEF Held, InUse
  <2>5. \A q \in Resource : own'[q].machine = own[q].machine
    BY <2>2, <2>3
  <2>6. InUse' \subseteq InUse
    BY <2>4, <2>5 DEF InUse, Held
  <2>7. CASE own'[Taker].status \in {"active", "quarantined"}
    <3>1. Held' = Held
      BY <2>1, <2>3, <2>4, <2>7 DEF Held
    <3> QED BY <3>1, <2>3, <2>6 DEF WantedOn, UsedOn, Wanted, Pending
  <2>8. CASE Candidate \notin machines
    BY <2>1, <2>4, <2>6, <2>8 DEF WantedOn, UsedOn
  <2> QED BY <2>3, <2>7, <2>8
<1>6. ASSUME RecordAssigned
      PROVE  WantedOn /\ UsedOn
  <2>1. Taker \in Resource /\ run.pc \in Claiming /\ run.pc # "judge"
    BY <1>6, <1>0, RecordAssignedEffect, CandidateKnown DEF Claiming
  <2>2. Taker \in Held
    BY <1>6, <1>0, <2>1, RecordAssignedEffect DEF TakerOK, Held
  <2>3. own' = own /\ \A q \in Resource : q # Taker => ops'[q] = ops[q]
    BY <1>6, <1>0, RecordAssignedEffect
  <2> QED BY <2>2, <2>3, <1>d
<1>7. ASSUME Check
      PROVE  WantedOn /\ UsedOn
  BY <1>7, <1>0, <1>d, CheckEffect
<1>8. ASSUME Prepared
      PROVE  WantedOn /\ UsedOn
  BY <1>8, <1>0, <1>d, PreparedEffect
<1>9. ASSUME Finalized \/ RecordFails
      PROVE  WantedOn /\ UsedOn
  BY <1>9, <1>0, <1>d, FinalizedEffect
<1>10. ASSUME NEW r \in Resource, Prepare(r)
      PROVE  WantedOn /\ UsedOn
  <2>1. /\ own' = own /\ \A q \in Resource : q # r => ops'[q] = ops[q]
        /\ run.pc = "prepare" /\ ops[r].create = "started"
        /\ \/ ops'[r].create = "started"
           \/ own[r].status = "quarantined"
           \/ ops[r].bare /\ ~run.unknown
    BY <1>10, <1>0, PrepareEffect, KeptFacts DEF ToCome
  <2>2. CASE ops'[r].create = "started" \/ own[r].status = "quarantined"
    BY <2>1, <2>2, <1>d DEF Held
  <2>3. CASE ops[r].bare /\ ~run.unknown
    <3>1. Held' = Held
      BY <2>1 DEF Held
    <3> QED BY <2>1, <2>3, <3>1 DEF WantedOn, UsedOn, InUse
  <2> QED BY <2>1, <2>2, <2>3
<1>11. ASSUME NEW r \in Resource, Finalize(r)
      PROVE  WantedOn /\ UsedOn
  BY <1>11, <1>0, <1>d, FinalizeEffect
<1>12. ASSUME DestroyMachine
      PROVE  WantedOn /\ UsedOn
  BY <1>12, <1>0 DEF DestroyMachine
<1>13. ASSUME Release
      PROVE  WantedOn /\ UsedOn
  BY <1>13, <1>0 DEF Release
<1>14. ASSUME Cancel
      PROVE  WantedOn /\ UsedOn
  BY <1>14, <1>0 DEF Cancel
<1>15. ASSUME DestroyFails
      PROVE  WantedOn /\ UsedOn
  BY <1>15, <1>0 DEF DestroyFails
<1>16. ASSUME NEW w \in work, Start(w)
      PROVE  WantedOn /\ UsedOn
  BY <1>16, <1>0, <1>d, StartEffect
<1>17. ASSUME Crash
      PROVE  WantedOn /\ UsedOn
  BY <1>17, <1>0, <1>d, CrashEffect
<1>18. ASSUME NEW r \in Resource, Create(r)
      PROVE  WantedOn /\ UsedOn
  BY <1>18, <1>0, <1>d, CreateEffect
<1>19. ASSUME NEW r \in Resource, Replay(r)
      PROVE  WantedOn /\ UsedOn
  BY <1>19, <1>0, <1>d, ReplayEffect
<1>20. ASSUME NEW r \in Resource, Resume(r)
      PROVE  WantedOn /\ UsedOn
  BY <1>20, <1>0, <1>d, ResumeEffect
<1>21. ASSUME NEW r \in Resource, DestroyRead(r)
      PROVE  WantedOn /\ UsedOn
  BY <1>21, <1>0, <1>d, DestroyReadEffect
<1>22. ASSUME NEW r \in Resource, DestroyLocked(r)
      PROVE  WantedOn /\ UsedOn
  BY <1>22, <1>0, <1>d, DestroyLockedEffect
<1>23. ASSUME NEW r \in Resource, RecordDestroyed(r)
      PROVE  WantedOn /\ UsedOn
  BY <1>23, <1>0, <1>d, RecordDestroyedEffect
<1>24. ASSUME NEW r \in Resource, SyncRead(r)
      PROVE  WantedOn /\ UsedOn
  BY <1>24, <1>0, <1>d, SyncReadEffect
<1>25. ASSUME NEW r \in Resource, SyncCall(r)
      PROVE  WantedOn /\ UsedOn
  BY <1>25, <1>0, <1>d, SyncCallEffect
<1>26. ASSUME NEW r \in Resource, SyncSave(r)
      PROVE  WantedOn /\ UsedOn
  <2>0. own'[r].machine = own[r].machine /\ ops' = ops /\ \A q \in Resource : q # r => own'[q] = own[q]
    BY <1>26, <1>0, SyncSaveEffect
  <2>1. own[r].machine \in born
    BY <1>26, <1>0, SyncSaveEffect DEF MachineOK
  <2>2. sync[r].step = "release" => own[r].machine \notin machines
    BY <1>26, <1>0, SyncSaveEffect DEF MachineOK
  <2>3. sync[r].step = "activate" => r \in Held
    BY <1>26, <1>0, SyncSaveEffect DEF OwnerOK, Undisturbed, Held
  <2>4. r \in Held' => r \in Held
    BY <1>26, <1>0, <2>3, SyncSaveEffect DEF Held
  <2>5. Held' \subseteq Held
    BY <2>0, <2>4 DEF Held
  <2>6. InUse' \subseteq InUse
    BY <2>0, <2>5 DEF InUse, Held
  <2>7. CASE r \in Held /\ r \notin Held'
    <3>1. own[r].machine \in InUse /\ sync[r].step = "release"
      BY <1>26, <1>0, <2>7, SyncSaveEffect DEF InUse, Held
    <3> QED BY <3>1, <2>1, <2>2, <2>6 DEF WantedOn, UsedOn
  <2>8. CASE r \in Held => r \in Held'
    <3>1. Held' = Held
      BY <2>0, <2>5, <2>8 DEF Held
    <3> QED BY <3>1, <2>0, <2>6 DEF WantedOn, UsedOn, Wanted, Pending
  <2> QED BY <2>7, <2>8
<1>27. ASSUME NEW r \in Resource, SyncRecord(r)
      PROVE  WantedOn /\ UsedOn
  BY <1>27, <1>0, <1>d, SyncRecordEffect
<1>28. ASSUME NEW m \in Machine, Arrive(m) \/ Leave(m) \/ Vanish(m)
      PROVE  WantedOn /\ UsedOn
  BY <1>28, <1>0, <1>d, CloudEffect
<1>29. CASE UNCHANGED vars
  BY <1>29, <1>d DEF vars
<1> QED BY <1>1, <1>2, <1>3, <1>4, <1>5, <1>6, <1>7, <1>8, <1>9, <1>10, <1>11, <1>12,
     <1>13, <1>14, <1>15, <1>16, <1>17, <1>18, <1>19, <1>20, <1>21, <1>22, <1>23, <1>24,
     <1>25, <1>26, <1>27, <1>28, <1>29 DEF Next, Reconcile, Finish

LEMMA PlannedStep ==
  ASSUME KeptInv, [Next]_vars, Quiet', run'.pc = "call"
  PROVE  /\ InUse' \subseteq run'.owned
         /\ run'.owned \subseteq machines' => run'.demand <= Owed'
<1>0. /\ TypeInv /\ run.kind # "destroy" /\ OwnersInv /\ FreeOK /\ run \in Workers /\ Quiet
      /\ run.pc \notin {"destroy", "release", "cancel", "fail"} /\ Free.pc = "idle"
      /\ (run.kind = "none" <=> run.pc = "idle") /\ 0 \notin Machine
      /\ machines \subseteq born /\ born \subseteq Machine
  BY KeptFacts DEF KeptInv
<1>p. ASSUME Plan
      PROVE  /\ InUse' \subseteq run'.owned
             /\ run'.owned \subseteq machines' => run'.demand <= Owed'
  <2>1. /\ run.pc = "plan" /\ run'.owned = InUse /\ run'.demand = Demand
        /\ own' = own /\ ops' = ops
    BY <1>p, <1>0, PlanEffect DEF InUse
  <2>2. \A r \in Held : ops[r].create # "started"
    BY <1>0, <2>1 DEF KeptInv, ClaimedOK, Claiming
  <2>3. Demand = Owed /\ Owed \in Nat
    BY <2>2, OwedType
  <2>4. InUse' = InUse /\ Owed' = Owed
    BY <2>1 DEF InUse, Held, Owed, Wanted, Pending
  <2> QED BY <2>1, <2>3, <2>4
<1>g. SUFFICES ASSUME ~Plan
               PROVE  run' = run /\ \A x \in born \cup {0} : x \in machines' => x \in machines
  <2>1. /\ run' = run /\ \A x \in born \cup {0} : x \in machines' => x \in machines
        => \/ Plan
           \/ /\ InUse' \subseteq run'.owned
              /\ run'.owned \subseteq machines' => run'.demand <= Owed'
    <3> SUFFICES ASSUME run' = run, \A x \in born \cup {0} : x \in machines' => x \in machines
                 PROVE  /\ InUse' \subseteq run'.owned
                        /\ run'.owned \subseteq machines' => run'.demand <= Owed'
      OBVIOUS
    <3>1. /\ run.pc = "call" /\ InUse \subseteq run.owned
          /\ run.owned \subseteq machines => run.demand <= Owed
      BY <1>0 DEF KeptInv, PlannedOK
    <3>2. WantedOn /\ InUse' \subseteq InUse
      BY <3>1, WantedStep DEF UsedOn
    <3>3. ASSUME run.owned \subseteq machines'
          PROVE  run.demand <= Owed'
      <4>1. run.owned \subseteq machines
        BY <1>0, <3>3 DEF FreeOK
      <4>2. Wanted \subseteq Wanted'
        BY <3>1, <3>2, <4>1 DEF WantedOn
      <4> QED BY <3>1, <4>1, <4>2, OwedGrows, WorkerFields, <1>0
    <3> QED BY <3>1, <3>2, <3>3
  <2> QED BY <2>1, <1>p
<1>1. ASSUME Plan
      PROVE  run' = run /\ \A x \in born \cup {0} : x \in machines' => x \in machines
  BY <1>1, <1>g
<1>2. ASSUME Call
      PROVE  run' = run /\ \A x \in born \cup {0} : x \in machines' => x \in machines
  BY <1>2, <1>0, CallEffect
<1>3. ASSUME CallFails
      PROVE  run' = run /\ \A x \in born \cup {0} : x \in machines' => x \in machines
  BY <1>3, <1>0, CallFailsEffect DEF Ends, Returns
<1>4. ASSUME Claim
      PROVE  run' = run /\ \A x \in born \cup {0} : x \in machines' => x \in machines
  BY <1>4, <1>0, ClaimEffect
<1>5. ASSUME Judge
      PROVE  run' = run /\ \A x \in born \cup {0} : x \in machines' => x \in machines
  BY <1>5, <1>0, JudgeEffect DEF Ends, Returns
<1>6. ASSUME RecordAssigned
      PROVE  run' = run /\ \A x \in born \cup {0} : x \in machines' => x \in machines
  BY <1>6, <1>0, RecordAssignedEffect DEF Ends, Returns
<1>7. ASSUME Check
      PROVE  run' = run /\ \A x \in born \cup {0} : x \in machines' => x \in machines
  BY <1>7, <1>0, CheckEffect DEF Ends, Returns
<1>8. ASSUME Prepared
      PROVE  run' = run /\ \A x \in born \cup {0} : x \in machines' => x \in machines
  BY <1>8, <1>0, PreparedEffect
<1>9. ASSUME Finalized \/ RecordFails
      PROVE  run' = run /\ \A x \in born \cup {0} : x \in machines' => x \in machines
  BY <1>9, <1>0, FinalizedEffect DEF Ends, Returns
<1>10. ASSUME NEW r \in Resource, Prepare(r)
      PROVE  run' = run /\ \A x \in born \cup {0} : x \in machines' => x \in machines
  BY <1>10, <1>0, PrepareEffect
<1>11. ASSUME NEW r \in Resource, Finalize(r)
      PROVE  run' = run /\ \A x \in born \cup {0} : x \in machines' => x \in machines
  BY <1>11, <1>0, <1>g, FinalizeEffect
<1>12. ASSUME DestroyMachine
      PROVE  run' = run /\ \A x \in born \cup {0} : x \in machines' => x \in machines
  BY <1>12, <1>0 DEF DestroyMachine
<1>13. ASSUME Release
      PROVE  run' = run /\ \A x \in born \cup {0} : x \in machines' => x \in machines
  BY <1>13, <1>0 DEF Release
<1>14. ASSUME Cancel
      PROVE  run' = run /\ \A x \in born \cup {0} : x \in machines' => x \in machines
  BY <1>14, <1>0 DEF Cancel
<1>15. ASSUME DestroyFails
      PROVE  run' = run /\ \A x \in born \cup {0} : x \in machines' => x \in machines
  BY <1>15, <1>0 DEF DestroyFails
<1>16. ASSUME NEW w \in work, Start(w)
      PROVE  run' = run /\ \A x \in born \cup {0} : x \in machines' => x \in machines
  BY <1>16, <1>0, StartEffect
<1>17. ASSUME Crash
      PROVE  run' = run /\ \A x \in born \cup {0} : x \in machines' => x \in machines
  BY <1>17, <1>0, CrashEffect
<1>18. ASSUME NEW r \in Resource, Create(r)
      PROVE  run' = run /\ \A x \in born \cup {0} : x \in machines' => x \in machines
  BY <1>18, <1>0, <1>g, CreateEffect
<1>19. ASSUME NEW r \in Resource, Replay(r)
      PROVE  run' = run /\ \A x \in born \cup {0} : x \in machines' => x \in machines
  BY <1>19, <1>0, <1>g, ReplayEffect
<1>20. ASSUME NEW r \in Resource, Resume(r)
      PROVE  run' = run /\ \A x \in born \cup {0} : x \in machines' => x \in machines
  BY <1>20, <1>0, <1>g, ResumeEffect
<1>21. ASSUME NEW r \in Resource, DestroyRead(r)
      PROVE  run' = run /\ \A x \in born \cup {0} : x \in machines' => x \in machines
  BY <1>21, <1>0, <1>g, DestroyReadEffect
<1>22. ASSUME NEW r \in Resource, DestroyLocked(r)
      PROVE  run' = run /\ \A x \in born \cup {0} : x \in machines' => x \in machines
  BY <1>22, <1>0, <1>g, DestroyLockedEffect
<1>23. ASSUME NEW r \in Resource, RecordDestroyed(r)
      PROVE  run' = run /\ \A x \in born \cup {0} : x \in machines' => x \in machines
  BY <1>23, <1>0, <1>g, RecordDestroyedEffect
<1>24. ASSUME NEW r \in Resource, SyncRead(r)
      PROVE  run' = run /\ \A x \in born \cup {0} : x \in machines' => x \in machines
  BY <1>24, <1>0, <1>g, SyncReadEffect
<1>25. ASSUME NEW r \in Resource, SyncCall(r)
      PROVE  run' = run /\ \A x \in born \cup {0} : x \in machines' => x \in machines
  BY <1>25, <1>0, <1>g, SyncCallEffect
<1>26. ASSUME NEW r \in Resource, SyncSave(r)
      PROVE  run' = run /\ \A x \in born \cup {0} : x \in machines' => x \in machines
  BY <1>26, <1>0, <1>g, SyncSaveEffect
<1>27. ASSUME NEW r \in Resource, SyncRecord(r)
      PROVE  run' = run /\ \A x \in born \cup {0} : x \in machines' => x \in machines
  BY <1>27, <1>0, <1>g, SyncRecordEffect
<1>28. ASSUME NEW m \in Machine, Arrive(m) \/ Leave(m) \/ Vanish(m)
      PROVE  run' = run /\ \A x \in born \cup {0} : x \in machines' => x \in machines
  BY <1>28, <1>0, CloudEffect DEF CloudStep
<1>29. CASE UNCHANGED vars
  BY <1>29 DEF vars
<1> QED BY <1>1, <1>2, <1>3, <1>4, <1>5, <1>6, <1>7, <1>8, <1>9, <1>10, <1>11, <1>12,
     <1>13, <1>14, <1>15, <1>16, <1>17, <1>18, <1>19, <1>20, <1>21, <1>22, <1>23, <1>24,
     <1>25, <1>26, <1>27, <1>28, <1>29 DEF Next, Reconcile, Finish

\* The three parts of SeenOK: what the pool keeps, what the worker that holds
\* it does, and what it believes.
PoolKept ==
  seen \subseteq machines /\ Cardinality(machines) <= replicas /\ replicas <= Owed /\ InUse \subseteq seen
WorkKept ==
  /\ run.pc = "call" => replicas <= run.demand /\ run.owned \subseteq seen
  /\ run.pc \in InPool => run.free \subseteq seen
Sure ==
  run.pc \in InPool \/ (run.pc = "prepare" /\ ~run.unknown) =>
    \A r \in Resource : ops[r].create = "started" => ~ops[r].bare

LEMMA SeenParts == SeenOK <=> (Quiet /\ seen # {} => PoolKept /\ WorkKept /\ Sure)
BY DEF SeenOK, PoolKept, WorkKept, Sure

\* The call that first returns machines has asked for all that are owed.
LEMMA CallKeeps ==
  ASSUME KeptInv, [Next]_vars, Quiet', Call, seen' # {}
  PROVE  PoolKept' /\ WorkKept' /\ Sure'
<1>0. /\ TypeInv /\ BareOK /\ Quiet /\ run \in Workers /\ run.demand \in Nat /\ replicas \in Nat
      /\ Cardinality(machines) \in Nat /\ \A r \in Resource : ops[r].destroy = "none"
  BY KeptFacts, WorkerFields, Types
<1>1. /\ run.pc = "call" /\ run'.pc = "assign" /\ run'.free = machines \ run.owned
      /\ replicas' = run.demand /\ machines' = machines /\ own' = own
      /\ \A r \in Resource :
           /\ ops'[r].create = ops[r].create /\ ops'[r].destroy = ops[r].destroy
           /\ ops'[r].bare = IF r \in run.pending THEN machines = {} ELSE ops[r].bare
      /\ seen' = IF Cardinality(machines) <= run.demand /\ run.owned \subseteq machines
                 THEN seen \cup machines ELSE seen
  BY <1>0, CallEffect
<1>2. /\ InUse \subseteq run.owned
      /\ run.owned \subseteq machines => run.demand <= Owed
  BY <1>0, <1>1 DEF KeptInv, PlannedOK
<1>3. seen # {} => /\ seen \subseteq machines /\ Cardinality(machines) <= replicas
                   /\ replicas <= run.demand /\ run.owned \subseteq seen
  BY <1>0, <1>1, SeenParts DEF KeptInv, PoolKept, WorkKept
<1>4. Cardinality(machines) <= run.demand /\ run.owned \subseteq machines
  <2>1. CASE seen = {}
    BY <1>1, <2>1
  <2>2. CASE seen # {}
    <3>1. Cardinality(machines) <= replicas /\ replicas <= run.demand
      BY <1>3, <2>2
    <3>2. Cardinality(machines) <= run.demand
      BY <1>0, <3>1
    <3> QED BY <1>3, <2>2, <3>2
  <2> QED BY <2>1, <2>2
<1>5. seen' = machines
  <2>1. seen' = seen \cup machines
    BY <1>1, <1>4
  <2>2. seen \subseteq machines
    BY <1>3
  <2> QED BY <2>1, <2>2
<1>6. InUse' = InUse /\ Owed' = Owed
  <2>1. Held' = Held
    BY <1>1 DEF Held
  <2>2. Pending' = Pending
    BY <1>1 DEF Pending
  <2> QED BY <1>1, <2>1, <2>2 DEF InUse, Owed, Wanted
<1>7. PoolKept'
  BY <1>1, <1>2, <1>4, <1>5, <1>6 DEF PoolKept
<1>8. WorkKept'
  BY <1>1, <1>5 DEF WorkKept
<1>9. ASSUME NEW r \in Resource, ops[r].create = "started"
      PROVE  ~ops'[r].bare
  <2>1. machines # {}
    BY <1>5
  <2>2. ops[r].bare => r \in run.pending
    BY <1>0, <1>1, <1>9 DEF BareOK, Empty, Undisturbed
  <2> QED BY <1>1, <2>1, <2>2
<1> QED BY <1>1, <1>7, <1>8, <1>9 DEF Sure

LEMMA SeenStep ==
  ASSUME KeptInv, [Next]_vars, Quiet', seen' # {}
  PROVE  PoolKept' /\ WorkKept' /\ Sure'
<1>c. CASE Call
  BY <1>c, CallKeeps
<1> SUFFICES ASSUME ~Call PROVE PoolKept' /\ WorkKept' /\ Sure'
  BY <1>c
<1>0. /\ MachineInv /\ TypeInv /\ run \in Workers /\ Quiet /\ faults' = faults /\ faults \in Nat
      /\ \A r \in Resource : Fresh(r) /\ run.kind # "destroy"
      /\ \A r \in Resource : closing[r].step = "idle"
      /\ run.pc \notin {"destroy", "release", "cancel", "fail"}
      /\ Free.pc = "idle" /\ (run.kind = "none" <=> run.pc = "idle")
      /\ machines \subseteq born /\ FreeOK
      /\ IsFiniteSet(machines) /\ Cardinality(machines) \in Nat /\ replicas \in Nat
      /\ run.demand \in Nat
  BY KeptFacts, FaultEffect, WorkerFields, Types
<1>a. faults' # faults + 1
  BY <1>0
<1>s. seen # {} => PoolKept /\ WorkKept /\ Sure
  BY <1>0, SeenParts DEF KeptInv
<1>w. ASSUME seen # {}
      PROVE  InUse' \subseteq seen /\ Wanted \subseteq Wanted'
  <2>1. WantedOn /\ UsedOn /\ PoolKept /\ WorkKept /\ Sure
    BY <1>s, <1>w, WantedStep
  <2>2. InUse' \subseteq seen
    BY <2>1 DEF UsedOn, PoolKept, WorkKept, InPool
  <2>3. Wanted \subseteq Wanted'
    BY <2>1 DEF WantedOn, PoolKept, Sure
  <2> QED BY <2>2, <2>3
<1>o. ASSUME seen # {}
      PROVE  Owed <= Owed' /\ Owed \in Nat /\ Owed' \in Nat
  BY <1>o, <1>w, OwedGrows
\* A step that leaves the pool alone.
<1>p. ASSUME seen' = seen, machines' = machines, replicas' = replicas
      PROVE  PoolKept'
  <2>1. PoolKept
    BY <1>p, <1>s
  <2> QED BY <1>p, <1>0, <1>w, <1>o, <2>1 DEF PoolKept
\* A step that leaves the worker alone too.
<1>i. ASSUME seen' = seen, machines' = machines, replicas' = replicas, run' = run,
             \A q \in Resource : ops'[q].create = "started" /\ ops'[q].bare
                               => ops[q].create = "started" /\ ops[q].bare
      PROVE  PoolKept' /\ WorkKept' /\ Sure'
  BY <1>i, <1>p, <1>s DEF WorkKept, Sure
<1>1. ASSUME Plan
      PROVE  PoolKept' /\ WorkKept' /\ Sure'
  <2>1. /\ seen' = seen /\ machines' = machines /\ replicas' = replicas
        /\ run.pc = "plan" /\ run'.pc = "call" /\ run'.owned = InUse /\ run'.demand = Demand
    BY <1>1, <1>0, PlanEffect DEF InUse
  <2>2. \A r \in Held : ops[r].create # "started"
    BY <1>0, <2>1 DEF KeptInv, ClaimedOK, Claiming
  <2>3. Demand = Owed
    BY <2>2, OwedType
  <2>4. PoolKept
    BY <1>s, <2>1
  <2> QED BY <2>1, <2>3, <2>4, <1>p DEF PoolKept, WorkKept, Sure, InPool, Claiming
<1>2. ASSUME Call
      PROVE  PoolKept' /\ WorkKept' /\ Sure'
  BY <1>2
<1>3. ASSUME CallFails
      PROVE  PoolKept' /\ WorkKept' /\ Sure'
  <2>1. /\ seen' = seen /\ machines' = machines /\ run.pc = "call"
        /\ replicas' \in {replicas, run.demand}
        /\ run'.pc \notin {"call"} \cup InPool /\ (run'.pc = "prepare" => run'.unknown)
    BY <1>3, <1>0, CallFailsEffect DEF Ends, Returns, InPool, Claiming
  <2>2. PoolKept /\ WorkKept
    BY <2>1, <1>s
  <2>3. run.demand <= Owed
    BY <1>0, <2>1, <2>2 DEF KeptInv, PlannedOK, PoolKept, WorkKept
  <2>4. seen \subseteq machines /\ Cardinality(machines) <= replicas'
    BY <1>0, <2>1, <2>2 DEF PoolKept, WorkKept
  <2>5. replicas' <= Owed'
    BY <1>0, <2>1, <2>2, <2>3, <1>o DEF PoolKept
  <2>6. PoolKept'
    BY <2>1, <2>4, <2>5, <1>w DEF PoolKept
  <2> QED BY <2>1, <2>6 DEF WorkKept, Sure, InPool
<1>4. ASSUME Claim
      PROVE  PoolKept' /\ WorkKept' /\ Sure'
  <2>1. /\ seen' = seen /\ machines' = machines /\ replicas' = replicas
        /\ run.pc \in InPool /\ run'.pc \in InPool /\ run'.free = run.free
        /\ \A q \in Resource : ops'[q].create = "started" => ops'[q].bare = ops[q].bare /\ ops[q].create = "started"
    BY <1>4, <1>0, <1>a, ClaimEffect DEF InPool, Claiming, Keeps
  <2> QED BY <2>1, <1>p, <1>s DEF WorkKept, Sure, InPool, Claiming
<1>5. ASSUME Judge
      PROVE  PoolKept' /\ WorkKept' /\ Sure'
  <2>1. /\ seen' = seen /\ machines' = machines /\ replicas' = replicas
        /\ run.pc \in InPool /\ run'.pc \in InPool /\ run'.free = run.free
        /\ \A q \in Resource : ops'[q].create = "started" => ops'[q].bare = ops[q].bare /\ ops[q].create = "started"
    BY <1>5, <1>0, <1>a, JudgeEffect DEF InPool, Claiming, Keeps
  <2> QED BY <2>1, <1>p, <1>s DEF WorkKept, Sure, InPool, Claiming
<1>6. ASSUME RecordAssigned
      PROVE  PoolKept' /\ WorkKept' /\ Sure'
  <2>0. Taker \in Resource
    BY <1>6, <1>0, RecordAssignedEffect, CandidateKnown DEF Claiming
  <2>1. /\ seen' = seen /\ machines' = machines /\ replicas' = replicas
        /\ run.pc \in InPool /\ run'.pc \in InPool /\ run'.free = run.free
        /\ \A q \in Resource : ops'[q].create = "started" => ops'[q].bare = ops[q].bare /\ ops[q].create = "started"
    BY <1>6, <1>0, <1>a, <2>0, RecordAssignedEffect DEF InPool, Claiming, Keeps
  <2> QED BY <2>1, <1>p, <1>s DEF WorkKept, Sure, InPool, Claiming
<1>7. ASSUME Check
      PROVE  PoolKept' /\ WorkKept' /\ Sure'
  <2>1. /\ seen' = seen /\ machines' = machines /\ replicas' = replicas /\ ops' = ops
        /\ run.pc \in InPool /\ run'.pc \notin {"call"} \cup InPool
    BY <1>7, <1>0, CheckEffect DEF Ends, Returns, InPool, Claiming
  <2> QED BY <2>1, <1>p, <1>s DEF WorkKept, Sure
<1>8. ASSUME Prepared
      PROVE  PoolKept' /\ WorkKept' /\ Sure'
  <2>1. /\ seen' = seen /\ machines' = machines /\ replicas' = replicas
        /\ run'.pc \notin {"call", "prepare"} \cup InPool
    BY <1>8, <1>0, PreparedEffect DEF InPool, Claiming, Returns
  <2> QED BY <2>1, <1>p DEF WorkKept, Sure
<1>9. ASSUME Finalized \/ RecordFails
      PROVE  PoolKept' /\ WorkKept' /\ Sure'
  <2>1. /\ seen' = seen /\ machines' = machines /\ replicas' = replicas
        /\ run'.pc \notin {"call", "prepare"} \cup InPool
    BY <1>9, <1>0, FinalizedEffect DEF InPool, Claiming, Returns
  <2> QED BY <2>1, <1>p DEF WorkKept, Sure
<1>10. ASSUME NEW r \in Resource, Prepare(r)
      PROVE  PoolKept' /\ WorkKept' /\ Sure'
  <2>1. /\ seen' = seen /\ machines' = machines /\ replicas' = replicas
        /\ run.pc = "prepare" /\ run'.pc = "prepare" /\ run'.unknown = run.unknown
        /\ \A q \in Resource : ops'[q].create = "started" => ops'[q].bare = ops[q].bare /\ ops[q].create = "started"
    BY <1>10, <1>0, PrepareEffect
  <2> QED BY <2>1, <1>p, <1>s DEF WorkKept, Sure, InPool, Claiming
<1>11. ASSUME NEW r \in Resource, Finalize(r)
      PROVE  PoolKept' /\ WorkKept' /\ Sure'
  BY <1>11, <1>0, <1>i, FinalizeEffect
<1>12. ASSUME DestroyMachine
      PROVE  PoolKept' /\ WorkKept' /\ Sure'
  BY <1>12, <1>0 DEF DestroyMachine
<1>13. ASSUME Release
      PROVE  PoolKept' /\ WorkKept' /\ Sure'
  BY <1>13, <1>0 DEF Release
<1>14. ASSUME Cancel
      PROVE  PoolKept' /\ WorkKept' /\ Sure'
  BY <1>14, <1>0 DEF Cancel
<1>15. ASSUME DestroyFails
      PROVE  PoolKept' /\ WorkKept' /\ Sure'
  BY <1>15, <1>0 DEF DestroyFails
<1>16. ASSUME NEW w \in work, Start(w)
      PROVE  PoolKept' /\ WorkKept' /\ Sure'
  <2>1. /\ seen' = seen /\ machines' = machines /\ replicas' = replicas
        /\ run'.pc \notin {"call", "prepare"} \cup InPool
    BY <1>16, <1>0, StartEffect DEF InPool, Claiming, Returns
  <2> QED BY <2>1, <1>p DEF WorkKept, Sure
<1>17. ASSUME Crash
      PROVE  PoolKept' /\ WorkKept' /\ Sure'
  <2>1. /\ seen' = seen /\ machines' = machines /\ replicas' = replicas
        /\ run'.pc \notin {"call", "prepare"} \cup InPool
    BY <1>17, <1>0, CrashEffect DEF InPool, Claiming, Returns
  <2> QED BY <2>1, <1>p DEF WorkKept, Sure
<1>18. ASSUME NEW r \in Resource, Create(r)
      PROVE  PoolKept' /\ WorkKept' /\ Sure'
  <2>1. \A q \in Resource : ops'[q].create = "started" /\ ops'[q].bare
                                => ops[q].create = "started" /\ ops[q].bare
    BY <1>18, <1>0, CreateEffect DEF Fresh
  <2> QED BY <1>18, <1>0, <2>1, <1>i, CreateEffect
<1>19. ASSUME NEW r \in Resource, Replay(r)
      PROVE  PoolKept' /\ WorkKept' /\ Sure'
  BY <1>19, <1>0, <1>i, ReplayEffect
<1>20. ASSUME NEW r \in Resource, Resume(r)
      PROVE  PoolKept' /\ WorkKept' /\ Sure'
  BY <1>20, <1>0, <1>i, ResumeEffect
<1>21. ASSUME NEW r \in Resource, DestroyRead(r)
      PROVE  PoolKept' /\ WorkKept' /\ Sure'
  BY <1>21, <1>0, <1>i, DestroyReadEffect
<1>22. ASSUME NEW r \in Resource, DestroyLocked(r)
      PROVE  PoolKept' /\ WorkKept' /\ Sure'
  BY <1>22, <1>0, <1>i, DestroyLockedEffect
<1>23. ASSUME NEW r \in Resource, RecordDestroyed(r)
      PROVE  PoolKept' /\ WorkKept' /\ Sure'
  BY <1>23, <1>0, <1>i, RecordDestroyedEffect
<1>24. ASSUME NEW r \in Resource, SyncRead(r)
      PROVE  PoolKept' /\ WorkKept' /\ Sure'
  BY <1>24, <1>0, <1>i, SyncReadEffect
<1>25. ASSUME NEW r \in Resource, SyncCall(r)
      PROVE  PoolKept' /\ WorkKept' /\ Sure'
  BY <1>25, <1>0, <1>i, SyncCallEffect
<1>26. ASSUME NEW r \in Resource, SyncSave(r)
      PROVE  PoolKept' /\ WorkKept' /\ Sure'
  BY <1>26, <1>0, <1>i, SyncSaveEffect
<1>27. ASSUME NEW r \in Resource, SyncRecord(r)
      PROVE  PoolKept' /\ WorkKept' /\ Sure'
  BY <1>27, <1>0, <1>i, SyncRecordEffect
<1>28. ASSUME NEW m \in Machine, Arrive(m) \/ Leave(m) \/ Vanish(m)
      PROVE  PoolKept' /\ WorkKept' /\ Sure'
  <2>1. PoolKept /\ WorkKept /\ Sure /\ seen # {}
    BY <1>28, <1>0, <1>s, CloudEffect
  <2>2. ~(Cardinality(machines) > replicas)
    BY <2>1, <1>0 DEF PoolKept
  <2>3. PICK x \in Machine : /\ Cardinality(machines) < replicas /\ replicas' = replicas
                             /\ machines' = machines \cup {x}
    BY <1>28, <1>0, <1>a, <2>2, CloudEffect DEF CloudStep
  <2>4. Cardinality(machines') <= Cardinality(machines) + 1
    <3>1. Cardinality(machines \cup {x}) =
            IF x \in machines THEN Cardinality(machines) ELSE Cardinality(machines) + 1
      BY <1>0, FS_AddElement
    <3>2. Cardinality(machines \cup {x}) <= Cardinality(machines) + 1
      BY <1>0, <3>1
    <3> QED BY <2>3, <3>2
  <2>5. Cardinality(machines') <= replicas'
    <3>1. IsFiniteSet(machines')
      BY <1>0, <2>3, FS_AddElement
    <3>2. Cardinality(machines') \in Nat
      BY <3>1, FS_CardinalityType
    <3> QED BY <3>2, <2>3, <2>4, <1>0
  <2>6. run' = run /\ ops' = ops /\ own' = own /\ seen' = seen
    BY <1>28, <1>0, CloudEffect
  <2>7. PoolKept'
    BY <1>0, <2>1, <2>3, <2>5, <2>6, <1>w, <1>o DEF PoolKept
  <2> QED BY <2>1, <2>3, <2>6, <2>7 DEF WorkKept, Sure
<1>29. CASE UNCHANGED vars
  BY <1>29, <1>i DEF vars
<1> QED BY <1>1, <1>2, <1>3, <1>4, <1>5, <1>6, <1>7, <1>8, <1>9, <1>10, <1>11, <1>12,
     <1>13, <1>14, <1>15, <1>16, <1>17, <1>18, <1>19, <1>20, <1>21, <1>22, <1>23, <1>24,
     <1>25, <1>26, <1>27, <1>28, <1>29 DEF Next, Reconcile, Finish

LEMMA KeptStep ==
  ASSUME KeptInv, [Next]_vars
  PROVE  KeptInv'
<1>1. OwnersInv'
  BY OwnersStep DEF KeptInv
<1>2. ClaimedOK'
  <2> SUFFICES ASSUME Quiet', NEW q \in Resource, q \in Held', ops'[q].create = "started"
               PROVE  run'.pc \in Claiming /\ q = Taker'
    BY DEF ClaimedOK, Held
  <2> QED BY ClaimedStep
<1>3. PlannedOK'
  BY PlannedStep DEF PlannedOK
<1>4. SeenOK'
  <2>1. Quiet' /\ seen' # {} => PoolKept' /\ WorkKept' /\ Sure'
    BY SeenStep
  <2> QED BY <2>1 DEF SeenOK, PoolKept, WorkKept, Sure
<1> QED BY <1>1, <1>2, <1>3, <1>4 DEF KeptInv

\* A machine a readback ever returned as wanted is never scaled away while
\* only the provider's answers fail and nobody asks for a destruction.
THEOREM SeenStays == Spec => []SeenIsKept
<1>1. Init => KeptInv
  <2> SUFFICES ASSUME Init PROVE KeptInv
    OBVIOUS
  <2>1. /\ OwnersInv /\ run.pc = "idle" /\ seen = {} /\ Absent.status = "none"
        /\ \A r \in Resource : own[r] = Absent
    BY OwnersInit, AbsentFields DEF Init, Free
  <2> QED BY <2>1 DEF KeptInv, ClaimedOK, PlannedOK, SeenOK, Held
<1>2. KeptInv /\ [Next]_vars => KeptInv'
  BY KeptStep
<1>3. KeptInv => SeenIsKept
  BY DEF KeptInv, SeenOK, SeenIsKept, Quiet, Calm, Undisturbed
<1> QED BY <1>1, <1>2, <1>3, PTL DEF Spec
=============================================================================
