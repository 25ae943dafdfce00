--------------------------- MODULE RuntimeClaims ---------------------------
(***************************************************************************)
(* Fabric's claims on provider work that must not be done twice: storage   *)
(* attachments, Workspace runtimes, gateway secrets and the destruction of *)
(* runtimes.  A request claims a row of fabric_operations, does its work   *)
(* at the provider outside any lock, and records the outcome if the claim  *)
(* is still its own.  Calls of several service instances interleave at     *)
(* every statement and may die anywhere; a claim that has stood for two    *)
(* minutes is taken over.  Each action is called under one idempotency     *)
(* key: other keys have rows of their own.                                 *)
(***************************************************************************)
EXTENDS Integers

CONSTANTS
  Caller,   \* calls in progress at once
  Action,   \* actions called under one key each
  Destroy,  \* the actions among them that are destroy_workspace_runtime
  Hash,     \* request hashes: what a call under the key may ask for
  Result,   \* what the provider may answer
  Stale,    \* runtimeClaimStaleAfter
  MaxTime   \* bound on the clock

ASSUME StaleAssumption == Stale \in Nat \ {0} /\ MaxTime \in Nat
ASSUME DestroyAssumption == Destroy \subseteq Action

VARIABLES
  now,   \* the clock
  row,   \* the operation of each action's key
  call,  \* what each call is doing
  told   \* successes that callers were answered

vars == <<now, row, call, told>>

Request == [action : Action, hash : Hash]
NoResult == [some |-> FALSE]
Some(v) == [some |-> TRUE, value |-> v]
NoRow == [status |-> "none", started |-> 0, hash |-> {}, result |-> NoResult]
Idle == [step |-> "idle"]

Init ==
  /\ now = 0
  /\ row = [a \in Action |-> NoRow]
  /\ call = [c \in Caller |-> Idle]
  /\ told = {}

----------------------------------------------------------------------------
Req(c) == call[c].request
Stored(c) == row[Req(c).action]
Goto(c, step) == call' = [call EXCEPT ![c].step = step]
Return(c) == call' = [call EXCEPT ![c] = Idle]

\* StartedAt of the claim is read from the clock before the claim is made.
Ask(c, r) ==
  /\ call[c].step = "idle"
  /\ call' = [call EXCEPT ![c] = [step |-> "lookup", request |-> r, at |-> now, prior |-> 0,
                                  result |-> NoResult]]
  /\ UNCHANGED <<now, row, told>>

\* Mutant: no claim is taken over.
NeverTakenOver(c, stored) == FALSE

\* claimRuntimeOperation: a claim that may be taken over.
TakenOver(c, stored) ==
  /\ Req(c).action \notin Destroy
  /\ stored.hash = Req(c).hash
  /\ stored.status = "started"
  /\ call[c].at - stored.started >= Stale

\* The answer to a call that did not get the claim; only success says more
\* than "in progress", "failed" or "conflict".
Replayed(c, stored) ==
  told' = IF stored.hash = Req(c).hash /\ stored.status = "succeeded"
          THEN told \cup {[request |-> Req(c), result |-> stored.result]}
          ELSE told

Unclaimed(c) ==
  IF TakenOver(c, Stored(c))
  THEN /\ call' = [call EXCEPT ![c].step = "reclaim", ![c].prior = Stored(c).started]
       /\ UNCHANGED told
  ELSE Return(c) /\ Replayed(c, Stored(c))

\* A failed destruction may be tried again.
Redoable(c, stored) == Req(c).action \in Destroy /\ stored.status = "failed"

Lookup(c) ==
  /\ call[c].step = "lookup"
  /\ \/ Stored(c) = NoRow /\ Goto(c, "insert") /\ UNCHANGED told
     \/ /\ Redoable(c, Stored(c))
        /\ \/ Stored(c).hash = Req(c).hash /\ Goto(c, "redo") /\ UNCHANGED told
           \/ Stored(c).hash # Req(c).hash /\ Return(c) /\ UNCHANGED told
     \/ Stored(c) # NoRow /\ ~Redoable(c, Stored(c)) /\ Unclaimed(c)
  /\ UNCHANGED <<now, row>>

Claimed(c) ==
  /\ row' = [row EXCEPT ![Req(c).action] =
               [status |-> "started", started |-> call[c].at, hash |-> Req(c).hash,
                result |-> NoResult]]
  /\ Goto(c, "provider")

\* The id is derived from the key: only one insert succeeds.
Free(c) == Stored(c) = NoRow

Insert(c) ==
  /\ call[c].step = "insert"
  /\ \/ Free(c) /\ Claimed(c)
     \/ ~Free(c) /\ Goto(c, "get") /\ UNCHANGED row
  /\ UNCHANGED <<now, told>>

StillFailed(c) == Stored(c).status = "failed" /\ Stored(c).hash = Req(c).hash
Redo(c) ==
  /\ call[c].step = "redo"
  /\ \/ StillFailed(c) /\ Claimed(c)
     \/ ~StillFailed(c) /\ Goto(c, "get") /\ UNCHANGED row
  /\ UNCHANGED <<now, told>>

Get(c) ==
  /\ call[c].step = "get"
  /\ Unclaimed(c)
  /\ UNCHANGED <<now, row>>

\* Mutant: ReclaimRuntime does not compare the start it read.
StillStarted(c) == Stored(c).status = "started"

\* ReclaimRuntime: only if the claim is still the one that was read.
StillPrior(c) == Stored(c).status = "started" /\ Stored(c).started = call[c].prior
Reclaim(c) ==
  /\ call[c].step = "reclaim"
  /\ \/ StillPrior(c) /\ Claimed(c)
     \/ ~StillPrior(c) /\ Goto(c, "current") /\ UNCHANGED row
  /\ UNCHANGED <<now, told>>

Current(c) ==
  /\ call[c].step = "current"
  /\ Return(c)
  /\ Replayed(c, Stored(c))
  /\ UNCHANGED <<now, row>>

\* The work itself, or the validation before it, fails or yields a result.
Provider(c) ==
  /\ call[c].step = "provider"
  /\ \/ \E v \in Result : call' = [call EXCEPT ![c].step = "save", ![c].result = Some(v)]
     \/ Goto(c, "save")
  /\ UNCHANGED <<now, row, told>>

\* Mutant: the outcome is saved by whoever finds the row started.
OwnIfStarted(c) == Stored(c).status = "started"

\* SaveRuntime: the claim is still this call's.
Own(c) == Stored(c).status = "started" /\ Stored(c).started = call[c].at

Outcome(c) ==
  [Stored(c) EXCEPT !.status = IF call[c].result.some THEN "succeeded" ELSE "failed",
                    !.result = call[c].result]

\* Mutant: the answer does not depend on the save.
TellAlways(c) ==
  told' = IF call[c].result.some THEN told \cup {[request |-> Req(c), result |-> call[c].result]}
          ELSE told

\* A caller is told of a success only when it was saved.
Tell(c) ==
  told' = IF call[c].result.some /\ Own(c)
          THEN told \cup {[request |-> Req(c), result |-> call[c].result]}
          ELSE told

Save(c) ==
  /\ call[c].step = "save"
  /\ row' = IF Own(c) THEN [row EXCEPT ![Req(c).action] = Outcome(c)] ELSE row
  /\ Tell(c)
  /\ Return(c)
  /\ UNCHANGED now

\* The process dies, the request is cancelled or a statement fails: what was
\* committed stays, what was not is lost.
Abort(c) ==
  /\ call[c].step # "idle"
  /\ now + Stale <= MaxTime  \* bound: a takeover still fits on the clock
  /\ Return(c)
  /\ UNCHANGED <<now, row, told>>

Tick ==
  /\ now < MaxTime
  /\ now' = now + 1
  /\ UNCHANGED <<row, call, told>>

Work(c) ==
  Lookup(c) \/ Insert(c) \/ Redo(c) \/ Get(c) \/ Reclaim(c) \/ Current(c) \/ Provider(c) \/ Save(c)

Next ==
  \/ \E c \in Caller : (\E r \in Request : Ask(c, r)) \/ Work(c) \/ Abort(c)
  \/ Tick

Spec == Init /\ [][Next]_vars

----------------------------------------------------------------------------
(* The control plane repeats a creation it has no final answer to, under   *)
(* the same key, and calls that do not die go on.                          *)
Fairness ==
  /\ WF_vars(Tick)
  /\ \A c \in Caller : WF_vars(Work(c))
  /\ \A r \in Request : SF_vars(\E c \in Caller : Ask(c, r))

LiveSpec == Spec /\ Fairness

----------------------------------------------------------------------------
ResultType == {NoResult} \cup {Some(v) : v \in Result}
CallType ==
  [step : {"lookup", "insert", "redo", "get", "reclaim", "current", "provider", "save"},
   request : Request, at : Nat, prior : Nat, result : ResultType]
RowType == [status : {"started", "succeeded", "failed"}, started : Nat, hash : Hash,
            result : ResultType]

\* Rows, calls and answers have their shapes; the clock stays in its bound.
TypeOK ==
  /\ now \in 0..MaxTime
  /\ row \in [Action -> RowType \cup {NoRow}]
  /\ call \in [Caller -> CallType \cup {Idle}]
  /\ told \subseteq [request : Request, result : ResultType]

Working(c) == call[c].step \in {"provider", "save"}

\* Two calls do the work of one key only when the later claim was made two
\* minutes or more after the earlier one: the earlier owner is presumed dead.
\* Two calls never destroy one runtime at once.
WorkIsSpaced ==
  \A c, d \in Caller :
    /\ c # d
    /\ Working(c)
    /\ Working(d)
    /\ Req(c).action = Req(d).action
    => /\ Req(c).action \notin Destroy
       /\ call[c].at - call[d].at >= Stale \/ call[d].at - call[c].at >= Stale

\* Work is only ever done for the request the key stands for, by a call the
\* claim names or named: a key that is used again for something else does nothing.
WorkIsAsRecorded ==
  \A c \in Caller :
    Working(c) => /\ Stored(c).hash = Req(c).hash
                  /\ call[c].at <= Stored(c).started

\* What a caller was told of is in the row, and stays there: an owner that lost
\* its claim tells nobody, and nobody undoes a success.
ToldIsKept ==
  \A t \in told :
    /\ row[t.request.action].status = "succeeded"
    /\ row[t.request.action].hash = t.request.hash
    /\ row[t.request.action].result = t.result

\* An outcome is recorded by the call whose claim stands: one that was taken
\* over, however late it finishes, cannot record its own.
RecordedByOwner ==
  [][\A a \in Action :
       row[a].status = "started" /\ row'[a].status \in {"succeeded", "failed"} =>
         \E c \in Caller : /\ call[c].step = "save"
                           /\ Req(c).action = a
                           /\ call[c].at = row[a].started
                           /\ row'[a].result = call[c].result]_vars

\* A success is final, and so is the failure of a creation: neither provider
\* call is repeated after it.
OutcomeStays ==
  [][\A a \in Action :
       row[a].status = "succeeded" \/ (row[a].status = "failed" /\ a \notin Destroy) =>
         row'[a] = row[a]]_vars

\* A creation whose owner died is taken over and settled: it does not stay
\* "in progress" for its callers.
ClaimsSettle ==
  \A a \in Action \ Destroy :
    row[a].status = "started" ~> row[a].status \in {"succeeded", "failed"}
=============================================================================
