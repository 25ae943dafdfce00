----------------------------- MODULE FabricJobs -----------------------------
(***************************************************************************)
(* Runner jobs of Fabric.  A job has no row: it is what the operation log  *)
(* says of it, decoded entry after entry.  Runners hold it under a lease   *)
(* that is only noticed to have run out when somebody reads the job.  The  *)
(* calls are serialised by jobMu; a caller that lost an answer repeats the *)
(* call under its idempotency key.  Jobs are independent: one is modelled. *)
(***************************************************************************)
EXTENDS Sequences, Integers

CONSTANTS
  Runner,  \* runner ids
  Key,     \* idempotency keys the callers use
  NoOne,   \* an empty leaseOwner
  Lease,   \* the 30 seconds of a lease, in ticks
  MaxTime  \* bound on the clock

ASSUME NoOneAssumption == NoOne \notin Runner
ASSUME LeaseAssumption == Lease \in Nat \ {0} /\ MaxTime \in Nat

VARIABLES
  now,    \* the clock
  log,    \* operations of the job, as List orders them
  tokens  \* lease tokens each runner has been told

vars == <<now, log, tokens>>

NoError == "none"
NoToken == 0
Ended == {"succeeded", "failed", "cancelled", "timed_out"}

Init ==
  /\ now = 0
  /\ log = <<>>
  /\ tokens = [r \in Runner |-> {}]

----------------------------------------------------------------------------
(* Reading the job.  Every entry is decoded into the same variable, and a  *)
(* field that was empty when the entry was written is absent from its      *)
(* JSON: the value of the entry before survives.  The token hash is taken  *)
(* from the entry itself.                                                  *)
Absent == [status |-> "absent", attempt |-> 0, owner |-> NoOne, expires |-> 0,
           error |-> NoError, token |-> NoToken]

\* The last value that is not empty.
LastPresent(values, empty) ==
  LET present == {i \in DOMAIN values : values[i] # empty}
      last == {i \in present : \A j \in present : j <= i}
  IN IF last = {} THEN empty ELSE values[CHOOSE i \in last : TRUE]

JobOf(operations) ==
  [operations[Len(operations)].job EXCEPT
     !.owner = LastPresent([i \in DOMAIN operations |-> operations[i].job.owner], NoOne),
     !.expires = LastPresent([i \in DOMAIN operations |-> operations[i].job.expires], 0),
     !.error = LastPresent([i \in DOMAIN operations |-> operations[i].job.error], NoError)]

Op(action, key, request, job) ==
  [action |-> action, key |-> key, request |-> request, at |-> now, job |-> job]

Lapsed(job) == job.status = "running" /\ now >= job.expires

\* jobLocked: whoever reads a running job past its lease times it out first.
TimeoutKey(job) == <<"timeout", job.attempt>>
Timeouts ==
  LET job == JobOf(log)
  IN IF Lapsed(job)
     THEN <<Op("timeout_job", TimeoutKey(job), job.attempt,
               [job EXCEPT !.status = "timed_out", !.error = "lease_expired"])>>
     ELSE <<>>

JobLocked == JobOf(log \o Timeouts)

----------------------------------------------------------------------------
(* The calls.  A call whose key is on the log changes nothing: the same    *)
(* request is answered from its entry, another one refused.                *)
\* Mutant: only an entry of the same request counts.
KnownExactly(action, key, request) ==
  \E i \in DOMAIN log : log[i].action = action /\ log[i].key = key /\ log[i].request = request

Known(action, key, request) ==
  \E i \in DOMAIN log : log[i].action = action /\ log[i].key = key

Exists == log # <<>>

CreateJob(k) ==
  /\ ~Exists
  /\ log' = <<Op("create_job", k, <<>>, [Absent EXCEPT !.status = "queued", !.attempt = 1])>>
  /\ UNCHANGED <<now, tokens>>

\* The transition of a call that was not repeated, on the job it read.
Transition(action, k, request, allowed, job) ==
  /\ Exists
  /\ ~Known(action, k, request)
  /\ IF allowed
     THEN log' = log \o Timeouts \o <<Op(action, k, request, job)>>
     ELSE log' = log \o Timeouts
  /\ UNCHANGED now

\* GET, and a call that fails after the timeout was recorded.
Job ==
  /\ Exists
  /\ log' = log \o Timeouts
  /\ UNCHANGED <<now, tokens>>

CancelJob(k) ==
  /\ Transition("cancel_job", k, <<>>, JobLocked.status \in {"queued", "running"},
                [JobLocked EXCEPT !.status = "cancelled"])
  /\ UNCHANGED tokens

\* A random token: one no claim has drawn.
NewToken == 1 + Len(log)

Claimable(job) == job.status = "queued"

\* Only the first answer carries the token, and it may be lost.
ClaimJob(r, k) ==
  /\ Transition("claim_job", k, <<r>>, Claimable(JobLocked),
                [JobLocked EXCEPT !.status = "running", !.owner = r,
                                     !.expires = now + Lease, !.token = NewToken])
  /\ \/ Claimable(JobLocked) /\ tokens' = [tokens EXCEPT ![r] = @ \cup {NewToken}]
     \/ UNCHANGED tokens

\* Mutant: a job that was running when it was last claimed.
LeasedByToken(job, r, t) == job.status \in {"running", "timed_out"} /\ job.owner = r /\ job.token = t

\* activeLeasedJob
Leased(job, r, t) == job.status = "running" /\ job.owner = r /\ job.token = t

HeartbeatJob(r, k, t) ==
  /\ t \in tokens[r]
  /\ Transition("heartbeat_job", k, <<r, t>>, Leased(JobLocked, r, t),
                [JobLocked EXCEPT !.expires = now + Lease])
  /\ UNCHANGED tokens

CompleteJob(r, k, t) ==
  /\ t \in tokens[r]
  /\ Transition("complete_job", k, <<r, t>>, Leased(JobLocked, r, t),
                [JobLocked EXCEPT !.status = "succeeded", !.error = NoError])
  /\ UNCHANGED tokens

FailJob(r, k, t) ==
  /\ t \in tokens[r]
  /\ Transition("fail_job", k, <<r, t>>, Leased(JobLocked, r, t),
                [JobLocked EXCEPT !.status = "failed", !.error = "runner_failed"])
  /\ UNCHANGED tokens

Retryable(job) == job.status \in {"failed", "timed_out"}

RetryJob(k) ==
  /\ Transition("retry_job", k, <<>>, Retryable(JobLocked),
                [Absent EXCEPT !.status = "queued", !.attempt = JobLocked.attempt + 1])
  /\ UNCHANGED tokens

Tick ==
  /\ now < MaxTime
  /\ now' = now + 1
  /\ UNCHANGED <<log, tokens>>

Next ==
  \/ \E k \in Key :
       \/ CreateJob(k)
       \/ CancelJob(k)
       \/ RetryJob(k)
       \/ \E r \in Runner :
            \/ ClaimJob(r, k)
            \/ \E t \in tokens[r] : HeartbeatJob(r, k, t) \/ CompleteJob(r, k, t) \/ FailJob(r, k, t)
  \/ Job
  \/ Tick

Spec == Init /\ [][Next]_vars

----------------------------------------------------------------------------
JobType == [status : {"queued", "running"} \cup Ended, attempt : Nat \ {0},
            owner : Runner \cup {NoOne}, expires : Nat,
            error : {NoError, "lease_expired", "runner_failed"}, token : Nat]

\* The log holds entries of the seven transitions and the creation.
TypeOK ==
  /\ now \in 0..MaxTime
  /\ \A i \in DOMAIN log :
       /\ log[i].action \in {"create_job", "claim_job", "heartbeat_job", "complete_job",
                             "fail_job", "retry_job", "cancel_job", "timeout_job"}
       /\ log[i].job \in JobType
       /\ log[i].at \in 0..now
  /\ \A r \in Runner : tokens[r] \subseteq 1..Len(log)

\* A call that is repeated, by a caller that lost the answer, takes effect once;
\* so does the time-out of an attempt, whoever notices it.
OneEffectPerKey ==
  \A i, j \in DOMAIN log :
    log[i].action = log[j].action /\ log[i].key = log[j].key => i = j

\* An attempt ends once: a runner's completion, its failure, the time-out and
\* the cancellation exclude each other, in whatever order they arrive.
OneOutcomePerAttempt ==
  \A i, j \in DOMAIN log :
    /\ log[i].job.status \in Ended
    /\ log[j].job.status \in Ended
    /\ log[i].job.attempt = log[j].job.attempt
    => i = j

Holding == {"claim_job", "heartbeat_job"}
\* What a runner does of a job it holds is done by the runner that claimed this
\* attempt, with that claim's token, and its lease never lapsed in between:
\* a runner that was away too long is fenced off, even when it comes back
\* before anyone noticed and even when it has claimed the job again.
UnbrokenLease ==
  \A i \in DOMAIN log :
    log[i].action \in {"heartbeat_job", "complete_job", "fail_job"} =>
      \E last \in 1..(i - 1) :
        /\ log[last].action \in Holding
        /\ \A j \in (last + 1)..(i - 1) : log[j].action \notin Holding
        /\ log[last].job.owner = log[i].request[1]
        /\ log[last].job.token = log[i].request[2]
        /\ log[last].job.attempt = log[i].job.attempt
        /\ log[i].at < log[last].job.expires

\* An attempt is claimed by one runner.
OneClaimPerAttempt ==
  \A i, j \in DOMAIN log :
    /\ log[i].action = "claim_job"
    /\ log[j].action = "claim_job"
    /\ log[i].job.attempt = log[j].job.attempt
    => i = j

\* One attempt, one claim, one outcome, whatever is repeated.
AttemptsAreExclusive == OneEffectPerKey /\ OneClaimPerAttempt /\ OneOutcomePerAttempt
=============================================================================
