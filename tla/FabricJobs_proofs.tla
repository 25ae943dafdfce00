------------------------- MODULE FabricJobs_proofs -------------------------
(***************************************************************************)
(* The two safety properties of FabricJobs, for any set of runners and of  *)
(* keys, any lease and any bound on the clock.  The log only grows, by the *)
(* entry of a lapsed lease and by that of the call: what an entry has to   *)
(* do with the entries before it follows from what it has to do with the   *)
(* last of them, the only one that says how the job stands.                *)
(***************************************************************************)
EXTENDS FabricJobs, SequenceTheorems, TLAPS

Action == {"create_job", "claim_job", "heartbeat_job", "complete_job",
           "fail_job", "retry_job", "cancel_job", "timeout_job"}
OfRunner == {"heartbeat_job", "complete_job", "fail_job"}

Entry == [action : Action, key : Key \cup ({"timeout"} \X Nat),
          request : {<<>>} \cup {<<r>> : r \in Runner} \cup (Runner \X Nat) \cup Nat,
          at : Nat, job : JobType]

\* What is true of an entry by itself: a running job is one that is held.
EntryOK(e) ==
  /\ e.at <= now
  /\ e.action = "timeout_job" =>
       e.job.status = "timed_out" /\ e.key = <<"timeout", e.job.attempt>>
  /\ e.job.status = "running" =>
       e.action \in Holding /\ e.job.owner # NoOne /\ e.job.expires # 0
  /\ e.action \in Holding => e.job.status = "running"

\* What an entry has to do with one before it: attempts are counted up, an
\* attempt that has ended is over, and one is queued, then claimed, first.
Follows(e, d) ==
  /\ d.job.attempt <= e.job.attempt
  /\ d.job.status \in Ended => d.job.attempt < e.job.attempt
  /\ e.job.status = "queued" => d.job.attempt < e.job.attempt
  /\ e.action = "claim_job" /\ d.job.attempt = e.job.attempt => d.job.status = "queued"

\* What a runner did it did under the lease of entry d.
Under(e, d) ==
  /\ d.action \in Holding
  /\ d.job.owner = e.request[1]
  /\ d.job.token = e.request[2]
  /\ d.job.attempt = e.job.attempt
  /\ e.at < d.job.expires

LogOK(L) ==
  /\ L \in Seq(Entry)
  /\ \A i \in DOMAIN L : EntryOK(L[i])
  /\ \A i, j \in DOMAIN L : i < j => Follows(L[j], L[i])
  /\ \A i, j \in DOMAIN L : L[i].action = L[j].action /\ L[i].key = L[j].key => i = j
  /\ \A i \in DOMAIN L : L[i].action \in OfRunner =>
       \E d \in 1..(i - 1) :
         /\ \A j \in (d + 1)..(i - 1) : L[j].action \notin Holding
         /\ Under(L[i], L[d])

TokensOK ==
  /\ tokens \in [Runner -> SUBSET Nat]
  /\ \A r \in Runner : tokens[r] \subseteq 1..Len(log)

JobsInv == now \in 0..MaxTime /\ LogOK(log) /\ TokensOK

----------------------------------------------------------------------------
(* The log: an entry that may follow the last one may be appended.         *)

\* Following is transitive: what follows the last entry follows them all.
LEMMA FollowsAll ==
  ASSUME NEW d \in Entry, NEW e \in Entry, NEW f \in Entry, Follows(e, d), Follows(f, e)
  PROVE  Follows(f, d)
<1>1. d.job.attempt \in Nat /\ e.job.attempt \in Nat /\ f.job.attempt \in Nat
  <2>1. d.job \in JobType /\ e.job \in JobType /\ f.job \in JobType
    BY DEF Entry
  <2> QED BY <2>1 DEF JobType
<1> QED BY <1>1 DEF Follows

MayFollow(e, L) ==
  /\ e \in Entry
  /\ EntryOK(e)
  /\ L # <<>> => Follows(e, L[Len(L)])
  /\ \A i \in DOMAIN L : ~(L[i].action = e.action /\ L[i].key = e.key)
  /\ e.action \in OfRunner => L # <<>> /\ Under(e, L[Len(L)])

LEMMA Appended ==
  ASSUME NEW L \in Seq(Entry), NEW e \in Entry
  PROVE  /\ L \o <<e>> \in Seq(Entry)
         /\ Len(L) \in Nat
         /\ DOMAIN L = 1..Len(L)
         /\ Len(L \o <<e>>) = Len(L) + 1
         /\ DOMAIN (L \o <<e>>) = 1..(Len(L) + 1)
         /\ \A i \in 1..Len(L) : (L \o <<e>>)[i] = L[i] /\ L[i] \in Entry
         /\ (L \o <<e>>)[Len(L) + 1] = e
         /\ L # <<>> => Len(L) >= 1
<1>1. L \o <<e>> = Append(L, e)
  BY AppendIsConcat
<1>2. Append(L, e) \in Seq(Entry) /\ Len(Append(L, e)) = Len(L) + 1
  BY AppendProperties
<1>3. DOMAIN Append(L, e) = 1..(Len(L) + 1)
  BY <1>2, LenProperties
<1>4. \A i \in 1..Len(L) : Append(L, e)[i] = L[i]
  BY AppendProperties
<1>5. Append(L, e)[Len(L) + 1] = e
  BY AppendProperties
<1>6. \A i \in 1..Len(L) : L[i] \in Entry
  BY ElementOfSeq
<1>7. Len(L) \in Nat /\ DOMAIN L = 1..Len(L)
  BY LenProperties
<1>8. L # <<>> => Len(L) >= 1
  <2>1. L # <<>> => Len(L) \in Nat \ {0}
    BY EmptySeq
  <2> QED BY <2>1
<1> QED BY <1>1, <1>2, <1>3, <1>4, <1>5, <1>6, <1>7, <1>8

LEMMA AppendKeeps ==
  ASSUME NEW L, LogOK(L), NEW e, MayFollow(e, L)
  PROVE  LogOK(L \o <<e>>)
<1> DEFINE n == Len(L)
           M == L \o <<e>>
<1>1. L \in Seq(Entry) /\ e \in Entry
  BY DEF LogOK, MayFollow
<1>2. /\ M \in Seq(Entry) /\ n \in Nat
      /\ DOMAIN L = 1..n
      /\ DOMAIN M = 1..(n + 1)
      /\ \A i \in 1..n : M[i] = L[i] /\ L[i] \in Entry
      /\ M[n + 1] = e
      /\ L # <<>> => n >= 1
  BY <1>1, Appended
<1>3. n >= 1 => L # <<>>
  BY EmptySeq
<1> HIDE DEF n, M
<1>4. \A i \in 1..(n + 1) : i \in 1..n \/ i = n + 1
  BY <1>2
<1>5. ASSUME NEW i \in DOMAIN M
      PROVE  EntryOK(M[i])
  <2>1. CASE i = n + 1
    BY <1>2, <2>1 DEF MayFollow
  <2>2. CASE i \in 1..n
    BY <1>2, <2>2 DEF LogOK
  <2> QED BY <1>2, <1>4, <1>5, <2>1, <2>2
<1>6. ASSUME NEW i \in DOMAIN M, NEW j \in DOMAIN M, i < j
      PROVE  Follows(M[j], M[i])
  <2>1. i \in 1..n
    BY <1>2, <1>6
  <2>2. CASE j \in 1..n
    BY <1>2, <1>6, <2>1, <2>2 DEF LogOK
  <2>3. CASE j = n + 1
    <3>1. n \in 1..n /\ L # <<>>
      BY <1>2, <1>3, <2>1
    <3>2. Follows(e, L[n])
      BY <3>1 DEF MayFollow, n
    <3>3. CASE i = n
      BY <1>2, <2>1, <2>3, <3>2, <3>3
    <3>4. CASE i < n
      <4>1. Follows(L[n], L[i])
        BY <1>2, <2>1, <3>1, <3>4 DEF LogOK
      <4>2. Follows(e, L[i])
        BY <1>1, <1>2, <2>1, <3>1, <3>2, <4>1, FollowsAll
      <4> QED BY <1>2, <2>1, <2>3, <4>2
    <3> QED BY <1>2, <2>1, <3>3, <3>4
  <2> QED BY <1>2, <1>4, <2>2, <2>3
<1>7. ASSUME NEW i \in DOMAIN M, NEW j \in DOMAIN M,
             M[i].action = M[j].action, M[i].key = M[j].key
      PROVE  i = j
  <2>1. CASE i \in 1..n /\ j \in 1..n
    BY <1>2, <1>7, <2>1 DEF LogOK
  <2>2. CASE i \in 1..n /\ j = n + 1
    BY <1>2, <1>7, <2>2 DEF MayFollow
  <2>3. CASE i = n + 1 /\ j \in 1..n
    BY <1>2, <1>7, <2>3 DEF MayFollow
  <2> QED BY <1>2, <1>4, <2>1, <2>2, <2>3
<1>8. ASSUME NEW i \in DOMAIN M, M[i].action \in OfRunner
      PROVE  \E d \in 1..(i - 1) :
               /\ \A j \in (d + 1)..(i - 1) : M[j].action \notin Holding
               /\ Under(M[i], M[d])
  <2>1. CASE i = n + 1
    <3>1. L # <<>> /\ Under(e, L[n])
      BY <1>2, <1>8, <2>1 DEF MayFollow, n
    <3>2. n \in 1..(i - 1) /\ n \in 1..n /\ (n + 1)..(i - 1) = {}
      BY <1>2, <2>1, <3>1
    <3>3. Under(M[i], M[n])
      BY <1>2, <2>1, <3>1, <3>2
    <3> QED BY <3>2, <3>3
  <2>2. CASE i \in 1..n
    <3>1. M[i] = L[i] /\ i \in DOMAIN L
      BY <1>2, <2>2
    <3>2. PICK d \in 1..(i - 1) :
            /\ \A j \in (d + 1)..(i - 1) : L[j].action \notin Holding
            /\ Under(L[i], L[d])
      BY <1>8, <3>1 DEF LogOK
    <3>3. \A j \in 1..(i - 1) : j \in 1..n
      BY <1>2, <2>2
    <3>4. \A j \in (d + 1)..(i - 1) : j \in 1..(i - 1)
      BY <1>2, <2>2
    <3>5. \A j \in (d + 1)..(i - 1) : M[j].action \notin Holding
      BY <1>2, <3>2, <3>3, <3>4
    <3>6. Under(M[i], M[d])
      BY <1>2, <3>1, <3>2, <3>3
    <3> QED BY <3>5, <3>6
  <2> QED BY <1>2, <1>4, <1>8, <2>1, <2>2
<1> QED BY <1>2, <1>5, <1>6, <1>7, <1>8 DEF LogOK, M

----------------------------------------------------------------------------
(* Reading the job: what was there survives, and an entry that says who    *)
(* holds the job and until when is the one that counts.                    *)

LEMMA LastPresentValue ==
  ASSUME NEW n \in Nat, n >= 1, NEW S, NEW empty \in S, NEW values \in [1..n -> S]
  PROVE  /\ LastPresent(values, empty) \in S
         /\ values[n] # empty => LastPresent(values, empty) = values[n]
<1> DEFINE present == {i \in DOMAIN values : values[i] # empty}
           last == {i \in present : \A j \in present : j <= i}
<1>1. LastPresent(values, empty) = IF last = {} THEN empty ELSE values[CHOOSE i \in last : TRUE]
  BY DEF LastPresent
<1>2. last \subseteq 1..n
  OBVIOUS
<1>3. ASSUME values[n] # empty
      PROVE  last = {n}
  <2>1. n \in last
    BY <1>3
  <2>2. \A i \in last : i = n
    BY <1>3, <2>1
  <2> QED BY <2>1, <2>2
<1> HIDE DEF present, last
<1>4. LastPresent(values, empty) \in S
  <2>1. CASE last = {}
    BY <1>1, <2>1
  <2>2. CASE last # {}
    <3>1. (CHOOSE i \in last : TRUE) \in last
      BY <2>2
    <3> QED BY <1>1, <1>2, <2>2, <3>1
  <2> QED BY <2>1, <2>2
<1>5. ASSUME values[n] # empty
      PROVE  LastPresent(values, empty) = values[n]
  <2>1. (CHOOSE i \in last : TRUE) = n
    BY <1>3, <1>5
  <2> QED BY <1>1, <1>3, <1>5, <2>1
<1> QED BY <1>4, <1>5

LEMMA JobFields ==
  ASSUME NEW job \in JobType
  PROVE  /\ job.status \in {"queued", "running"} \cup Ended
         /\ job.attempt \in Nat \ {0}
         /\ job.owner \in Runner \cup {NoOne}
         /\ job.expires \in Nat
         /\ job.error \in {NoError, "lease_expired", "runner_failed"}
         /\ job.token \in Nat
BY DEF JobType

LEMMA JobRead ==
  ASSUME NEW L \in Seq(Entry), L # <<>>
  PROVE  LET last == L[Len(L)].job
         IN /\ Len(L) \in DOMAIN L
            /\ L[Len(L)] \in Entry
            /\ JobOf(L) \in JobType
            /\ JobOf(L).status = last.status
            /\ JobOf(L).attempt = last.attempt
            /\ JobOf(L).token = last.token
            /\ last.owner # NoOne => JobOf(L).owner = last.owner
            /\ last.expires # 0 => JobOf(L).expires = last.expires
<1> DEFINE n == Len(L)
           owners == [i \in DOMAIN L |-> L[i].job.owner]
           expiries == [i \in DOMAIN L |-> L[i].job.expires]
           errors == [i \in DOMAIN L |-> L[i].job.error]
           job == L[n].job
<1>1. n \in Nat \ {0} /\ DOMAIN L = 1..n
  BY EmptySeq, LenProperties
<1>2. \A i \in 1..n : L[i] \in Entry
  BY ElementOfSeq
<1> HIDE DEF n
<1>3. \A i \in 1..n : L[i].job \in JobType
  BY <1>2 DEF Entry
<1>4. /\ owners \in [1..n -> Runner \cup {NoOne}]
      /\ expiries \in [1..n -> Nat]
      /\ errors \in [1..n -> {NoError, "lease_expired", "runner_failed"}]
  BY <1>1, <1>3, JobFields
<1>5. n \in 1..n /\ n >= 1
  BY <1>1
<1>6. owners[n] = job.owner /\ expiries[n] = job.expires
  BY <1>1, <1>5
<1>7. job \in JobType
  BY <1>3, <1>5
<1> HIDE DEF owners, expiries, errors, job
<1>8. /\ LastPresent(owners, NoOne) \in Runner \cup {NoOne}
      /\ job.owner # NoOne => LastPresent(owners, NoOne) = job.owner
  <2>1. PICK S : S = Runner \cup {NoOne}
    OBVIOUS
  <2>2. NoOne \in S /\ owners \in [1..n -> S]
    BY <1>4, <2>1
  <2>3. /\ LastPresent(owners, NoOne) \in S
        /\ owners[n] # NoOne => LastPresent(owners, NoOne) = owners[n]
    BY <1>1, <1>5, <2>2, LastPresentValue
  <2> QED BY <1>6, <2>1, <2>3
<1>9. /\ LastPresent(expiries, 0) \in Nat
      /\ job.expires # 0 => LastPresent(expiries, 0) = job.expires
  <2>1. PICK S, zero : S = Nat /\ zero = 0
    OBVIOUS
  <2>2. zero \in S /\ expiries \in [1..n -> S]
    BY <1>4, <2>1
  <2>3. /\ LastPresent(expiries, zero) \in S
        /\ expiries[n] # zero => LastPresent(expiries, zero) = expiries[n]
    BY <1>1, <1>5, <2>2, LastPresentValue
  <2> QED BY <1>6, <2>1, <2>3
<1>10. LastPresent(errors, NoError) \in {NoError, "lease_expired", "runner_failed"}
  BY <1>1, <1>4, <1>5, LastPresentValue
<1>11. JobOf(L) = [job EXCEPT !.owner = LastPresent(owners, NoOne),
                              !.expires = LastPresent(expiries, 0),
                              !.error = LastPresent(errors, NoError)]
  BY DEF JobOf, n, owners, expiries, errors, job
<1>12. JobOf(L) \in JobType
  BY <1>7, <1>8, <1>9, <1>10, <1>11 DEF JobType
<1>13. /\ JobOf(L).status = job.status
       /\ JobOf(L).attempt = job.attempt
       /\ JobOf(L).token = job.token
       /\ JobOf(L).owner = LastPresent(owners, NoOne)
       /\ JobOf(L).expires = LastPresent(expiries, 0)
  BY <1>7, <1>11 DEF JobType
<1>14. n \in DOMAIN L /\ L[n] \in Entry
  BY <1>1, <1>2, <1>5
<1> QED BY <1>8, <1>9, <1>12, <1>13, <1>14 DEF n, job

\* What a lapsed lease leaves: a log that is still sound, and a job that is
\* running only if its lease has not lapsed.
LEMMA TimeoutsKeep ==
  ASSUME LogOK(log), log # <<>>, now \in Nat
  PROVE  LET M == log \o Timeouts
             last == M[Len(M)]
         IN /\ LogOK(M)
            /\ M # <<>>
            /\ last \in Entry
            /\ Len(M) \in Nat /\ Len(log) \in Nat /\ Len(M) >= Len(log)
            /\ \A i \in DOMAIN M :
                 M[i].action # "timeout_job" => i \in DOMAIN log /\ M[i] = log[i]
            /\ JobLocked \in JobType
            /\ JobLocked.status = last.job.status
            /\ JobLocked.attempt = last.job.attempt
            /\ JobLocked.token = last.job.token
            /\ JobLocked.status = "running" =>
                 /\ last.action \in Holding
                 /\ JobLocked.owner = last.job.owner
                 /\ JobLocked.expires = last.job.expires
                 /\ now < JobLocked.expires
<1> DEFINE job == JobOf(log)
           end == log[Len(log)]
           M == log \o Timeouts
           last == M[Len(M)]
<1>1. log \in Seq(Entry)
  BY DEF LogOK
<1>2. /\ Len(log) \in DOMAIN log /\ end \in Entry
      /\ job \in JobType
      /\ job.status = end.job.status
      /\ job.attempt = end.job.attempt
      /\ job.token = end.job.token
      /\ end.job.owner # NoOne => job.owner = end.job.owner
      /\ end.job.expires # 0 => job.expires = end.job.expires
  BY <1>1, JobRead
<1>3. EntryOK(end) /\ Len(log) \in Nat /\ DOMAIN log = 1..Len(log)
  BY <1>1, <1>2, LenProperties DEF LogOK
<1>4. job.status = "running" =>
        end.action \in Holding /\ job.owner = end.job.owner /\ job.expires = end.job.expires
  BY <1>2, <1>3 DEF EntryOK
<1>5. CASE ~Lapsed(job)
  <2>1. Timeouts = <<>>
    BY <1>5 DEF Timeouts
  <2>2. M = log
    BY <1>1, <2>1, ConcatEmptySeq
  <2>3. JobLocked = job
    BY <2>2 DEF JobLocked
  <2>4. job.status = "running" => now < job.expires
    <3>1. job.expires \in Nat
      BY <1>2, JobFields
    <3> QED BY <1>5, <3>1 DEF Lapsed
  <2> QED BY <1>2, <1>3, <1>4, <2>2, <2>3, <2>4
<1>6. CASE Lapsed(job)
  <2> DEFINE new == [job EXCEPT !.status = "timed_out", !.error = "lease_expired"]
             e == Op("timeout_job", TimeoutKey(job), job.attempt, new)
  <2>1. Timeouts = <<e>>
    BY <1>6 DEF Timeouts
  <2>2. job.status = "running"
    BY <1>6 DEF Lapsed
  <2>3. new \in JobType
    BY <1>2 DEF JobType, Ended
  <2>4. new.status = "timed_out" /\ new.attempt = job.attempt
    BY <1>2 DEF JobType
  <2> HIDE DEF new
  <2>5. job.attempt \in Nat
    BY <1>2, JobFields
  <2>6. /\ e.action = "timeout_job" /\ e.key = <<"timeout", job.attempt>>
        /\ e.at = now /\ e.job = new
    BY DEF Op, TimeoutKey
  <2>7. e \in Entry
    BY <2>3, <2>5 DEF Op, TimeoutKey, Entry, Action
  <2> HIDE DEF e
  <2>8. EntryOK(e)
    BY <2>4, <2>6 DEF EntryOK, Holding
  <2>9. Follows(e, end)
    BY <1>2, <2>2, <2>4, <2>5, <2>6 DEF Follows, Ended
  <2>10. ASSUME NEW i \in DOMAIN log, log[i].action = e.action, log[i].key = e.key
         PROVE  FALSE
    <3>1. log[i].job.status = "timed_out" /\ log[i].key = <<"timeout", log[i].job.attempt>>
      BY <2>6, <2>10 DEF LogOK, EntryOK
    <3>2. log[i].job.attempt = job.attempt
      BY <2>6, <2>10, <3>1
    <3>3. i # Len(log)
      BY <1>2, <2>2, <3>1
    <3>4. Follows(end, log[i])
      BY <1>2, <1>3, <3>3 DEF LogOK
    <3>5. log[i].job.attempt < end.job.attempt
      BY <3>1, <3>4 DEF Follows, Ended
    <3> QED BY <1>2, <2>5, <3>2, <3>5
  <2>11. MayFollow(e, log)
    BY <2>6, <2>7, <2>8, <2>9, <2>10 DEF MayFollow, OfRunner
  <2>12. M = log \o <<e>>
    BY <2>1
  <2>13. LogOK(M)
    BY <2>11, <2>12, AppendKeeps
  <2>14. /\ Len(M) = Len(log) + 1
         /\ DOMAIN M = 1..(Len(log) + 1)
         /\ \A i \in 1..Len(log) : M[i] = log[i]
         /\ M[Len(log) + 1] = e
    BY <1>1, <2>7, <2>12, Appended
  <2>15. M \in Seq(Entry) /\ M # <<>>
    BY <1>3, <2>13, <2>14, EmptySeq DEF LogOK
  <2>16. last = e
    BY <2>14
  <2>17. /\ JobLocked \in JobType
         /\ JobLocked.status = last.job.status
         /\ JobLocked.attempt = last.job.attempt
         /\ JobLocked.token = last.job.token
    BY <2>15, JobRead DEF JobLocked
  <2>18. JobLocked.status # "running"
    BY <2>4, <2>6, <2>16, <2>17
  <2>19. \A i \in DOMAIN M :
           M[i].action # "timeout_job" => i \in DOMAIN log /\ M[i] = log[i]
    BY <1>3, <2>6, <2>14
  <2> QED BY <1>3, <2>7, <2>13, <2>14, <2>15, <2>16, <2>17, <2>18, <2>19
<1> QED BY <1>5, <1>6

----------------------------------------------------------------------------
(* The calls.                                                              *)

\* The entry of a call that is allowed, against the job it read.
Allowed(action, k, request, job) ==
  /\ Op(action, k, request, job) \in Entry
  /\ action # "timeout_job"
  /\ action \in Holding <=> job.status = "running"
  /\ job.status = "running" => job.owner # NoOne /\ job.expires # 0
  /\ JobLocked.attempt <= job.attempt
  /\ JobLocked.status \in Ended \/ job.status = "queued" => JobLocked.attempt < job.attempt
  /\ action = "claim_job" => JobLocked.status = "queued"
  /\ action \in OfRunner =>
       /\ Leased(JobLocked, request[1], request[2])
       /\ job.attempt = JobLocked.attempt

LEMMA CallKeeps ==
  ASSUME LogOK(log), now \in Nat,
         NEW action, NEW k, NEW request, NEW allowed \in BOOLEAN, NEW job,
         Transition(action, k, request, allowed, job),
         allowed => Allowed(action, k, request, job)
  PROVE  /\ LogOK(log)'
         /\ Len(log) \in Nat /\ Len(log') \in Nat /\ Len(log') >= Len(log)
         /\ allowed => Len(log') >= Len(log) + 1
<1> DEFINE M == log \o Timeouts
           last == M[Len(M)]
           e == Op(action, k, request, job)
<1>1. log # <<>> /\ ~Known(action, k, request) /\ now' = now
      /\ log' = IF allowed THEN M \o <<e>> ELSE M
  BY DEF Transition, Exists
<1>2. /\ LogOK(M)
      /\ M # <<>>
      /\ last \in Entry
      /\ Len(M) \in Nat /\ Len(log) \in Nat /\ Len(M) >= Len(log)
      /\ \A i \in DOMAIN M :
           M[i].action # "timeout_job" => i \in DOMAIN log /\ M[i] = log[i]
      /\ JobLocked \in JobType
      /\ JobLocked.status = last.job.status
      /\ JobLocked.attempt = last.job.attempt
      /\ JobLocked.token = last.job.token
      /\ JobLocked.status = "running" =>
           /\ last.action \in Holding
           /\ JobLocked.owner = last.job.owner
           /\ JobLocked.expires = last.job.expires
           /\ now < JobLocked.expires
  BY <1>1, TimeoutsKeep
<1> HIDE DEF M, last
<1>3. LogOK(log') => LogOK(log)'
  BY <1>1 DEF LogOK, EntryOK
<1>4. CASE ~allowed
  BY <1>1, <1>2, <1>3, <1>4
<1>5. CASE allowed
  <2>1. /\ e.action = action /\ e.key = k /\ e.request = request
        /\ e.at = now /\ e.job = job
    BY DEF Op
  <2>2. e \in Entry /\ Allowed(action, k, request, job)
    BY <1>5 DEF Allowed
  <2> HIDE DEF e
  <2>3. EntryOK(e)
    BY <2>1, <2>2 DEF EntryOK, Allowed
  <2>4. JobLocked.attempt \in Nat /\ job.attempt \in Nat
    BY <1>2, <2>1, <2>2, JobFields DEF Entry
  <2>5. Follows(e, last)
    BY <1>2, <2>1, <2>2, <2>4 DEF Follows, Allowed
  <2>6. \A i \in DOMAIN M : ~(M[i].action = e.action /\ M[i].key = e.key)
    BY <1>1, <1>2, <2>1, <2>2 DEF Known, Allowed
  <2>7. ASSUME action \in OfRunner
        PROVE  Under(e, last)
    BY <1>2, <2>1, <2>2, <2>7 DEF Under, Allowed, Leased
  <2>8. MayFollow(e, M)
    BY <1>2, <2>1, <2>2, <2>3, <2>5, <2>6, <2>7 DEF MayFollow, last
  <2>9. log' = M \o <<e>>
    BY <1>1, <1>5 DEF e
  <2>10. LogOK(log')
    BY <1>2, <2>8, <2>9, AppendKeeps
  <2>11. Len(log') = Len(M) + 1
    BY <1>2, <2>2, <2>9, Appended DEF LogOK
  <2> QED BY <1>2, <1>3, <2>10, <2>11
<1> QED BY <1>4, <1>5

LEMMA EntryOf ==
  ASSUME NEW action \in Action, NEW k \in Key, NEW request, NEW job \in JobType,
         \/ request = <<>>
         \/ \E r \in Runner : request = <<r>>
         \/ request \in Runner \X Nat,
         now \in Nat
  PROVE  Op(action, k, request, job) \in Entry
BY DEF Op, Entry

\* A call of a runner on a job it holds, or of anyone that ends the attempt.
LEMMA EndingKeeps ==
  ASSUME LogOK(log), log # <<>>, now \in Nat, NEW k \in Key, NEW request, NEW action, NEW job,
         \/ action = "cancel_job" /\ request = <<>> /\ JobLocked.status \in {"queued", "running"}
         \/ /\ action \in {"complete_job", "fail_job"}
            /\ request \in Runner \X Nat
            /\ Leased(JobLocked, request[1], request[2]),
         job \in JobType, job.status \in Ended, job.attempt = JobLocked.attempt
  PROVE  Allowed(action, k, request, job)
<1>1. JobLocked \in JobType
  BY TimeoutsKeep
<1>2. JobLocked.attempt \in Nat /\ JobLocked.status \notin Ended /\ job.status # "running"
      /\ job.status # "queued"
  BY <1>1, JobFields DEF Leased, Ended
<1>3. action \in Action
  BY DEF Action
<1>4. Op(action, k, request, job) \in Entry
  BY <1>3, EntryOf
<1> QED BY <1>2, <1>4 DEF Allowed, Holding, OfRunner

LEMMA CancelKeeps ==
  ASSUME LogOK(log), log # <<>>, now \in Nat, NEW k \in Key,
         JobLocked.status \in {"queued", "running"}
  PROVE  Allowed("cancel_job", k, <<>>, [JobLocked EXCEPT !.status = "cancelled"])
<1>1. PICK job : job = JobLocked
  OBVIOUS
<1>2. job \in JobType
  BY <1>1, TimeoutsKeep
<1>3. PICK new : new = [job EXCEPT !.status = "cancelled"]
  OBVIOUS
<1>4. new \in JobType
  BY <1>2, <1>3 DEF JobType, Ended
<1>5. new.status = "cancelled" /\ new.attempt = job.attempt
  BY <1>2, <1>3 DEF JobType
<1>6. Allowed("cancel_job", k, <<>>, new)
  BY <1>1, <1>4, <1>5, EndingKeeps DEF Ended
<1> QED BY <1>1, <1>3, <1>6

LEMMA CompleteKeeps ==
  ASSUME LogOK(log), log # <<>>, now \in Nat, NEW k \in Key, NEW r \in Runner, NEW t \in Nat,
         Leased(JobLocked, r, t)
  PROVE  Allowed("complete_job", k, <<r, t>>,
                 [JobLocked EXCEPT !.status = "succeeded", !.error = NoError])
<1>1. PICK job : job = JobLocked
  OBVIOUS
<1>2. job \in JobType
  BY <1>1, TimeoutsKeep
<1>3. PICK new : new = [job EXCEPT !.status = "succeeded", !.error = NoError]
  OBVIOUS
<1>4. new \in JobType
  BY <1>2, <1>3 DEF JobType, Ended
<1>5. new.status = "succeeded" /\ new.attempt = job.attempt
  BY <1>2, <1>3 DEF JobType
<1>6. Leased(JobLocked, <<r, t>>[1], <<r, t>>[2]) /\ <<r, t>> \in Runner \X Nat
  OBVIOUS
<1>7. Allowed("complete_job", k, <<r, t>>, new)
  BY <1>1, <1>4, <1>5, <1>6, EndingKeeps DEF Ended
<1> QED BY <1>1, <1>3, <1>7

LEMMA FailKeeps ==
  ASSUME LogOK(log), log # <<>>, now \in Nat, NEW k \in Key, NEW r \in Runner, NEW t \in Nat,
         Leased(JobLocked, r, t)
  PROVE  Allowed("fail_job", k, <<r, t>>,
                 [JobLocked EXCEPT !.status = "failed", !.error = "runner_failed"])
<1>1. PICK job : job = JobLocked
  OBVIOUS
<1>2. job \in JobType
  BY <1>1, TimeoutsKeep
<1>3. PICK new : new = [job EXCEPT !.status = "failed", !.error = "runner_failed"]
  OBVIOUS
<1>4. new \in JobType
  BY <1>2, <1>3 DEF JobType, Ended
<1>5. new.status = "failed" /\ new.attempt = job.attempt
  BY <1>2, <1>3 DEF JobType
<1>6. Leased(JobLocked, <<r, t>>[1], <<r, t>>[2]) /\ <<r, t>> \in Runner \X Nat
  OBVIOUS
<1>7. Allowed("fail_job", k, <<r, t>>, new)
  BY <1>1, <1>4, <1>5, <1>6, EndingKeeps DEF Ended
<1> QED BY <1>1, <1>3, <1>7

\* A lease that is taken, or extended, ends after now.
LEMMA HeartbeatKeeps ==
  ASSUME LogOK(log), log # <<>>, now \in Nat, NEW k \in Key, NEW r \in Runner, NEW t \in Nat,
         Leased(JobLocked, r, t)
  PROVE  Allowed("heartbeat_job", k, <<r, t>>, [JobLocked EXCEPT !.expires = now + Lease])
<1>1. PICK job : job = JobLocked
  OBVIOUS
<1>2. job \in JobType
  BY <1>1, TimeoutsKeep
<1>3. PICK until : until = now + Lease
  OBVIOUS
<1>4. until \in Nat /\ until # 0
  BY <1>3, LeaseAssumption
<1>5. PICK new : new = [job EXCEPT !.expires = until]
  OBVIOUS
<1>6. new \in JobType
  BY <1>2, <1>4, <1>5 DEF JobType
<1>7. new.status = "running" /\ new.attempt = job.attempt /\ new.owner = r /\ new.expires = until
  BY <1>1, <1>2, <1>5 DEF JobType, Leased
<1>8. Op("heartbeat_job", k, <<r, t>>, new) \in Entry
  BY <1>6, EntryOf DEF Action
<1>9. r # NoOne
  BY NoOneAssumption
<1>10. job.attempt \in Nat /\ job.status = "running"
  BY <1>1, <1>2, JobFields DEF Leased
<1>11. Allowed("heartbeat_job", k, <<r, t>>, new)
  BY <1>1, <1>4, <1>7, <1>8, <1>9, <1>10 DEF Allowed, Holding, Ended
<1> QED BY <1>1, <1>3, <1>5, <1>11

LEMMA ClaimKeeps ==
  ASSUME LogOK(log), log # <<>>, now \in Nat, NEW k \in Key, NEW r \in Runner,
         Claimable(JobLocked)
  PROVE  Allowed("claim_job", k, <<r>>,
                 [JobLocked EXCEPT !.status = "running", !.owner = r,
                                   !.expires = now + Lease, !.token = NewToken])
<1>1. PICK job : job = JobLocked
  OBVIOUS
<1>2. job \in JobType
  BY <1>1, TimeoutsKeep
<1>3. PICK until, drawn : until = now + Lease /\ drawn = NewToken
  OBVIOUS
<1>4. until \in Nat /\ until # 0
  BY <1>3, LeaseAssumption
<1>5. drawn \in Nat
  BY <1>3, TimeoutsKeep DEF NewToken
<1>6. PICK new : new = [job EXCEPT !.status = "running", !.owner = r,
                                   !.expires = until, !.token = drawn]
  OBVIOUS
<1>7. new \in JobType
  BY <1>2, <1>4, <1>5, <1>6 DEF JobType
<1>8. new.status = "running" /\ new.attempt = job.attempt /\ new.owner = r /\ new.expires = until
  BY <1>2, <1>6 DEF JobType
<1>9. Op("claim_job", k, <<r>>, new) \in Entry
  BY <1>7, EntryOf DEF Action
<1>10. r # NoOne
  BY NoOneAssumption
<1>11. job.attempt \in Nat /\ job.status = "queued"
  BY <1>1, <1>2, JobFields DEF Claimable
<1>12. Allowed("claim_job", k, <<r>>, new)
  BY <1>1, <1>4, <1>8, <1>9, <1>10, <1>11 DEF Allowed, Holding, OfRunner, Ended
<1> QED BY <1>1, <1>3, <1>6, <1>12

LEMMA RetryKeeps ==
  ASSUME LogOK(log), log # <<>>, now \in Nat, NEW k \in Key, Retryable(JobLocked)
  PROVE  Allowed("retry_job", k, <<>>,
                 [Absent EXCEPT !.status = "queued", !.attempt = JobLocked.attempt + 1])
<1>1. JobLocked \in JobType
  BY TimeoutsKeep
<1>2. PICK was : was = JobLocked.attempt
  OBVIOUS
<1>3. was \in Nat
  BY <1>1, <1>2, JobFields
<1>4. PICK new : new = [Absent EXCEPT !.status = "queued", !.attempt = was + 1]
  OBVIOUS
<1>5. new = [status |-> "queued", attempt |-> was + 1, owner |-> NoOne, expires |-> 0,
             error |-> NoError, token |-> NoToken]
  BY <1>4 DEF Absent
<1>6. new \in JobType
  BY <1>3, <1>5 DEF JobType, NoToken
<1>7. new.status = "queued" /\ new.attempt = was + 1
  BY <1>5
<1>8. Op("retry_job", k, <<>>, new) \in Entry
  BY <1>6, EntryOf DEF Action
<1>9. Allowed("retry_job", k, <<>>, new)
  BY <1>2, <1>3, <1>7, <1>8 DEF Allowed, Holding, OfRunner
<1> QED BY <1>2, <1>4, <1>9

----------------------------------------------------------------------------
(* The invariant and its consequences.                                     *)

LEMMA JobsInvInit == Init => JobsInv
<1> SUFFICES ASSUME Init
             PROVE  JobsInv
  OBVIOUS
<1>1. log = <<>> /\ DOMAIN log = {} /\ log \in Seq(Entry)
  BY EmptySeq DEF Init
<1>2. LogOK(log)
  BY <1>1 DEF LogOK
<1>3. TokensOK
  BY DEF Init, TokensOK
<1> QED BY <1>2, <1>3, LeaseAssumption DEF JobsInv, Init

\* The first entry of the log.
LEMMA CreateStep ==
  ASSUME JobsInv, NEW k \in Key, CreateJob(k)
  PROVE  JobsInv'
<1> DEFINE e == Op("create_job", k, <<>>, [Absent EXCEPT !.status = "queued", !.attempt = 1])
<1>1. log = <<>> /\ log' = <<e>> /\ now' = now /\ tokens' = tokens /\ now \in Nat
  BY LeaseAssumption DEF CreateJob, Exists, JobsInv
<1>2. PICK job : job = [Absent EXCEPT !.status = "queued", !.attempt = 1]
  OBVIOUS
<1>3. job = [status |-> "queued", attempt |-> 1, owner |-> NoOne, expires |-> 0,
             error |-> NoError, token |-> NoToken]
  BY <1>2 DEF Absent
<1>4. job \in JobType
  BY <1>3 DEF JobType, NoToken
<1>5. job.status = "queued"
  BY <1>3
<1>6. e.action = "create_job" /\ e.job = job /\ e.at = now
  BY <1>2 DEF Op
<1>7. e \in Entry
  BY <1>1, <1>2, <1>4, EntryOf DEF Action
<1> HIDE DEF e
<1>8. EntryOK(e)
  BY <1>1, <1>5, <1>6 DEF EntryOK, Holding
<1>9. log \in Seq(Entry) /\ DOMAIN log = {}
  BY <1>1, EmptySeq
<1>10. MayFollow(e, log)
  BY <1>1, <1>6, <1>7, <1>8, <1>9 DEF MayFollow, OfRunner
<1>11. log' = log \o <<e>>
  BY <1>1
<1>12. LogOK(log')
  BY <1>10, <1>11, AppendKeeps DEF JobsInv
<1>13. LogOK(log)'
  BY <1>1, <1>12 DEF LogOK, EntryOK
<1>14. Len(log') = Len(log) + 1 /\ Len(log) \in Nat
  BY <1>7, <1>9, <1>11, Appended
<1>15. TokensOK'
  BY <1>1, <1>14 DEF JobsInv, TokensOK
<1> QED BY <1>1, <1>13, <1>15 DEF JobsInv

\* A call that leaves what runners were told, or tells one the token it drew.
LEMMA CallStep ==
  ASSUME JobsInv, NEW action, NEW k, NEW request, NEW allowed \in BOOLEAN, NEW job,
         Transition(action, k, request, allowed, job),
         allowed => Allowed(action, k, request, job),
         \/ UNCHANGED tokens
         \/ /\ allowed
            /\ \E r \in Runner : tokens' = [tokens EXCEPT ![r] = @ \cup {NewToken}]
  PROVE  JobsInv'
<1>1. now \in Nat /\ now' = now
  BY LeaseAssumption DEF JobsInv, Transition
<1>2. /\ LogOK(log)'
      /\ Len(log) \in Nat /\ Len(log') \in Nat /\ Len(log') >= Len(log)
      /\ allowed => Len(log') >= Len(log) + 1
  BY <1>1, CallKeeps DEF JobsInv
<1>3. TokensOK'
  <2>1. CASE UNCHANGED tokens
    BY <1>2, <2>1 DEF JobsInv, TokensOK
  <2>2. ASSUME allowed, NEW r \in Runner, tokens' = [tokens EXCEPT ![r] = @ \cup {NewToken}]
        PROVE  TokensOK'
    <3>1. NewToken \in Nat /\ NewToken \in 1..Len(log')
      BY <1>2, <2>2 DEF NewToken
    <3>2. tokens' \in [Runner -> SUBSET Nat]
      BY <2>2, <3>1 DEF JobsInv, TokensOK
    <3>3. \A s \in Runner : tokens'[s] \subseteq tokens[s] \cup {NewToken}
      BY <2>2 DEF JobsInv, TokensOK
    <3>4. \A s \in Runner : tokens[s] \subseteq 1..Len(log')
      BY <1>2 DEF JobsInv, TokensOK
    <3> QED BY <3>1, <3>2, <3>3, <3>4 DEF TokensOK
  <2> QED BY <2>1, <2>2
<1> QED BY <1>1, <1>2, <1>3 DEF JobsInv

LEMMA JobStep ==
  ASSUME JobsInv, Job
  PROVE  JobsInv'
<1>1. now' = now /\ tokens' = tokens /\ log' = log \o Timeouts /\ log # <<>> /\ now \in Nat
  BY LeaseAssumption DEF Job, Exists, JobsInv
<1>2. LogOK(log') /\ Len(log) \in Nat /\ Len(log') \in Nat /\ Len(log') >= Len(log)
  BY <1>1, TimeoutsKeep DEF JobsInv
<1>3. LogOK(log)'
  BY <1>1, <1>2 DEF LogOK, EntryOK
<1>4. TokensOK'
  BY <1>1, <1>2 DEF JobsInv, TokensOK
<1> QED BY <1>1, <1>3, <1>4 DEF JobsInv

LEMMA TickStep ==
  ASSUME JobsInv, Tick
  PROVE  JobsInv'
<1>1. now \in Nat /\ now' \in 0..MaxTime /\ now' = now + 1 /\ log' = log /\ tokens' = tokens
  BY LeaseAssumption DEF JobsInv, Tick
<1>2. \A i \in DOMAIN log : EntryOK(log[i])'
  <2> SUFFICES ASSUME NEW i \in DOMAIN log
               PROVE  EntryOK(log[i])'
    OBVIOUS
  <2>1. EntryOK(log[i]) /\ log[i] \in Entry
    BY LenProperties, ElementOfSeq DEF JobsInv, LogOK
  <2>2. log[i].at \in Nat /\ log'[i] = log[i]
    BY <1>1, <2>1 DEF Entry
  <2>3. log[i].at <= now'
    BY <1>1, <2>1, <2>2 DEF EntryOK
  <2> QED BY <2>1, <2>2, <2>3 DEF EntryOK
<1>3. LogOK(log)'
  BY <1>1, <1>2 DEF JobsInv, LogOK
<1>4. TokensOK'
  BY <1>1 DEF JobsInv, TokensOK
<1> QED BY <1>1, <1>3, <1>4 DEF JobsInv

LEMMA JobsInvNext ==
  ASSUME JobsInv, Next
  PROVE  JobsInv'
<1>1. now \in Nat /\ LogOK(log)
  BY LeaseAssumption DEF JobsInv
<1>2. \A r \in Runner : tokens[r] \subseteq Nat
  BY DEF JobsInv, TokensOK
<1>3. ASSUME NEW k \in Key, CreateJob(k)
      PROVE  JobsInv'
  BY <1>3, CreateStep
<1>4. ASSUME NEW k \in Key, CancelJob(k)
      PROVE  JobsInv'
  BY <1>1, <1>4, CancelKeeps, CallStep DEF CancelJob, Transition, Exists
<1>5. ASSUME NEW k \in Key, RetryJob(k)
      PROVE  JobsInv'
  BY <1>1, <1>5, RetryKeeps, CallStep DEF RetryJob, Transition, Exists
<1>6. ASSUME NEW k \in Key, NEW r \in Runner, ClaimJob(r, k)
      PROVE  JobsInv'
  BY <1>1, <1>6, ClaimKeeps, CallStep DEF ClaimJob, Transition, Exists
<1>7. ASSUME NEW k \in Key, NEW r \in Runner, NEW t \in tokens[r], HeartbeatJob(r, k, t)
      PROVE  JobsInv'
  BY <1>1, <1>2, <1>7, HeartbeatKeeps, CallStep DEF HeartbeatJob, Transition, Exists
<1>8. ASSUME NEW k \in Key, NEW r \in Runner, NEW t \in tokens[r], CompleteJob(r, k, t)
      PROVE  JobsInv'
  BY <1>1, <1>2, <1>8, CompleteKeeps, CallStep DEF CompleteJob, Transition, Exists
<1>9. ASSUME NEW k \in Key, NEW r \in Runner, NEW t \in tokens[r], FailJob(r, k, t)
      PROVE  JobsInv'
  BY <1>1, <1>2, <1>9, FailKeeps, CallStep DEF FailJob, Transition, Exists
<1>10. CASE Job
  BY <1>10, JobStep
<1>11. CASE Tick
  BY <1>11, TickStep
<1> QED BY <1>3, <1>4, <1>5, <1>6, <1>7, <1>8, <1>9, <1>10, <1>11 DEF Next

LEMMA JobsInvStep ==
  ASSUME JobsInv, [Next]_vars
  PROVE  JobsInv'
<1>1. CASE UNCHANGED vars
  BY <1>1 DEF vars, JobsInv, LogOK, EntryOK, TokensOK
<1> QED BY <1>1, JobsInvNext

LEMMA JobsInvAlways == Spec => []JobsInv
BY JobsInvInit, JobsInvStep, PTL DEF Spec

\* The log holds entries of the seven transitions and the creation, dated and
\* in their ranges, and no runner knows a token that was not drawn.
THEOREM JobsTypeOK == Spec => []TypeOK
<1>1. JobsInv => TypeOK
  <2> SUFFICES ASSUME JobsInv
               PROVE  TypeOK
    OBVIOUS
  <2>1. \A i \in DOMAIN log : log[i] \in Entry /\ EntryOK(log[i])
    BY LenProperties, ElementOfSeq DEF JobsInv, LogOK
  <2>2. \A i \in DOMAIN log :
          log[i].action \in Action /\ log[i].job \in JobType /\ log[i].at \in 0..now
    BY <2>1, LeaseAssumption DEF Entry, EntryOK, JobsInv
  <2> QED BY <2>2 DEF TypeOK, JobsInv, TokensOK, Action
<1> QED BY <1>1, JobsInvAlways, PTL

\* What a runner does of a job it holds it does under an unbroken lease: the
\* claim of this attempt and the heartbeats since, none of them late.
THEOREM UnbrokenLeaseAlways == Spec => []UnbrokenLease
<1>1. JobsInv => UnbrokenLease
  <2> SUFFICES ASSUME JobsInv, NEW i \in DOMAIN log, log[i].action \in OfRunner
               PROVE  \E last \in 1..(i - 1) :
                        /\ log[last].action \in Holding
                        /\ \A j \in (last + 1)..(i - 1) : log[j].action \notin Holding
                        /\ log[last].job.owner = log[i].request[1]
                        /\ log[last].job.token = log[i].request[2]
                        /\ log[last].job.attempt = log[i].job.attempt
                        /\ log[i].at < log[last].job.expires
    BY DEF UnbrokenLease, OfRunner
  <2>1. PICK d \in 1..(i - 1) :
          /\ \A j \in (d + 1)..(i - 1) : log[j].action \notin Holding
          /\ Under(log[i], log[d])
    BY DEF JobsInv, LogOK
  <2> QED BY <2>1 DEF Under
<1> QED BY <1>1, JobsInvAlways, PTL

\* One attempt, one claim, one outcome, and a repeated call takes effect once.
THEOREM AttemptsAreExclusiveAlways == Spec => []AttemptsAreExclusive
<1>1. JobsInv => AttemptsAreExclusive
  <2> SUFFICES ASSUME JobsInv
               PROVE  AttemptsAreExclusive
    OBVIOUS
  <2>1. OneEffectPerKey
    BY DEF JobsInv, LogOK, OneEffectPerKey
  <2>2. ASSUME NEW i \in DOMAIN log, NEW j \in DOMAIN log
        PROVE  i < j \/ j < i \/ i = j
    BY LenProperties DEF JobsInv, LogOK
  <2>3. ASSUME NEW i \in DOMAIN log, NEW j \in DOMAIN log, i < j,
               log[i].job.attempt = log[j].job.attempt
        PROVE  /\ ~(log[i].action = "claim_job" /\ log[j].action = "claim_job")
               /\ log[i].job.status \notin Ended
    <3>1. Follows(log[j], log[i]) /\ EntryOK(log[i])
      BY <2>3 DEF JobsInv, LogOK
    <3>2. log[i].job.attempt \in Nat
      <4>1. log[i] \in Entry
        BY LenProperties, ElementOfSeq DEF JobsInv, LogOK
      <4> QED BY <4>1, JobFields DEF Entry
    <3> QED BY <2>3, <3>1, <3>2 DEF Follows, EntryOK, Holding
  <2>4. OneClaimPerAttempt
    BY <2>2, <2>3 DEF OneClaimPerAttempt
  <2>5. OneOutcomePerAttempt
    BY <2>2, <2>3 DEF OneOutcomePerAttempt
  <2> QED BY <2>1, <2>4, <2>5 DEF AttemptsAreExclusive
<1> QED BY <1>1, JobsInvAlways, PTL
=============================================================================
