------------------------ MODULE RuntimeClaims_proofs ------------------------
(***************************************************************************)
(* What RuntimeClaims promises holds for any number of calls, actions,     *)
(* hashes and results, and any takeover time.                              *)
(***************************************************************************)
EXTENDS RuntimeClaims, TLAPS

(* A worker's claim is in the row, or was taken over Stale or more later;  *)
(* a destruction's claim is always the row's.                              *)
Owner(c) ==
  Working(c) =>
    /\ Stored(c).status # "none"
    /\ Stored(c).hash = Req(c).hash
    /\ call[c].at = Stored(c).started \/ Stored(c).started - call[c].at >= Stale
    /\ Req(c).action \in Destroy => /\ Stored(c).status = "started"
                                    /\ call[c].at = Stored(c).started
Owners == \A c \in Caller : Owner(c)

(* What a call that is about to take a row over has read of it.            *)
Prior(c) ==
  /\ call[c].step = "reclaim" =>
       /\ Stored(c).status # "none"
       /\ Stored(c).hash = Req(c).hash
       /\ call[c].at - call[c].prior >= Stale
       /\ Req(c).action \notin Destroy
  /\ call[c].step = "redo" => Req(c).action \in Destroy
Priors == \A c \in Caller : Prior(c)

IInv == TypeOK /\ Owners /\ Priors /\ WorkIsSpaced /\ ToldIsKept

USE StaleAssumption, DestroyAssumption

LEMMA CallTyped ==
  ASSUME TypeOK, NEW c \in Caller, call[c].step # "idle"
  PROVE  call[c] \in CallType
BY DEF TypeOK, Idle

LEMMA RowTyped ==
  ASSUME TypeOK, NEW a \in Action, row[a].status # "none"
  PROVE  row[a] \in RowType
BY DEF TypeOK, NoRow

LEMMA InitHolds == Init => IInv
BY DEF Init, IInv, TypeOK, Owners, Owner, Priors, Prior, WorkIsSpaced, ToldIsKept, Working, Idle,
       NoRow

(* A call that moves without getting a claim or finishing one.             *)
LEMMA QuietStep ==
  ASSUME IInv, TypeOK', NEW c \in Caller,
         UNCHANGED row,
         \A d \in Caller : d # c => call'[d] = call[d],
         Working(c)' => Working(c) /\ call'[c].request = call[c].request /\ call'[c].at = call[c].at,
         Prior(c)',
         ToldIsKept'
  PROVE  IInv'
<1>1. Owners'
  BY DEF IInv, Owners, Owner, Working, Stored, Req
<1>2. Priors'
  BY DEF IInv, Priors, Prior, Stored, Req
<1>3. WorkIsSpaced'
  BY DEF IInv, WorkIsSpaced, Working, Req
<1>4. QED
  BY <1>1, <1>2, <1>3 DEF IInv

(* A call that is granted the claim its row stands for.                    *)
LEMMA ClaimStep ==
  ASSUME IInv, NEW c \in Caller,
         call[c].step \in {"insert", "redo", "reclaim"},
         Claimed(c), UNCHANGED <<now, told>>,
         \/ Stored(c) = NoRow
         \/ /\ Stored(c).status = "failed"
            /\ Stored(c).hash = Req(c).hash
            /\ Req(c).action \in Destroy
         \/ /\ Stored(c).status = "started"
            /\ Stored(c).hash = Req(c).hash
            /\ Req(c).action \notin Destroy
            /\ call[c].at - Stored(c).started >= Stale
  PROVE  IInv'
<1> DEFINE a == Req(c).action
<1>1. call[c] \in CallType /\ a \in Action
  BY CallTyped DEF IInv, CallType, Request, Req
<1>2. /\ row' = [row EXCEPT ![a] = [status |-> "started", started |-> call[c].at,
                                    hash |-> Req(c).hash, result |-> NoResult]]
      /\ call' = [call EXCEPT ![c].step = "provider"]
  BY DEF Claimed, Goto
<1>3. /\ row'[a] = [status |-> "started", started |-> call[c].at, hash |-> Req(c).hash,
                    result |-> NoResult]
      /\ \A b \in Action : b # a => row'[b] = row[b]
  BY <1>1, <1>2 DEF IInv, TypeOK
<1>4. /\ call'[c] = [call[c] EXCEPT !.step = "provider"]
      /\ \A d \in Caller : d # c => call'[d] = call[d]
  BY <1>2 DEF IInv, TypeOK
<1>5. /\ call'[c].step = "provider"
      /\ call'[c].request = call[c].request
      /\ call'[c].at = call[c].at
  BY <1>1, <1>4 DEF CallType
<1>6. TypeOK'
  <2>1. row'[a] \in RowType
    BY <1>1, <1>3 DEF RowType, ResultType, CallType, Request, Req
  <2>2. row' \in [Action -> RowType \cup {NoRow}]
    BY <1>2, <1>3, <2>1 DEF IInv, TypeOK
  <2>3. call'[c] \in CallType
    BY <1>1, <1>4 DEF CallType
  <2>4. call' \in [Caller -> CallType \cup {Idle}]
    BY <1>2, <1>4, <2>3 DEF IInv, TypeOK
  <2>5. QED
    BY <2>2, <2>4 DEF IInv, TypeOK
<1>7. ASSUME NEW d \in Caller, d # c, Working(d), Req(d).action = a
      PROVE  /\ a \notin Destroy
             /\ call[c].at - call[d].at >= Stale
             /\ Stored(c).hash = Req(c).hash
             /\ Stored(c).status = "started"
  <2>1. call[d] \in CallType /\ Stored(d) = Stored(c)
    BY <1>7, CallTyped DEF IInv, Working, Stored, Req
  <2>2. Stored(c).status # "none" /\ Stored(c) # NoRow
    BY <1>7, <2>1 DEF IInv, Owners, Owner, NoRow
  <2>3. Stored(c) \in RowType
    BY <1>1, <2>2, RowTyped DEF IInv, Stored, Req
  <2>4. a \notin Destroy
    BY <1>7, <2>1, <2>2 DEF IInv, Owners, Owner
  <2>5. call[d].at = Stored(c).started \/ Stored(c).started - call[d].at >= Stale
    BY <1>7, <2>1 DEF IInv, Owners, Owner
  <2>6. Stored(c).started \in Nat /\ call[d].at \in Nat /\ call[c].at \in Nat
    BY <1>1, <2>1, <2>3 DEF RowType, CallType
  <2>7. call[c].at - Stored(c).started >= Stale
    BY <2>2, <2>4
  <2>8. QED
    BY <2>2, <2>4, <2>5, <2>6, <2>7
<1>8. Owners'
  <2>1. Owner(c)'
    <3>1. Req(c)' = Req(c) /\ Stored(c)' = row'[a]
      BY <1>5 DEF Stored, Req
    <3>2. QED
      BY <1>3, <1>5, <3>1 DEF Owner
  <2>2. ASSUME NEW d \in Caller, d # c PROVE Owner(d)'
    <3>1. CASE Working(d) /\ Req(d).action = a
      <4>1. call[d] \in CallType
        BY <3>1, CallTyped DEF IInv, Working
      <4>2. Stored(d) = Stored(c) /\ Stored(d).hash = Req(d).hash
        BY <3>1 DEF IInv, Owners, Owner, Stored, Req
      <4>3. QED
        <5>1. call'[d] = call[d]
          BY <1>4, <2>2
        <5>2. call[d].at \in Nat /\ call[c].at \in Nat
          BY <1>1, <4>1 DEF CallType
        <5>3. /\ Working(d)' = Working(d) /\ Req(d)' = Req(d) /\ Stored(d)' = row'[a]
          BY <3>1, <5>1 DEF Working, Stored, Req
        <5>4. Stored(d).hash = Req(c).hash /\ a \notin Destroy
              /\ call[c].at - call[d].at >= Stale
          BY <1>7, <2>2, <3>1, <4>2
        <5>5. /\ Stored(d)'.status = "started" /\ Stored(d)'.hash = Req(d).hash
              /\ Stored(d)'.started = call[c].at
          BY <1>3, <4>2, <5>3, <5>4
        <5>6. call'[d].at = call[d].at
          BY <5>1
        <5>7. QED
          BY <3>1, <5>2, <5>3, <5>4, <5>5, <5>6 DEF Owner
    <3>2. CASE Working(d) /\ Req(d).action # a
      <4>1. call[d] \in CallType
        BY <3>2, CallTyped DEF IInv, Working
      <4>2. Req(d).action \in Action
        BY <4>1 DEF CallType, Request, Req
      <4>3. QED
        <5>1. call'[d] = call[d] /\ row'[Req(d).action] = row[Req(d).action]
          BY <1>3, <1>4, <2>2, <3>2, <4>2
        <5>2. /\ Working(d)' = Working(d) /\ Req(d)' = Req(d) /\ Stored(d)' = Stored(d)
              /\ call'[d].at = call[d].at
          BY <5>1 DEF Working, Stored, Req
        <5>3. QED
          BY <5>2 DEF IInv, Owners, Owner
    <3>3. CASE ~Working(d)
      BY <1>4, <2>2, <3>3 DEF Owner, Working
    <3>4. QED
      BY <3>1, <3>2, <3>3
  <2>3. QED
    BY <2>1, <2>2 DEF Owners
<1>9. Priors'
  <2>1. Prior(c)'
    BY <1>5 DEF Prior
  <2>2. ASSUME NEW d \in Caller, d # c PROVE Prior(d)'
    <3>1. CASE call[d].step = "reclaim" /\ Req(d).action = a
      <4>1. call[d] \in CallType /\ Stored(d) = Stored(c) /\ Prior(d)
        BY <3>1, CallTyped DEF IInv, Priors, Stored, Req
      <4>2. Stored(c).status # "none" /\ Stored(c).hash = Req(d).hash
        BY <3>1, <4>1 DEF Prior
      <4>3. Stored(c).hash = Req(c).hash
        BY <4>2 DEF NoRow
      <4>4. call[d].at - call[d].prior >= Stale /\ a \notin Destroy
        BY <3>1, <4>1 DEF Prior
      <4>5. call'[d] = call[d] /\ Req(d)' = Req(d) /\ Stored(d)' = row'[a]
        BY <1>4, <2>2, <3>1 DEF Stored, Req
      <4>6. row'[a].status = "started" /\ row'[a].hash = Req(d).hash
        BY <1>3, <4>2, <4>3
      <4>7. QED
        BY <3>1, <4>4, <4>5, <4>6 DEF Prior
    <3>2. CASE call[d].step = "reclaim" /\ Req(d).action # a
      <4>1. call[d] \in CallType
        BY <3>2, CallTyped DEF IInv
      <4>2. Req(d).action \in Action
        BY <4>1 DEF CallType, Request, Req
      <4>3. call'[d] = call[d] /\ row'[Req(d).action] = row[Req(d).action]
        BY <1>3, <1>4, <2>2, <3>2, <4>2
      <4>4. Req(d)' = Req(d) /\ Stored(d)' = Stored(d)
        BY <4>3 DEF Stored, Req
      <4>5. Prior(d)
        BY DEF IInv, Priors
      <4>6. QED
        BY <4>3, <4>4, <4>5 DEF Prior
    <3>3. CASE call[d].step # "reclaim"
      BY <1>4, <2>2, <3>3 DEF IInv, Priors, Prior, Req
    <3>4. QED
      BY <3>1, <3>2, <3>3
  <2>3. QED
    BY <2>1, <2>2 DEF Priors
<1>10. WorkIsSpaced'
  <2>1. ASSUME NEW d \in Caller, NEW e \in Caller, d # e, Working(d)', Working(e)',
               Req(d)'.action = Req(e)'.action
        PROVE  /\ Req(d)'.action \notin Destroy
               /\ call'[d].at - call'[e].at >= Stale \/ call'[e].at - call'[d].at >= Stale
    <3>1. CASE d = c
      BY <1>4, <1>5, <1>7, <2>1, <3>1 DEF Working, Req
    <3>2. CASE e = c
      BY <1>4, <1>5, <1>7, <2>1, <3>2 DEF Working, Req
    <3>3. CASE d # c /\ e # c
      BY <1>4, <2>1, <3>3 DEF IInv, WorkIsSpaced, Working, Req
    <3>4. QED
      BY <3>1, <3>2, <3>3
  <2>2. QED
    BY <2>1 DEF WorkIsSpaced, Req
<1>11. ToldIsKept'
  <2>1. ASSUME NEW t \in told PROVE t.request.action # a /\ t.request.action \in Action
    BY <2>1 DEF IInv, TypeOK, ToldIsKept, Request, Stored, Req, NoRow
  <2>2. QED
    BY <1>3, <2>1 DEF IInv, ToldIsKept
<1>12. QED
  BY <1>6, <1>8, <1>9, <1>10, <1>11 DEF IInv

(* Answering a call that did not get the claim.                            *)
LEMMA ReplayKeepsTold ==
  ASSUME IInv, NEW c \in Caller, call[c].step # "idle", Replayed(c, Stored(c)), UNCHANGED row
  PROVE  ToldIsKept' /\ told' \subseteq [request : Request, result : ResultType]
<1>1. call[c] \in CallType /\ Req(c) \in Request /\ Req(c).action \in Action
  BY CallTyped DEF IInv, CallType, Request, Req
<1>2. CASE Stored(c).hash = Req(c).hash /\ Stored(c).status = "succeeded"
  <2>1. told' = told \cup {[request |-> Req(c), result |-> Stored(c).result]}
    BY <1>2 DEF Replayed
  <2>2. Stored(c) \in RowType
    BY <1>1, <1>2, RowTyped DEF IInv, Stored
  <2>3. QED
    BY <1>1, <1>2, <2>1, <2>2 DEF IInv, TypeOK, ToldIsKept, Stored, RowType
<1>3. CASE ~(Stored(c).hash = Req(c).hash /\ Stored(c).status = "succeeded")
  BY <1>3 DEF Replayed, IInv, TypeOK, ToldIsKept
<1>4. QED
  BY <1>2, <1>3

LEMMA ReturnStep ==
  ASSUME IInv, NEW c \in Caller, Return(c), UNCHANGED <<now, row>>,
         ToldIsKept', told' \subseteq [request : Request, result : ResultType]
  PROVE  IInv'
<1>1. call' = [call EXCEPT ![c] = Idle] /\ call'[c] = Idle
  BY DEF Return, IInv, TypeOK
<1>2. TypeOK'
  BY <1>1 DEF IInv, TypeOK
<1>3. ~Working(c)' /\ Prior(c)'
  BY <1>1 DEF Working, Prior, Idle
<1>4. QED
  BY <1>1, <1>2, <1>3, QuietStep DEF IInv, TypeOK

LEMMA GotoStep ==
  ASSUME IInv, NEW c \in Caller, NEW s \in {"insert", "redo", "get", "current", "save"},
         call[c].step # "idle",
         s = "save" => Working(c),
         s = "redo" => Req(c).action \in Destroy,
         Goto(c, s), UNCHANGED <<now, row, told>>
  PROVE  IInv'
<1>1. call[c] \in CallType
  BY CallTyped DEF IInv
<1>2. /\ call'[c] = [call[c] EXCEPT !.step = s]
      /\ \A d \in Caller : d # c => call'[d] = call[d]
      /\ call' \in [Caller -> CallType \cup {Idle}]
  BY <1>1 DEF Goto, IInv, TypeOK, CallType
<1>3. call'[c].step = s /\ call'[c].request = call[c].request /\ call'[c].at = call[c].at
  BY <1>1, <1>2 DEF CallType
<1>4. TypeOK' /\ ToldIsKept'
  BY <1>2 DEF IInv, TypeOK, ToldIsKept
<1>5. Prior(c)'
  BY <1>3 DEF Prior, Req
<1>6. Working(c)' => Working(c)
  BY <1>3 DEF Working
<1>7. QED
  BY <1>2, <1>3, <1>4, <1>5, <1>6, QuietStep

LEMMA UnclaimedStep ==
  ASSUME IInv, NEW c \in Caller, call[c].step # "idle", Stored(c).status # "none", Unclaimed(c),
         UNCHANGED <<now, row>>
  PROVE  IInv'
<1>1. call[c] \in CallType /\ Req(c).action \in Action
  BY CallTyped DEF IInv, CallType, Request, Req
<1>2. CASE TakenOver(c, Stored(c))
  <2>1. /\ call' = [call EXCEPT ![c].step = "reclaim", ![c].prior = Stored(c).started]
        /\ UNCHANGED told
    BY <1>2 DEF Unclaimed
  <2>2. Stored(c).started \in Nat
    BY <1>1, RowTyped DEF IInv, Stored, RowType
  <2>3. /\ call'[c] = [call[c] EXCEPT !.step = "reclaim", !.prior = Stored(c).started]
        /\ \A d \in Caller : d # c => call'[d] = call[d]
        /\ call'[c] \in CallType
    BY <1>1, <2>1, <2>2 DEF IInv, TypeOK, CallType
  <2>4. call' \in [Caller -> CallType \cup {Idle}]
    BY <2>1, <2>3 DEF IInv, TypeOK
  <2>5. /\ call'[c].step = "reclaim"
        /\ call'[c].prior = Stored(c).started
        /\ call'[c].request = call[c].request
        /\ call'[c].at = call[c].at
    BY <1>1, <2>3 DEF CallType
  <2>6. Prior(c)' /\ ~Working(c)'
    BY <1>2, <2>5 DEF Prior, Working, TakenOver, Stored, Req
  <2>7. TypeOK' /\ ToldIsKept'
    BY <2>1, <2>4 DEF IInv, TypeOK, ToldIsKept
  <2>8. QED
    BY <2>3, <2>6, <2>7, QuietStep
<1>3. CASE ~TakenOver(c, Stored(c))
  BY <1>3, ReplayKeepsTold, ReturnStep DEF Unclaimed
<1>4. QED
  BY <1>2, <1>3

(* Saving the outcome: by the owner, or by one that was taken over.        *)
LEMMA SaveStep ==
  ASSUME IInv, NEW c \in Caller, Save(c)
  PROVE  IInv'
<1> DEFINE a == Req(c).action
<1>1. call[c] \in CallType /\ a \in Action /\ Req(c) \in Request /\ Working(c)
  BY CallTyped DEF IInv, Save, CallType, Request, Req, Working
<1>2. CASE ~Own(c)
  <2>1. UNCHANGED <<now, row, told>> /\ Return(c)
    BY <1>2 DEF Save, Tell
  <2>2. QED
    BY <2>1, ReturnStep DEF IInv, TypeOK, ToldIsKept
<1>3. CASE Own(c)
  <2>1. /\ row' = [row EXCEPT ![a] = Outcome(c)]
        /\ call' = [call EXCEPT ![c] = Idle]
        /\ now' = now
    BY <1>3 DEF Save, Return
  <2>2. Stored(c) \in RowType /\ Stored(c) = row[a] /\ Stored(c).status = "started"
    BY <1>1, <1>3, RowTyped DEF Own, IInv, Stored
  <2>3. /\ row'[a] = Outcome(c)
        /\ \A b \in Action : b # a => row'[b] = row[b]
    BY <1>1, <2>1 DEF IInv, TypeOK
  <2>4. /\ row'[a].status = IF call[c].result.some THEN "succeeded" ELSE "failed"
        /\ row'[a].started = Stored(c).started
        /\ row'[a].hash = Stored(c).hash
        /\ row'[a].result = call[c].result
        /\ row'[a] \in RowType
    BY <1>1, <2>2, <2>3 DEF Outcome, RowType, CallType
  <2>5. /\ call'[c] = Idle
        /\ \A d \in Caller : d # c => call'[d] = call[d]
    BY <2>1 DEF IInv, TypeOK
  <2>6. /\ told \subseteq told'
        /\ \A t \in told' :
             \/ t \in told
             \/ t = [request |-> Req(c), result |-> call[c].result] /\ call[c].result.some
    BY DEF Save, Tell
  <2>7. TypeOK'
    <3>1. row' \in [Action -> RowType \cup {NoRow}]
      BY <2>1, <2>3, <2>4 DEF IInv, TypeOK
    <3>2. call' \in [Caller -> CallType \cup {Idle}]
      BY <2>1 DEF IInv, TypeOK
    <3>3. told' \subseteq [request : Request, result : ResultType]
      BY <1>1, <2>6 DEF IInv, TypeOK, CallType
    <3>4. QED
      BY <2>1, <3>1, <3>2, <3>3 DEF IInv, TypeOK
  <2>8. Owners'
    <3>1. Owner(c)'
      BY <2>5 DEF Owner, Working, Idle
    <3>2. ASSUME NEW d \in Caller, d # c, Working(d) PROVE Owner(d)'
      <4>1. Owner(d) /\ call'[d] = call[d] /\ Req(d)' = Req(d)
        BY <2>5, <3>2 DEF IInv, Owners, Req
      <4>2. CASE Req(d).action = a
        <5>1. a \notin Destroy
          BY <1>1, <3>2, <4>2 DEF IInv, WorkIsSpaced
        <5>2. Stored(d) = Stored(c) /\ Stored(d)' = row'[a]
          BY <4>1, <4>2 DEF Stored
        <5>3. /\ Stored(c).hash = Req(d).hash
              /\ call[d].at = Stored(c).started \/ Stored(c).started - call[d].at >= Stale
          BY <3>2, <4>1, <5>2 DEF Owner
        <5>4. /\ row'[a].status # "none"
              /\ row'[a].hash = Req(d).hash
              /\ call[d].at = row'[a].started \/ row'[a].started - call[d].at >= Stale
          BY <2>4, <5>3
        <5>5. QED
          BY <4>1, <4>2, <5>1, <5>2, <5>4 DEF Owner
      <4>3. CASE Req(d).action # a
        <5>1. Req(d).action \in Action
          BY <3>2, CallTyped DEF IInv, Working, CallType, Request, Req
        <5>2. Stored(d)' = Stored(d)
          BY <2>3, <4>1, <4>3, <5>1 DEF Stored
        <5>3. QED
          BY <3>2, <4>1, <5>2 DEF Owner
      <4>4. QED
        BY <4>2, <4>3
    <3>3. ASSUME NEW d \in Caller, d # c, ~Working(d) PROVE Owner(d)'
      BY <2>5, <3>3 DEF Owner, Working
    <3>4. QED
      BY <3>1, <3>2, <3>3 DEF Owners
  <2>9. Priors'
    <3>1. Prior(c)'
      BY <2>5 DEF Prior, Idle
    <3>2. ASSUME NEW d \in Caller, d # c PROVE Prior(d)'
      <4>1. Prior(d) /\ call'[d] = call[d] /\ Req(d)' = Req(d)
        BY <2>5, <3>2 DEF IInv, Priors, Req
      <4>2. CASE call[d].step = "reclaim" /\ Req(d).action = a
        <5>1. Stored(d) = Stored(c) /\ Stored(d)' = row'[a]
          BY <4>1, <4>2 DEF Stored
        <5>2. row'[a].status # "none" /\ row'[a].hash = Req(d).hash
          BY <2>4, <4>1, <4>2, <5>1 DEF Prior
        <5>3. QED
          BY <4>1, <4>2, <5>1, <5>2 DEF Prior
      <4>3. CASE call[d].step = "reclaim" /\ Req(d).action # a
        <5>1. Req(d).action \in Action
          BY <4>3, CallTyped DEF IInv, CallType, Request, Req
        <5>2. Stored(d)' = Stored(d)
          BY <2>3, <4>1, <4>3, <5>1 DEF Stored
        <5>3. QED
          BY <4>1, <4>3, <5>2 DEF Prior
      <4>4. CASE call[d].step # "reclaim"
        BY <4>1, <4>4 DEF Prior
      <4>5. QED
        BY <4>2, <4>3, <4>4
    <3>3. QED
      BY <3>1, <3>2 DEF Priors
  <2>10. WorkIsSpaced'
    <3>1. \A d \in Caller : Working(d)' => d # c /\ Working(d) /\ call'[d] = call[d]
      BY <2>5 DEF Working, Idle
    <3>2. QED
      BY <3>1 DEF IInv, WorkIsSpaced, Req
  <2>11. ToldIsKept'
    <3>1. ASSUME NEW t \in told
          PROVE  t.request.action \in Action /\ t.request.action # a
      BY <2>2, <3>1 DEF IInv, TypeOK, ToldIsKept, Request
    <3>2. Stored(c).hash = Req(c).hash
      BY <1>1 DEF IInv, Owners, Owner
    <3>3. ASSUME NEW t \in told'
          PROVE  /\ row'[t.request.action].status = "succeeded"
                 /\ row'[t.request.action].hash = t.request.hash
                 /\ row'[t.request.action].result = t.result
      <4>1. CASE t \in told
        BY <2>3, <3>1, <4>1 DEF IInv, ToldIsKept
      <4>2. CASE t = [request |-> Req(c), result |-> call[c].result] /\ call[c].result.some
        BY <2>4, <3>2, <4>2
      <4>3. QED
        BY <2>6, <4>1, <4>2
    <3>4. QED
      BY <3>3 DEF ToldIsKept
  <2>12. QED
    BY <2>7, <2>8, <2>9, <2>10, <2>11 DEF IInv
<1>4. QED
  BY <1>2, <1>3

LEMMA AskStep ==
  ASSUME IInv, NEW c \in Caller, NEW r \in Request, Ask(c, r)
  PROVE  IInv'
<1>1. /\ call' = [call EXCEPT ![c] = [step |-> "lookup", request |-> r, at |-> now, prior |-> 0,
                                      result |-> NoResult]]
      /\ UNCHANGED <<now, row, told>>
  BY DEF Ask
<1>2. call'[c] = [step |-> "lookup", request |-> r, at |-> now, prior |-> 0, result |-> NoResult]
  BY <1>1 DEF IInv, TypeOK
<1>3. \A d \in Caller : d # c => call'[d] = call[d]
  BY <1>1 DEF IInv, TypeOK
<1>4. call'[c] \in CallType
  BY <1>2 DEF CallType, ResultType, IInv, TypeOK
<1>5. TypeOK' /\ ToldIsKept'
  BY <1>1, <1>4 DEF IInv, TypeOK, ToldIsKept
<1>6. ~Working(c)' /\ Prior(c)'
  BY <1>2 DEF Working, Prior
<1>7. QED
  BY <1>1, <1>3, <1>5, <1>6, QuietStep

LEMMA WorkStep ==
  ASSUME IInv, NEW c \in Caller, Work(c)
  PROVE  IInv'
<1>0. ASSUME call[c].step # "idle" PROVE call[c] \in CallType /\ Req(c).action \in Action
  BY <1>0, CallTyped DEF IInv, CallType, Request, Req
<1>1. CASE Lookup(c)
  <2>1. call[c].step = "lookup" /\ UNCHANGED <<now, row>>
    BY <1>1 DEF Lookup
  <2>2. CASE Stored(c) = NoRow /\ Goto(c, "insert") /\ UNCHANGED told
    BY <2>1, <2>2, GotoStep
  <2>3. CASE Redoable(c, Stored(c)) /\ Goto(c, "redo") /\ UNCHANGED told
    BY <2>1, <2>3, GotoStep DEF Redoable
  <2>4. CASE Return(c) /\ UNCHANGED told
    BY <2>1, <2>4, ReturnStep DEF IInv, TypeOK, ToldIsKept
  <2>5. CASE Stored(c) # NoRow /\ Unclaimed(c)
    <3>1. Stored(c).status # "none"
      BY <1>0, <2>1, <2>5 DEF IInv, TypeOK, RowType, Stored
    <3>2. QED
      BY <2>1, <2>5, <3>1, UnclaimedStep
  <2>6. QED
    BY <1>1, <2>2, <2>3, <2>4, <2>5 DEF Lookup
<1>2. CASE Insert(c)
  <2>1. CASE Free(c) /\ Claimed(c)
    BY <1>2, <2>1, ClaimStep DEF Insert, Free
  <2>2. CASE Goto(c, "get") /\ UNCHANGED row
    BY <1>2, <2>2, GotoStep DEF Insert
  <2>3. QED
    BY <1>2, <2>1, <2>2 DEF Insert
<1>3. CASE Redo(c)
  <2>1. Req(c).action \in Destroy
    BY <1>3 DEF Redo, IInv, Priors, Prior
  <2>2. CASE StillFailed(c) /\ Claimed(c)
    BY <1>3, <2>1, <2>2, ClaimStep DEF Redo, StillFailed
  <2>3. CASE Goto(c, "get") /\ UNCHANGED row
    BY <1>3, <2>3, GotoStep DEF Redo
  <2>4. QED
    BY <1>3, <2>2, <2>3 DEF Redo
<1>5. CASE Reclaim(c)
  <2>1. /\ Stored(c).hash = Req(c).hash
        /\ call[c].at - call[c].prior >= Stale
        /\ Req(c).action \notin Destroy
    BY <1>5 DEF Reclaim, IInv, Priors, Prior
  <2>2. CASE StillPrior(c) /\ Claimed(c)
    BY <1>5, <2>1, <2>2, ClaimStep DEF Reclaim, StillPrior
  <2>3. CASE Goto(c, "current") /\ UNCHANGED row
    BY <1>5, <2>3, GotoStep DEF Reclaim
  <2>4. QED
    BY <1>5, <2>2, <2>3 DEF Reclaim
<1>6. CASE Current(c)
  BY <1>6, ReplayKeepsTold, ReturnStep DEF Current
<1>7. CASE Provider(c)
  <2>1. call[c].step = "provider" /\ UNCHANGED <<now, row, told>> /\ call[c] \in CallType
    BY <1>0, <1>7 DEF Provider
  <2>2. CASE Goto(c, "save")
    BY <2>1, <2>2, GotoStep DEF Working
  <2>3. ASSUME NEW v \in Result,
               call' = [call EXCEPT ![c].step = "save", ![c].result = Some(v)]
        PROVE  IInv'
    <3>1. /\ call'[c] = [call[c] EXCEPT !.step = "save", !.result = Some(v)]
          /\ \A d \in Caller : d # c => call'[d] = call[d]
      BY <2>1, <2>3 DEF IInv, TypeOK
    <3>2. call'[c] \in CallType
      <4>1. Some(v) \in ResultType
        BY <2>3 DEF ResultType
      <4> DEFINE some == Some(v)
      <4> HIDE DEF some
      <4>2. call'[c] = [call[c] EXCEPT !.step = "save", !.result = some]
        BY <3>1 DEF some
      <4>3. some \in ResultType
        BY <4>1 DEF some
      <4>4. QED
        BY <2>1, <4>2, <4>3 DEF CallType
    <3>3. /\ call'[c].step = "save"
          /\ call'[c].request = call[c].request
          /\ call'[c].at = call[c].at
      BY <2>1, <3>1 DEF CallType
    <3>4. TypeOK' /\ ToldIsKept'
      BY <2>1, <2>3, <3>2 DEF IInv, TypeOK, ToldIsKept
    <3>5. Working(c) /\ Prior(c)'
      BY <2>1, <3>3 DEF Working, Prior
    <3>6. QED
      BY <2>1, <3>1, <3>3, <3>4, <3>5, QuietStep
  <2>4. QED
    BY <1>7, <2>2, <2>3 DEF Provider
<1>8. CASE Save(c)
  BY <1>8, SaveStep
<1>9. CASE Get(c)
  <2>1. CASE Stored(c).status # "none"
    BY <1>9, <2>1, UnclaimedStep DEF Get
  <2>2. CASE Stored(c).status = "none"
    <3>1. Return(c) /\ UNCHANGED <<now, row, told>>
      BY <1>9, <2>2 DEF Get, Unclaimed, TakenOver, Replayed
    <3>2. QED
      BY <3>1, ReturnStep DEF IInv, TypeOK, ToldIsKept
  <2>3. QED
    BY <2>1, <2>2
<1>10. QED
  BY <1>1, <1>2, <1>3, <1>5, <1>6, <1>7, <1>8, <1>9 DEF Work

LEMMA NextHolds == IInv /\ [Next]_vars => IInv'
<1> SUFFICES ASSUME IInv, [Next]_vars PROVE IInv'
  OBVIOUS
<1>1. CASE UNCHANGED vars
  BY <1>1 DEF vars, IInv, TypeOK, Owners, Owner, Priors, Prior, WorkIsSpaced, ToldIsKept, Working,
              Stored, Req
<1>2. ASSUME NEW c \in Caller, NEW r \in Request, Ask(c, r) PROVE IInv'
  BY <1>2, AskStep
<1>3. ASSUME NEW c \in Caller, Work(c) PROVE IInv'
  BY <1>3, WorkStep
<1>4. ASSUME NEW c \in Caller, Abort(c) PROVE IInv'
  BY <1>4, ReturnStep DEF Abort, IInv, TypeOK, ToldIsKept
<1>5. CASE Tick
  <2>1. UNCHANGED <<row, call, told>> /\ now' \in 0..MaxTime
    BY <1>5 DEF Tick, IInv, TypeOK
  <2>2. QED
    BY <2>1 DEF IInv, TypeOK, Owners, Owner, Priors, Prior, WorkIsSpaced, ToldIsKept, Working,
                Stored, Req
<1>6. QED
  BY <1>1, <1>2, <1>3, <1>4, <1>5 DEF Next

LEMMA Invariant == Spec => []IInv
BY InitHolds, NextHolds, PTL DEF Spec

(* A row changes when a claim is granted or its owner saves the outcome.   *)
LEMMA RowChanges ==
  ASSUME IInv, [Next]_vars, NEW a \in Action, row'[a] # row[a]
  PROVE  \/ /\ row'[a].status = "started"
            /\ \/ row[a] = NoRow
               \/ row[a].status = "failed" /\ a \in Destroy
               \/ row[a].status = "started"
         \/ /\ row[a].status = "started"
            /\ \E c \in Caller : /\ call[c].step = "save"
                                /\ Req(c).action = a
                                /\ call[c].at = row[a].started
                                /\ row'[a].result = call[c].result
<1>1. PICK c \in Caller : Insert(c) \/ Redo(c) \/ Reclaim(c) \/ Save(c)
  BY DEF Next, vars, Work, Ask, Lookup, Get, Current, Provider, Abort, Tick
<1>2. call[c] \in CallType /\ Req(c).action \in Action
  BY <1>1, CallTyped DEF IInv, Insert, Redo, Reclaim, Save, CallType, Request, Req
<1>3. ASSUME Claimed(c), Free(c) \/ (StillFailed(c) /\ Req(c).action \in Destroy) \/ StillPrior(c)
      PROVE  /\ row'[a].status = "started"
             /\ \/ row[a] = NoRow
                \/ row[a].status = "failed" /\ a \in Destroy
                \/ row[a].status = "started"
  BY <1>2, <1>3 DEF Claimed, Free, StillFailed, StillPrior, Stored, IInv, TypeOK
<1>4. CASE Insert(c)
  BY <1>3, <1>4 DEF Insert
<1>5. CASE Redo(c)
  BY <1>3, <1>5 DEF Redo, IInv, Priors, Prior
<1>6. CASE Reclaim(c)
  BY <1>3, <1>6 DEF Reclaim
<1>7. CASE Save(c)
  <2>1. /\ row' = [row EXCEPT ![Req(c).action] = Outcome(c)]
        /\ Own(c)
        /\ Req(c).action = a
    BY <1>2, <1>7 DEF Save, IInv, TypeOK
  <2>2. Stored(c) \in RowType /\ Stored(c) = row[a]
    BY <1>2, <2>1, RowTyped DEF Own, IInv, Stored
  <2>3. row'[a].result = call[c].result
    BY <1>2, <2>1, <2>2 DEF Outcome, RowType, IInv, TypeOK
  <2>4. QED
    BY <1>7, <2>1, <2>2, <2>3 DEF Save, Own
<1>8. QED
  BY <1>1, <1>4, <1>5, <1>6, <1>7

(* Rows, calls and answers keep their shapes.                              *)
THEOREM ClaimsTyped == Spec => []TypeOK
BY Invariant, PTL DEF IInv

(* However many calls race, die and are taken over, two of them do the     *)
(* work of one key only a takeover time apart, and never destroy together. *)
THEOREM ClaimsAreSpaced == Spec => []WorkIsSpaced
BY Invariant, PTL DEF IInv

(* A success a caller was told of is in the row for good.                  *)
THEOREM SuccessIsKept == Spec => []ToldIsKept
BY Invariant, PTL DEF IInv

(* Work is only done for the request its key stands for.                   *)
THEOREM WorkMatchesItsKey == Spec => []WorkIsAsRecorded
<1>1. IInv => WorkIsAsRecorded
  <2> SUFFICES ASSUME IInv, NEW c \in Caller, Working(c)
      PROVE  Stored(c).hash = Req(c).hash /\ call[c].at <= Stored(c).started
    BY DEF WorkIsAsRecorded
  <2>1. call[c] \in CallType /\ Req(c).action \in Action
    BY CallTyped DEF IInv, Working, CallType, Request, Req
  <2>2. Stored(c) \in RowType
    BY <2>1, RowTyped DEF IInv, Owners, Owner, Stored
  <2>3. call[c].at \in Nat /\ Stored(c).started \in Nat
    BY <2>1, <2>2 DEF CallType, RowType
  <2>4. QED
    BY <2>3 DEF IInv, Owners, Owner
<1>2. QED
  BY <1>1, Invariant, PTL

(* Only the call whose claim stands records an outcome.                    *)
THEOREM OwnerRecords == Spec => RecordedByOwner
<1>1. IInv /\ [Next]_vars =>
        [\A a \in Action :
           row[a].status = "started" /\ row'[a].status \in {"succeeded", "failed"} =>
             \E c \in Caller : /\ call[c].step = "save"
                               /\ Req(c).action = a
                               /\ call[c].at = row[a].started
                               /\ row'[a].result = call[c].result]_vars
  BY RowChanges
<1>2. QED
  BY <1>1, Invariant, PTL DEF Spec, RecordedByOwner

(* A success is final, and so is a creation's failure.                     *)
THEOREM OutcomeIsFinal == Spec => OutcomeStays
<1>1. IInv /\ [Next]_vars =>
        [\A a \in Action :
           row[a].status = "succeeded" \/ (row[a].status = "failed" /\ a \notin Destroy) =>
             row'[a] = row[a]]_vars
  BY RowChanges DEF NoRow
<1>2. QED
  BY <1>1, Invariant, PTL DEF Spec, OutcomeStays
=============================================================================
