------------------------- MODULE AdjustmentContract -------------------------
(***************************************************************************)
(* What an operator's wallet adjustments promise, with no lock, readback,  *)
(* retry or recovery in sight: the money of an adjustment moves at most    *)
(* once; it is called succeeded only after it moved and failed only if it  *)
(* never does; and the business refunds of one purchase never exceed it.   *)
(***************************************************************************)
EXTENDS Integers, FiniteSets, FiniteSetsExt

CONSTANTS Adjustment, Kind, Amount, Charge

VARIABLES moved, verdict
vars == <<moved, verdict>>

Refunds(S) == {a \in S : Kind[a] = "business_refund"}
Total(S) == MapThenSumSet(LAMBDA a : Amount[a], S)

Init ==
  /\ moved \in SUBSET Adjustment
  /\ verdict = [a \in Adjustment |-> "open"]

Move(a) ==
  /\ a \notin moved
  /\ verdict[a] = "open"
  /\ Total(Refunds(moved \cup {a})) <= Charge
  /\ moved' = moved \cup {a}
  /\ UNCHANGED verdict

Succeed(a) ==
  /\ a \in moved
  /\ verdict[a] = "open"
  /\ verdict' = [verdict EXCEPT ![a] = "succeeded"]
  /\ UNCHANGED moved

Fail(a) ==
  /\ a \notin moved
  /\ verdict[a] = "open"
  /\ verdict' = [verdict EXCEPT ![a] = "failed"]
  /\ UNCHANGED moved

Next == \E a \in Adjustment : Move(a) \/ Succeed(a) \/ Fail(a)

Spec == Init /\ [][Next]_vars
=============================================================================
