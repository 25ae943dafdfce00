--------------------------- MODULE PurchaseContract ---------------------------
(***************************************************************************)
(* What a Workspace purchase promises its customer, with nothing of how the *)
(* control plane keeps it: money is taken once, for one purchase at a time; *)
(* provider resources exist only while their money is held; money goes back *)
(* only when nothing is left of them; and a purchase closes either served   *)
(* or refunded.                                                             *)
(***************************************************************************)
CONSTANT Purchase

VARIABLES
  funds,    \* "none", "held" by the operator, or "returned"
  live,     \* purchases with a compute or storage resource at the provider
  outcome   \* "open", "succeeded" or "refunded"

contractVars == <<funds, live, outcome>>

Init ==
  /\ funds = [l \in Purchase |-> "none"]
  /\ live = {}
  /\ outcome = [l \in Purchase |-> "open"]

\* Open means paid for and not closed.
Open(l) == funds[l] = "held" /\ outcome[l] = "open"

Debit(l) ==
  /\ funds[l] = "none"
  /\ outcome[l] = "open"
  /\ \A other \in Purchase : ~Open(other)
  /\ funds' = [funds EXCEPT ![l] = "held"]
  /\ UNCHANGED <<live, outcome>>

Provision(l) ==
  /\ Open(l)
  /\ live' = live \cup {l}
  /\ UNCHANGED <<funds, outcome>>

\* The provider deletes what was left of a purchase.
Lose(l) ==
  /\ live' = live \ {l}
  /\ UNCHANGED <<funds, outcome>>

Return(l) ==
  /\ Open(l)
  /\ l \notin live
  /\ funds' = [funds EXCEPT ![l] = "returned"]
  /\ UNCHANGED <<live, outcome>>

Close(l) ==
  /\ outcome[l] = "open"
  /\ \/ funds[l] = "held" /\ outcome' = [outcome EXCEPT ![l] = "succeeded"]
     \/ funds[l] = "returned" /\ outcome' = [outcome EXCEPT ![l] = "refunded"]
  /\ UNCHANGED <<funds, live>>

Next ==
  \E l \in Purchase :
    Debit(l) \/ Provision(l) \/ Lose(l) \/ Return(l) \/ Close(l)

Spec == Init /\ [][Next]_contractVars
=============================================================================
