------------------------ MODULE SubscriptionContract ------------------------
(***************************************************************************)
(* What a Workspace subscription promises its customer, with no worker,    *)
(* lease, provider or crash in sight: a period is paid at most once, only  *)
(* while it is the next one and only if its end was not announced; it is   *)
(* granted for that money or the money comes back, never both; and access  *)
(* is denied only after the granted periods are over.                      *)
(***************************************************************************)
EXTENDS Integers

CONSTANT LastPeriod

VARIABLES
  now,       \* half months since the start
  paid,      \* the period the Workspace is paid through
  running,   \* the customer has access
  money,     \* of each period's renewal: due, taken or returned
  promised   \* periods announced as not charged any more

vars == <<now, paid, running, money, promised>>
Period == 1..LastPeriod

Init ==
  /\ now = 0
  /\ paid = 1
  /\ running = TRUE
  /\ money = [k \in Period |-> "due"]
  /\ promised = {}

Take ==
  /\ paid \in Period
  /\ money[paid] = "due"
  /\ paid \notin promised
  /\ money' = [money EXCEPT ![paid] = "taken"]
  /\ UNCHANGED <<now, paid, running, promised>>

GiveBack ==
  /\ paid \in Period
  /\ money[paid] = "taken"
  /\ money' = [money EXCEPT ![paid] = "returned"]
  /\ UNCHANGED <<now, paid, running, promised>>

\* The period that was paid is granted, and access with it.
Grant ==
  /\ paid \in Period
  /\ money[paid] = "taken"
  /\ paid' = paid + 1
  /\ running' = TRUE
  /\ UNCHANGED <<now, money, promised>>

Deny ==
  /\ now >= 2 * paid
  /\ running' = FALSE
  /\ UNCHANGED <<now, paid, money, promised>>

\* The end is announced: from this period on, or from the one after it.
Announce(k) ==
  /\ k \in {paid, paid + 1}
  /\ k \in Period => money[k] # "taken"
  /\ promised' = promised \cup {k}
  /\ UNCHANGED <<now, paid, running, money>>

Tick == now' = now + 1 /\ UNCHANGED <<paid, running, money, promised>>

Next ==
  \/ Take \/ GiveBack \/ Grant \/ Deny \/ Tick
  \/ \E k \in 1..(LastPeriod + 1) : Announce(k)

Spec == Init /\ [][Next]_vars
=============================================================================
