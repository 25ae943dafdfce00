--------------------------- MODULE EvidenceRules ---------------------------
(***************************************************************************)
(* What the two Ledger stores have in common: the checks and changes of a  *)
(* receipt's retention, the checks of a review policy and the review gate. *)
(* One execution identity: every policy and review is of the same scope.   *)
(***************************************************************************)
EXTENDS Integers, FiniteSets

Unset == 0        \* a zero RetainUntil
NoPolicy == ""    \* SupersedesPolicyID is empty

Larger(a, b) == IF a < b THEN b ELSE a

NewReceipt(r) ==
  [key |-> r.key, payload |-> r.payload, until |-> Unset, hold |-> FALSE,
   erased |-> FALSE]

\* A deadline may only move away, a legal hold is never lifted.
Shortens(row, r) == r.until # Unset /\ row.until # Unset /\ r.until < row.until

Retained(row, r) ==
  [row EXCEPT !.until = Larger(@, r.until), !.hold = @ \/ r.hold]

\* Actor, owner and continuation are removed; the evidence itself stays.
EraseRefusal(row, now) ==
  IF row.hold THEN "legal_hold"
  ELSE IF row.until > now THEN "retention_active" ELSE "none"

MutationRefusal(row, r, now) ==
  IF r.op = "retain" THEN (IF Shortens(row, r) THEN "shortening" ELSE "none")
  ELSE EraseRefusal(row, now)
Mutated(row, r) == IF r.op = "retain" THEN Retained(row, r) ELSE [row EXCEPT !.erased = TRUE]

RetentionOf(row) == [until |-> row.until, hold |-> row.hold, erased |-> row.erased]

NewPolicy(r) ==
  [version |-> r.version, reviewers |-> r.reviewers, status |-> "active", request |-> r]
PolicyRefusal(policies, r) ==
  IF r.supersedes = NoPolicy
  THEN IF \E k \in DOMAIN policies : policies[k].status = "active" THEN "invalid" ELSE "none"
  ELSE IF r.supersedes \notin DOMAIN policies THEN "not_found"
  ELSE IF \/ policies[r.supersedes].status # "active"
          \/ policies[r.supersedes].version = r.version
       THEN "invalid" ELSE "none"

\* One required reviewer: a rejection in the required version outweighs an
\* acceptance, a review of another version counts only where there is none of
\* the required one.
Standing(required, reviews) ==
  LET own == {v \in reviews : v.reviewer = required.reviewer}
      decisions == {v.decision : v \in {w \in own : w.version = required.version}}
      other == {w \in own : w.version # required.version}
  IN IF "rejected" \in decisions THEN "rejected"
     ELSE IF "accepted" \in decisions THEN "accepted"
     ELSE IF "pending" \in decisions THEN "pending"
     ELSE IF other # {} THEN "version_mismatch" ELSE "missing"

\* evaluateReviewGate.
GateStatus(policy, reviews) ==
  LET standings == {Standing(required, reviews) : required \in policy.reviewers} IN
  IF standings \cap {"rejected", "version_mismatch"} # {} THEN "review_blocked"
  ELSE IF standings \cap {"pending", "missing"} # {} THEN "review_required"
  ELSE "accepted"
=============================================================================
