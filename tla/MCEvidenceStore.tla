--------------------------- MODULE MCEvidenceStore ---------------------------
(***************************************************************************)
(* The calls the clients make: records and reports, one receipt's          *)
(* retention, or policies and the gate, in one behaviour one of the three.  *)
(***************************************************************************)
EXTENDS PostgresEvidenceStore, TLC

\* A review is a receipt whose payload says who decided what.
Review(reviewer, version, decision) ==
  [reviewer |-> reviewer, version |-> version, decision |-> decision]
\* Contents that are no review.
Content(x) == Review("nobody", x, "none")
Record(key, payload) == [op |-> "record", key |-> key, payload |-> payload]
Reconcile(key, id, payload) == [op |-> "reconcile", key |-> key, id |-> id, payload |-> payload]
Retain(key, receipt, until, hold) ==
  [op |-> "retain", key |-> key, receipt |-> receipt, until |-> until, hold |-> hold]
Erase(key, receipt, why) == [op |-> "erase", key |-> key, receipt |-> receipt, why |-> why]
Policy(key, version, reviewers, supersedes) ==
  [op |-> "policy", key |-> key, version |-> version, reviewers |-> reviewers,
   supersedes |-> supersedes]
Ask4Gate(reviews) == [op |-> "gate", reviews |-> reviews]

\* Two payloads under one key, a second key, and a report whose id another took.
RecordRequests ==
  {Record("r1", Content("a")), Record("r1", Content("b")), Record("r2", Content("a")),
   Reconcile("m1", "january", "match"), Reconcile("m1", "january", "mismatch"),
   Reconcile("m2", "january", "match")}

\* One receipt's retention: a near and a far deadline, a hold, two erasures,
\* a key used twice for different things and a receipt that is not there.
RetentionRequests ==
  {Record("r1", Content("a")), Retain("u1", 1, 1, FALSE), Retain("u2", 1, 2, FALSE),
   Retain("u2", 1, 0, TRUE), Erase("e1", 1, "asked"), Erase("e1", 1, "law")}

Required == [reviewer |-> "reviewer", version |-> "v1"]
ReviewRequests ==
  {Record("r1", Review("reviewer", "v1", "accepted")),
   Record("r2", Review("reviewer", "v1", "rejected")),
   Policy("p1", "1", {Required}, NoPolicy),
   Policy("p2", "2", {[Required EXCEPT !.version = "v2"]}, "p1"),
   Policy("p3", "2", {Required}, "p1"), Policy("p3", "3", {Required}, "p2"),
   Ask4Gate({}), Ask4Gate({"r1"}), Ask4Gate({"r1", "r2"})}

AllRequests == RecordRequests \cup RetentionRequests \cup ReviewRequests

\* What is asked, was answered or is stored is of one kind; only retention
\* depends on the clock.
Asked == {Req(c) : c \in {d \in Client : step[d] # "idle"}} \cup {t[1] : t \in told}
Stored ==
  {Record(receipts[i].key, receipts[i].payload) : i \in DOMAIN receipts}
    \cup {Reconcile(reports[i].key, i, reports[i].payload) : i \in DOMAIN reports}
    \cup {answers[k].request : k \in DOMAIN answers}
    \cup {policies[k].request : k \in DOMAIN policies}
OneKind ==
  \/ now = 0 /\ \E kind \in {RecordRequests, ReviewRequests} : Asked \cup Stored \subseteq kind
  \/ Asked \cup Stored \subseteq RetentionRequests

Symmetric == Permutations(Client)
=============================================================================
