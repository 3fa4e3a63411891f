----------------------------- MODULE MCJobBoard -----------------------------
(* Tenancy: the pilot's three accounts and one more, two Sites, one Job,    *)
(* and at most one account opted out.                                      *)
(* Postings: three Jobs of one Site, two requests, and postings that        *)
(* repeat, nearly repeat and differ.                                        *)
(* JobDecisions: two requests, one pair, two Applications.                  *)
EXTENDS JobBoard, TLC

CONSTANTS t, n, m, x, g, u, j1, r1, s1, s2, a1, a2, c1

MCSessions == {s1, s2}
MCJobs == {j1}
MCConsultants == {c1}
MCApps == {a1, a2}
MCPeople == {t, n, m, x}
MCSites == {g, u}
MCRequests == {r1}
MCPostingSites == {g}
MCRoleSets == {{"admin"}, {"ta"}, {"ta", "consultant"}, {"consultant"}}

Symmetry == Permutations({s1, s2}) \cup Permutations({a1, a2})

Post(title, company, words) ==
  [title |-> title, company |-> company,
   description |-> [words |-> words, wording |-> 1]]

(* The last is a tier-2 match of the first (3/5) and scores higher (4/5)    *)
(* against the second, which is no match of it.                             *)
MCContents ==
  {Post("dev", "A", {1, 2, 3}), Post("ops", "B", {1, 2, 3, 4}),
   Post("dev", "", 1..5)}
=============================================================================
