---------------------------- MODULE MCConsultant ----------------------------
(* Accounts: two requests at once on one account - no step reads two        *)
(* accounts - with two session cookies and two passwords.                   *)
(* BaseState: two clients of one process and one of another, two states.    *)
(* MatchingConfig: two requests, two invocations, three runs, and a crash   *)
(* or an overlap.                                                          *)
(* Scoring: four patterns with several roles in each of three               *)
(* configurations, and every posting that has them.                         *)
EXTENDS Consultant, Integers, TLC

CONSTANTS r1, r2, t1, t2, u1, c1, c2, c3, p1, p2, e1, e2, a, b, d, e

MCTasks == {c1, c2, c3}
MCProcesses == {p1, p2}
MCHome == c1 :> p1 @@ c2 :> p1 @@ c3 :> p2
MCStates == {e1, e2}
MCUsers == {u1}
MCRequests == {r1, r2}
MCTokens == {t1, t2}

Symmetry == Permutations({r1, r2}) \cup Permutations({t1, t2})

---------------------------------------------------------------------------
(* The instance of Scoring.                                                *)

MCPatterns == {a, b, d, e}
MCInside == {<<a, b>>}
MCPostings ==
  {p \in [title : SUBSET {a}, words : SUBSET MCPatterns, parts : SUBSET MCPatterns] :
     p.title \subseteq p.words /\ p.words \subseteq p.parts}
MCEvidence ==
  {[category |-> "languages", pattern |-> a], [category |-> "methods", pattern |-> b],
   [category |-> "evidence_text", pattern |-> d],
   [category |-> "languages", pattern |-> Blank]}

Tiered(high, standard, low) == [high |-> high, standard |-> standard, low |-> low]

First ==
  [weights |-> [expertise |-> 30, role |-> 30, growth |-> 20, interest |-> 15, practical |-> 5],
   keep |-> 76, maybe |-> 58,
   catalog |-> [languages |-> Tiered({a}, {b}, {}), standards |-> Tiered({}, {d}, {}),
                domains |-> Tiered({}, {}, {e})],
   archetypes |-> {[title |-> {a}, body |-> {b, d}, bonus |-> 10]},
   primary |-> {a, b}, secondary |-> {d}, penalize |-> {},
   preferred |-> {b}, avoid |-> {},
   rules |-> <<[match |-> d, score |-> 10000], [match |-> b, score |-> 0]>>, default |-> 0,
   hard |-> {e}, soft |-> {}]

(* High weights and a bonus, so that every recommendation is reached.      *)
Second ==
  [weights |-> [expertise |-> 60, role |-> 38, growth |-> 0, interest |-> 2, practical |-> 0],
   keep |-> 60, maybe |-> 20,
   catalog |-> [languages |-> Tiered({}, {a}, {b}), domains |-> Tiered({d}, {}, {})],
   archetypes |-> {[title |-> {}, body |-> {}, bonus |-> 0],
                   [title |-> {a, d}, body |-> {}, bonus |-> 5]},
   primary |-> {}, secondary |-> {a}, penalize |-> {d},
   preferred |-> {}, avoid |-> {d},
   rules |-> <<>>, default |-> 4000,
   hard |-> {b}, soft |-> {e}]

(* A term in two tiers, weights left out and a weight below zero.          *)
Third ==
  [First EXCEPT !.weights = [expertise |-> -20, role |-> 120],
                !.catalog = [languages |-> Tiered({a}, {a, b}, {b, d})],
                !.archetypes = {}, !.hard = {}, !.soft = {d, e}]

MCConfigs == {First, Second, Third}
=============================================================================
