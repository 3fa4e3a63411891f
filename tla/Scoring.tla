------------------------------ MODULE Scoring ------------------------------
(* The advisory score of a posting for a Consultant: shared/scoring.py, and *)
(* score_job_for_consultant of backend/matching/service.py, which decides   *)
(* whether there is one.                                                   *)
(*                                                                         *)
(* Points are counted in hundredths, weights in per cent, and a quotient is *)
(* rounded down, where the code has floating-point numbers.  A text is the  *)
(* set of the patterns found in it: anywhere (parts), as whole words, or as *)
(* whole words in its first 200 characters (title).                        *)
EXTENDS Integers, Sequences, FiniteSets, FiniteSetsExt

CONSTANTS
  Patterns,   \* folded terms, signals and blockers
  Blank,      \* what folding leaves of a text without ASCII letters: ""
  Inside,     \* pairs of patterns of which the one is part of the other
  Postings,   \* [title, words, parts]
  Evidence,   \* [category, pattern]: what a profile can gain
  Configs     \* matching configurations

VARIABLES
  looking,    \* users.actively_looking
  profile,    \* profile.md: see Profiles
  evidence,   \* what a readable profile holds
  config,     \* the configuration that load_config finds, if any (a set)
  posting     \* the Job's text

vars == <<looking, profile, evidence, config, posting>>

(* validate_config of shared/matching_config.py, without which load_config  *)
(* finds none: the weights that are there add up, whichever they are and    *)
(* whatever their sign.                                                    *)
ValidConfig(c) ==
  LET sum == SumFunction(c.weights) IN
  98 <= sum /\ sum <= 102 /\ c.keep > c.maybe

(* What the scorer reads of a configuration: the keys that must be there,   *)
(* with the patterns they list, and numbers where it takes numbers.  The    *)
(* terms of a category without tiers count as "standard".                  *)
WellFormed(c) ==
  LET tiers == [high : SUBSET Patterns, standard : SUBSET Patterns, low : SUBSET Patterns]
      archetype == [title : SUBSET Patterns, body : SUBSET Patterns, bonus : Int]
  IN  /\ IsFiniteSet(DOMAIN c.weights) /\ c.weights \in [DOMAIN c.weights -> Int]
      /\ c.keep \in Int /\ c.maybe \in Int /\ c.default \in Int
      /\ IsFiniteSet(DOMAIN c.catalog) /\ c.catalog \in [DOMAIN c.catalog -> tiers]
      /\ IsFiniteSet(c.archetypes) /\ c.archetypes \subseteq archetype
      /\ c.rules \in Seq([match : Patterns, score : Int])
      /\ UNION {c.primary, c.secondary, c.penalize, c.preferred, c.avoid, c.hard, c.soft}
           \subseteq Patterns

ScoringAssumption ==
  /\ IsFiniteSet(Patterns) /\ Blank \notin Patterns
  /\ \A c \in Configs : WellFormed(c) /\ ValidConfig(c)
  /\ Postings \subseteq [title : SUBSET Patterns, words : SUBSET Patterns, parts : SUBSET Patterns]
  /\ \A p \in Postings : p.title \subseteq p.words /\ p.words \subseteq p.parts

(* What load_profile finds: no file, no YAML fence or no mapping in it, a   *)
(* fence whose text is not YAML, or a profile.                             *)
Profiles == {"missing", "invalid", "unparseable", "readable"}

Init ==
  /\ looking \in BOOLEAN
  /\ profile \in Profiles
  /\ evidence = {}
  /\ config \in {{c} : c \in Configs} \cup {{}}
  /\ posting \in Postings

(* The Consultant's profile grows.                                         *)
Gain(e) ==
  /\ profile = "readable"
  /\ e \notin evidence
  /\ evidence' = evidence \cup {e}
  /\ UNCHANGED <<looking, profile, config, posting>>

Next == \E e \in Evidence : Gain(e)

Spec == Init /\ [][Next]_vars

---------------------------------------------------------------------------
(* Terms and evidence.                                                     *)

Least(a, b) == IF a <= b THEN a ELSE b
Most(a, b) == IF a >= b THEN a ELSE b
Clamp(x) == Most(0, Least(10000, x))

Tiers == {"high", "standard", "low"}

(* extract_job_terms: the terms of a category that the posting names, once  *)
(* for every tier that lists them.                                         *)
JobTerms(text, c, category) ==
  UNION {{<<tier, term>> : term \in text.words \cap c.catalog[category][tier]} : tier \in Tiers}

TermWeight(term, tiers) ==
  CASE term \in tiers.high -> 145
    [] term \notin tiers.high /\ term \in tiers.low \ tiers.standard -> 35
    [] OTHER -> 100

(* build_evidence_index: what is said of one category or in free text.  The *)
(* profile's processes and standards are filed under "methods", so the      *)
(* category "standards" has nothing of its own.                            *)
Indexed(known, category) ==
  {e.pattern : e \in {x \in known : x.category \in {category, "evidence_text"}}}

(* One is part of the other; a blank is part of everything.                *)
Backs(p, term) == p \in {term, Blank} \/ <<p, term>> \in Inside \/ <<term, p>> \in Inside

Backed(term, known, category) == \E p \in Indexed(known, category) : Backs(p, term)

(* The weight of the given terms of each category.                          *)
Weigh(terms, c) ==
  SumFunction([k \in DOMAIN terms |->
    SumFunction([t \in terms[k] |-> TermWeight(t[2], c.catalog[k])])])

(* match_terms_to_evidence over some of the categories.                    *)
MatchTerms(text, known, c, categories) ==
  LET total == Weigh([k \in categories |-> JobTerms(text, c, k)], c)
      matched == Weigh([k \in categories |->
                          {t \in JobTerms(text, c, k) : Backed(t[2], known, k)}], c)
  IN  IF total = 0 THEN 0 ELSE Least(10000, (10000 * matched) \div total)

---------------------------------------------------------------------------
(* The five dimensions.                                                    *)

ToolCategories == {"languages", "tools", "methods", "standards", "verification"}

ExpertiseFit(text, known, c) ==
  LET listed == DOMAIN c.catalog IN
  (75 * MatchTerms(text, known, c, ToolCategories \cap listed)
   + 25 * MatchTerms(text, known, c, {"domains"} \cap listed)) \div 100

ArchetypeFit(text, a) ==
  LET titleHits == Cardinality(a.title \cap text.title)
      bodyHits == Cardinality(a.body \cap text.words)
      patterns == Cardinality(a.title) + Cardinality(a.body)
      hits == Least(9000, (10000 * (2 * titleHits + bodyHits))
                            \div (patterns + Cardinality(a.title)))
  IN  IF patterns = 0 THEN 0
      ELSE Least(10000, hits + (IF titleHits > 0 THEN 100 * a.bonus ELSE 0))

RoleFit(text, c) ==
  LET best == Max({0} \cup {ArchetypeFit(text, a) : a \in c.archetypes})
      dense == SumFunction([k \in (ToolCategories \ {"methods"}) \cap DOMAIN c.catalog |->
                              Cardinality(JobTerms(text, c, k))])
  IN  Least(10000, best + Least(1500, 250 * dense))

Found(signals, text) == Cardinality(signals \cap text.words)

GrowthFit(text, c) ==
  Clamp(2000 * Found(c.primary, text) + 800 * Found(c.secondary, text)
        - 1500 * Found(c.penalize, text))

InterestFit(text, c) ==
  Clamp(5000 + 700 * Found(c.preferred, text) - 1200 * Found(c.avoid, text))

(* A score of 0 counts as none given, for a rule and for the default.      *)
OrElse(x, default) == IF x = 0 THEN default ELSE x

(* The first location rule that matches anywhere, or the default.          *)
PracticalFit(text, c) ==
  LET default == OrElse(c.default, 6000)
      matching == {i \in DOMAIN c.rules : c.rules[i].match \in text.parts}
  IN  IF matching = {} THEN default
      ELSE OrElse(c.rules[Min(matching)].score, default)

(* compute_blockers matches anywhere, inside words too.                    *)
HardBlockers(text, c) == c.hard \cap text.parts
SoftRisks(text, c) == c.soft \cap text.parts

DefaultWeights ==
  [expertise |-> 30, role |-> 30, growth |-> 20, interest |-> 15, practical |-> 5]

(* A weight that the configuration leaves out has a default.               *)
Weight(c, dimension) ==
  IF dimension \in DOMAIN c.weights THEN c.weights[dimension] ELSE DefaultWeights[dimension]

Overall(text, known, c) ==
  LET raw == (Weight(c, "expertise") * ExpertiseFit(text, known, c)
              + Weight(c, "role") * RoleFit(text, c)
              + Weight(c, "growth") * GrowthFit(text, c)
              + Weight(c, "interest") * InterestFit(text, c)
              + Weight(c, "practical") * PracticalFit(text, c)) \div 100
      deduction == 2450 * Cardinality(HardBlockers(text, c))
                   + 525 * Cardinality(SoftRisks(text, c))
  IN  Clamp(raw - deduction)

(* Mutant of RecommendedStatus: blockers only deduct.                      *)
ByThresholdOnly(text, known, c) ==
  LET score == Overall(text, known, c) IN
  CASE score >= 100 * c.keep -> "keep"
    [] score >= 100 * c.maybe /\ score < 100 * c.keep -> "maybe"
    [] OTHER -> "reject"

RecommendedStatus(text, known, c) ==
  LET score == Overall(text, known, c) IN
  CASE HardBlockers(text, c) # {} -> "reject"
    [] HardBlockers(text, c) = {} /\ score >= 100 * c.keep -> "keep"
    [] HardBlockers(text, c) = {} /\ score >= 100 * c.maybe /\ score < 100 * c.keep -> "maybe"
    [] OTHER -> "reject"

Unscored(reason) == [scored |-> FALSE, reason |-> reason, score |-> -1, status |-> "none"]

(* score_job_for_consultant: an opted-out Consultant is not scored, and his *)
(* profile is not read; nor is one without profile or configuration.  Text  *)
(* that is not YAML is an exception the function lets through: no answer.  *)
ScoreJobForConsultant ==
  CASE ~looking -> Unscored("opted_out")
    [] looking /\ profile = "missing" -> Unscored("no_profile")
    [] looking /\ profile = "invalid" -> Unscored("invalid_profile")
    [] looking /\ profile = "unparseable" -> Unscored("exception")
    [] looking /\ profile = "readable" /\ config = {} -> Unscored("no_config")
    [] OTHER -> LET c == CHOOSE x \in config : TRUE IN
         [scored |-> TRUE, reason |-> "none",
          score |-> Overall(posting, evidence, c),
          status |-> RecommendedStatus(posting, evidence, c)]

---------------------------------------------------------------------------
(* Properties.                                                             *)

Rank(status) == CASE status = "reject" -> 0 [] status = "maybe" -> 1 [] OTHER -> 2

(* A Consultant has a score exactly when he is looking and both inputs can  *)
(* be read, and it lies between 0 and 100 points; and he has an answer      *)
(* unless he is looking and his profile is not YAML.                       *)
ScoredWhenPossible ==
  LET advice == ScoreJobForConsultant IN
  /\ advice.scored <=> looking /\ profile = "readable" /\ config # {}
  /\ advice.scored => 0 <= advice.score /\ advice.score <= 10000
  /\ advice.reason = "exception" <=> looking /\ profile = "unparseable"

(* What the posting excludes is never recommended.                         *)
ExcludedIsRejected ==
  \A c \in config :
    ScoreJobForConsultant.scored /\ c.hard \cap posting.parts # {} =>
      ScoreJobForConsultant.status = "reject"

(* Advice on one text and what is known is no better than on another.       *)
NoBetter(text, known, other, more, c) ==
  /\ Overall(text, known, c) <= Overall(other, more, c)
  /\ Rank(RecommendedStatus(text, known, c)) <= Rank(RecommendedStatus(other, more, c))

(* Another piece of evidence changes score and recommendation in one        *)
(* direction only, that of the weight of expertise: nothing makes a         *)
(* configuration's weights positive.                                       *)
EvidenceHelps ==
  \A c \in config : \A e \in Evidence :
    IF Weight(c, "expertise") >= 0
    THEN NoBetter(posting, evidence, posting, evidence \cup {e}, c)
    ELSE NoBetter(posting, evidence \cup {e}, posting, evidence, c)

(* What counts for a posting, or against it, where it is a word.           *)
Signals(c) ==
  (UNION {c.primary, c.secondary, c.penalize, c.preferred, c.avoid})
  \cup (UNION {a.title \cup a.body : a \in c.archetypes})
  \cup (UNION {UNION {c.catalog[k][tier] : tier \in Tiers} : k \in DOMAIN c.catalog})

(* The posting with p in it: inside a word, as a word, or in its title.    *)
With(p) ==
  LET inside == [posting EXCEPT !.parts = @ \cup {p}]
      word == [inside EXCEPT !.words = @ \cup {p}]
  IN  {inside, word, [word EXCEPT !.title = @ \cup {p}]}

(* A blocker or a risk that the posting contains in addition, wherever it   *)
(* stands, raises neither score nor recommendation, unless it is a signal   *)
(* or a location of the same configuration too; a signal does so no more,   *)
(* as long as it stands inside a word.                                     *)
BlockersHurt ==
  \A c \in config : \A p \in c.hard \cup c.soft : \A text \in With(p) :
    /\ p \notin {c.rules[i].match : i \in DOMAIN c.rules}
    /\ p \in Signals(c) => text.words = posting.words /\ text.title = posting.title
    => NoBetter(text, evidence, posting, evidence, c)

(* The advice is sound, by score_job's order of deductions, caps and        *)
(* thresholds and score_job_for_consultant's order of checks.              *)
AdviceIsSound ==
  /\ ScoredWhenPossible
  /\ ExcludedIsRejected
  /\ looking => EvidenceHelps /\ BlockersHurt
=============================================================================
