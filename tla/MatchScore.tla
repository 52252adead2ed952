------------------------------ MODULE MatchScore ------------------------------
(***************************************************************************)
(* How well a resume matches a job posting: compute_match_score and the     *)
(* keyword analysis that stands in for the language model.                  *)
(*                                                                         *)
(* A resume is, for each section, the set of words in it that a posting can *)
(* ask for; Filler stands for all others.  That a term occurs in a text is  *)
(* membership, and so is a substring match in a list of skills.  The header,*)
(* which no rewrite changes, is left out.                                   *)
(*                                                                         *)
(* A score is an integer number of hundredths of a point.  The code divides *)
(* and adds doubles and rounds to two decimals: the results agree but for   *)
(* ties, which the last bit of a double decides and Round sends to the even *)
(* neighbour, a hundredth away.                                             *)
(***************************************************************************)
EXTENDS Integers, Sequences, FiniteSets

CONSTANTS
    Terms,      \* what postings ask for
    Filler      \* words no posting asks for

ASSUME WordAssumption == Filler \notin Terms

Words == Terms \cup {Filler}
Sections == {"summary", "experience", "skills", "education"}
Levels == {"junior", "mid", "senior", "lead", "executive", "unknown"}

Resumes == [Sections -> SUBSET Words]
Requirements == [requirement : Terms, category : {"skill", "other"}]
Evidence == [requirement : Terms, status : {"met", "partial", "missing"}, quoted : BOOLEAN]

\* JDAnalysis
JobAnalyses ==
    [ must : Seq(Requirements), nice : Seq(Requirements), keywords : Seq(Terms),
      level : Levels, dealbreakers : Seq(Terms \cup Sections) ]

\* ResumeAnalysis; bullets are those of all roles.  The analysis by keywords
\* keeps 30 skills and 8 bullets, which no resume here exceeds.
ResumeAnalyses ==
    [ evidence : Seq(Evidence), skills : SUBSET Words, bullets : SUBSET Words,
      missing : SUBSET Sections, level : Levels ]

WordsOf(resume) == UNION {resume[s] : s \in Sections}

--------------------------------------------------------------------------------
(* The analysis by keywords, when the model is not configured or its answer *)
(* is rejected.                                                             *)

Least(a, b) == IF a <= b THEN a ELSE b

\* fallback_jd_analysis: the first five keywords are required, the next seven
\* preferred; only a word like "years" is not a skill.
KeywordJob(keywords, years, level) ==
    LET item(k) == [requirement |-> k, category |-> IF k \in years THEN "other" ELSE "skill"]
        n == Least(5, Len(keywords))
        p == Least(12, Len(keywords))
    IN  [ must     |-> [i \in 1 .. n |-> item(keywords[i])],
          nice     |-> [i \in 1 .. p - n |->
                           [requirement |-> keywords[n + i], category |-> "skill"]],
          keywords |-> SubSeq(keywords, 1, Least(15, Len(keywords))),
          level    |-> level,
          dealbreakers |-> <<>> ]

\* fallback_resume_analysis: a requirement is met when the resume has the word.
KeywordAnalysis(resume, job) ==
    [ evidence |-> [i \in DOMAIN job.must |->
                       LET term == job.must[i].requirement
                           met == term \in WordsOf(resume)
                       IN  [ requirement |-> term,
                             status |-> IF met THEN "met" ELSE "missing",
                             quoted |-> met ]],
      skills  |-> resume["skills"],
      bullets |-> resume["experience"],
      missing |-> {s \in Sections : resume[s] = {}},
      level   |-> "unknown" ]

--------------------------------------------------------------------------------
(* The score. *)

\* round(n / d, 2) of a non-negative quotient, in hundredths.
Round(n, d) ==
    LET q == n \div d
        r == n % d
    IN  IF 2 * r > d \/ (2 * r = d /\ q % 2 = 1) THEN q + 1 ELSE q

Full == 10000

Percent(n, d) == Round(Full * n, d)

\* The entries of a list, told apart by their places.
Entries(list) == {<<i, list[i]>> : i \in DOMAIN list}
Found(entries, words) == Cardinality({e \in entries : e[2] \in words})

\* A slip: the gaps are counted.
CoverageSlip(words, keywords) ==
    IF keywords = <<>> THEN 0
    ELSE Percent(Len(keywords) - Found(Entries(keywords), words), Len(keywords))

\* score_coverage
Coverage(words, keywords) ==
    IF keywords = <<>> THEN 0 ELSE Percent(Found(Entries(keywords), words), Len(keywords))

Requirement(list) == [i \in DOMAIN list |-> list[i].requirement]

\* The keywords of the posting, or its requirements if it lists none.
KeywordsOf(job) == IF job.keywords # <<>> THEN job.keywords ELSE Requirement(job.must)

With(evidence, status) == Cardinality({i \in DOMAIN evidence : evidence[i].status = status})

\* _must_have_score
MustHaveScore(a) ==
    IF a.evidence = <<>> THEN 0
    ELSE Percent(2 * With(a.evidence, "met") + With(a.evidence, "partial"),
                 2 * Len(a.evidence))

SkillEntries(list) ==
    {<<i, list[i].requirement>> : i \in {k \in DOMAIN list : list[k].category = "skill"}}

\* The posting's required skills; its first eight keywords if it names no skill.
RequiredSkills(job) ==
    IF SkillEntries(job.must) # {} \/ SkillEntries(job.nice) # {} THEN SkillEntries(job.must)
    ELSE Entries(SubSeq(job.keywords, 1, Least(8, Len(job.keywords))))

\* _skills_score: three quarters for the required, one for the preferred, a
\* quarter in full when none are.
SkillsScore(job, a) ==
    LET req  == RequiredSkills(job)
        pref == SkillEntries(job.nice)
        reqOf   == IF req = {} THEN 1 ELSE Cardinality(req)
        prefOf  == IF pref = {} THEN 1 ELSE Cardinality(pref)
        reqMet  == IF req = {} THEN 1 ELSE Found(req, a.skills)
        prefMet == IF pref = {} THEN 1 ELSE Found(pref, a.skills)
    IN  IF a.skills = {} THEN 0
        ELSE Percent(3 * reqMet * prefOf + prefMet * reqOf, 4 * reqOf * prefOf)

\* _experience_relevance_score
ExperienceScore(job, a, words) ==
    LET supported == {i \in DOMAIN a.evidence :
                         a.evidence[i].status \in {"met", "partial"} /\ a.evidence[i].quoted}
    IN  IF a.evidence # <<>> THEN Percent(Cardinality(supported), Len(a.evidence))
        ELSE IF KeywordsOf(job) = <<>> THEN 5000
        ELSE Coverage(IF a.bullets # {} THEN a.bullets ELSE words, KeywordsOf(job))

\* _SENIORITY_RANK
Rank == [l \in Levels |-> CASE l = "junior" -> 1
                            [] l \in {"mid", "unknown"} -> 2
                            [] l = "senior" -> 3
                            [] l = "lead" -> 4
                            [] l = "executive" -> 5]

\* _seniority_score
SeniorityScore(job, a) ==
    LET apart == IF Rank[job.level] >= Rank[a.level] THEN Rank[job.level] - Rank[a.level]
                 ELSE Rank[a.level] - Rank[job.level]
    IN  Full - 2500 * apart

\* _dealbreaker_flags
Flagged(job, a) ==
    LET missing == {a.evidence[i].requirement :
                       i \in {k \in DOMAIN a.evidence : a.evidence[k].status = "missing"}}
    IN  Found(Entries(job.dealbreakers), missing \cup a.missing)

\* The sum of the five components under _COMPONENT_WEIGHTS.
Weighted(m, s, x, k, l) == Round(35 * m + 20 * s + 20 * x + 15 * k + 10 * l, 100)

Match(overall, flags) == [overall |-> overall, flags |-> flags]
Matches == [overall : 0 .. Full, flags : Nat]

\* A slip: the penalty is not capped by the score.
MatchOfSlip(job, a, words) ==
    LET flags == Flagged(job, a)
        overall == Weighted(MustHaveScore(a), SkillsScore(job, a),
                            ExperienceScore(job, a, words),
                            Coverage(words, KeywordsOf(job)), SeniorityScore(job, a))
    IN  Match(overall - 2500 * flags, flags)

\* compute_match_score: each flagged dealbreaker costs 25 points, down to zero.
MatchOf(job, a, words) ==
    LET flags == Flagged(job, a)
        overall == Weighted(MustHaveScore(a), SkillsScore(job, a),
                            ExperienceScore(job, a, words),
                            Coverage(words, KeywordsOf(job)), SeniorityScore(job, a))
    IN  Match(overall - Least(overall, 2500 * flags), flags)

--------------------------------------------------------------------------------
(* The verdict by rule: _fallback of the fit analyst. *)

Verdicts == {"Strong fit", "Moderate fit", "Not a fit"}

Verdict(match) ==
    IF match.flags > 0 \/ match.overall < 4500 THEN "Not a fit"
    ELSE IF match.overall >= 7200 THEN "Strong fit" ELSE "Moderate fit"

================================================================================
