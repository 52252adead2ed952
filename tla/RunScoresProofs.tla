---------------------------- MODULE RunScoresProofs ----------------------------
(***************************************************************************)
(* What holds of the scores of every run: for any analysis a model may      *)
(* answer, any text, and any number of edits.                               *)
(*                                                                         *)
(* The score: each of its five components is the rounded percentage of a    *)
(* part of something countable, so it lies in 0 .. Full, and so does their  *)
(* weighted mean, with or without the penalty.                              *)
(*                                                                         *)
(* The copies: whichever step writes one of them writes those the pages     *)
(* compare it with, except the endpoints that say so in edits.              *)
(***************************************************************************)
EXTENDS RunScores, TLAPS, FiniteSetTheorems

--------------------------------------------------------------------------------
(* Rounding. *)

LEMMA Quotient ==
    ASSUME NEW n \in Nat, NEW d \in Nat \ {0}
    PROVE  /\ n \div d \in Nat
           /\ n % d \in 0 .. d - 1
           /\ n = d * (n \div d) + (n % d)
  OBVIOUS

LEMMA FullIsNat == Full \in Nat /\ Full > 0
  BY DEF Full

\* Rounding a quotient of at most Full stays there: at Full nothing is left to
\* round up.
LEMMA RoundInRange ==
    ASSUME NEW n \in Nat, NEW d \in Nat \ {0}, n <= Full * d
    PROVE  Round(n, d) \in 0 .. Full
<1> DEFINE q == n \div d
           r == n % d
<1>1. q \in Nat /\ r \in 0 .. d - 1 /\ n = d * q + r
  BY Quotient
<1>2. Round(n, d) = IF 2 * r > d \/ (2 * r = d /\ q % 2 = 1) THEN q + 1 ELSE q
  BY DEF Round
<1> HIDE DEF q, r
<1>3. d * q <= d * Full
  <2>1. d * q \in Nat  BY <1>1
  <2> QED  BY <1>1, <2>1 DEF Full
<1>4. q <= Full
  <2>1. SUFFICES ASSUME q >= Full + 1 PROVE FALSE
    BY <1>1 DEF Full
  <2>2. d * q >= d * (Full + 1)  BY <1>1, <2>1 DEF Full
  <2>3. d * (Full + 1) = d * Full + d  BY DEF Full
  <2>4. d * q \in Nat /\ d * Full \in Nat  BY <1>1 DEF Full
  <2> QED  BY <1>3, <2>2, <2>3, <2>4
<1>5. q = Full => r = 0
  BY <1>1 DEF Full
<1>6. CASE q = Full
  BY <1>2, <1>5, <1>6 DEF Full
<1>7. CASE q # Full
  <2>1. q \in 0 .. Full - 1  BY <1>1, <1>4, <1>7, FullIsNat
  <2>2. q \in 0 .. Full /\ q + 1 \in 0 .. Full  BY <2>1, FullIsNat
  <2> QED  BY <1>2, <2>2
<1> QED  BY <1>6, <1>7

\* A percentage of a part lies between zero and the whole.
LEMMA PercentInRange ==
    ASSUME NEW n \in Nat, NEW d \in Nat \ {0}, n <= d
    PROVE  Percent(n, d) \in 0 .. Full
<1>1. Full * n \in Nat /\ Full * n <= Full * d
  BY DEF Full
<1> QED  BY <1>1, RoundInRange DEF Percent

\* A weighted mean of five scores is a score.
LEMMA WeightedInRange ==
    ASSUME NEW m \in 0 .. Full, NEW s \in 0 .. Full, NEW x \in 0 .. Full,
           NEW k \in 0 .. Full, NEW l \in 0 .. Full
    PROVE  Weighted(m, s, x, k, l) \in 0 .. Full
<1> DEFINE n == 35 * m + 20 * s + 20 * x + 15 * k + 10 * l
<1>1. n \in Nat /\ n <= Full * 100
  <2>1. /\ m \in Nat /\ s \in Nat /\ x \in Nat /\ k \in Nat /\ l \in Nat
        /\ m <= Full /\ s <= Full /\ x <= Full /\ k <= Full /\ l <= Full
        /\ Full \in Nat
    BY FullIsNat
  <2> QED  BY <2>1
<1>2. Weighted(m, s, x, k, l) = Round(n, 100)
  BY DEF Weighted
<1> HIDE DEF n
<1> QED  BY <1>1, <1>2, RoundInRange

--------------------------------------------------------------------------------
(* Counting. *)

LEMMA ListFinite ==
    ASSUME NEW S, NEW list \in Seq(S)
    PROVE  /\ IsFiniteSet(DOMAIN list) /\ Cardinality(DOMAIN list) = Len(list)
           /\ Len(list) \in Nat
<1>1. DOMAIN list = 1 .. Len(list) /\ Len(list) \in Nat
  OBVIOUS
<1> QED  BY <1>1, FS_Interval

LEMMA PartOfList ==
    ASSUME NEW S, NEW list \in Seq(S), NEW part \in SUBSET DOMAIN list
    PROVE  IsFiniteSet(part) /\ Cardinality(part) \in 0 .. Len(list)
  BY ListFinite, FS_Subset, FS_CardinalityType

\* A list has as many entries as places.
LEMMA EntriesCount ==
    ASSUME NEW S, NEW list \in Seq(S)
    PROVE  IsFiniteSet(Entries(list)) /\ Cardinality(Entries(list)) = Len(list)
<1> DEFINE f == [i \in DOMAIN list |-> <<i, list[i]>>]
<1>1. f \in [DOMAIN list -> Entries(list)]
  BY DEF Entries
<1>2. f \in Injection(DOMAIN list, Entries(list))
  BY <1>1 DEF Injection, IsInjective
<1>3. f \in Surjection(DOMAIN list, Entries(list))
  BY <1>1 DEF Entries, Surjection
<1>4. ExistsBijection(DOMAIN list, Entries(list))
  BY <1>2, <1>3 DEF ExistsBijection, Bijection
<1> QED  BY <1>4, ListFinite, FS_Bijection

LEMMA FoundBound ==
    ASSUME NEW entries, IsFiniteSet(entries), NEW words
    PROVE  Found(entries, words) \in 0 .. Cardinality(entries)
<1>1. {e \in entries : e[2] \in words} \in SUBSET entries
  OBVIOUS
<1> QED  BY <1>1, FS_Subset, FS_CardinalityType DEF Found

LEMMA SkillEntriesFinite ==
    ASSUME NEW list \in Seq(Requirements)
    PROVE  IsFiniteSet(SkillEntries(list))
<1> DEFINE places == {k \in DOMAIN list : list[k].category = "skill"}
           f == [i \in places |-> <<i, list[i].requirement>>]
<1>1. f \in [places -> SkillEntries(list)]
  BY DEF SkillEntries
<1>2. f \in Injection(places, SkillEntries(list))
  BY <1>1 DEF Injection, IsInjective
<1>3. f \in Surjection(places, SkillEntries(list))
  BY <1>1 DEF SkillEntries, Surjection
<1>4. ExistsBijection(places, SkillEntries(list))
  BY <1>2, <1>3 DEF ExistsBijection, Bijection
<1>5. IsFiniteSet(places)
  BY PartOfList
<1> QED  BY <1>4, <1>5, FS_Bijection

--------------------------------------------------------------------------------
(* The components. *)

LEMMA CoverageInRange ==
    ASSUME NEW words, NEW keywords \in Seq(Terms)
    PROVE  Coverage(words, keywords) \in 0 .. Full
<1>1. CASE keywords = <<>>
  BY <1>1 DEF Coverage, Full
<1>2. CASE keywords # <<>>
  <2>1. Found(Entries(keywords), words) \in 0 .. Len(keywords)
    BY EntriesCount, FoundBound
  <2>2. Len(keywords) \in Nat \ {0}
    BY <1>2
  <2> QED  BY <1>2, <2>1, <2>2, PercentInRange DEF Coverage
<1> QED  BY <1>1, <1>2

LEMMA KeywordsTyped ==
    ASSUME NEW j \in JobAnalyses
    PROVE  KeywordsOf(j) \in Seq(Terms)
<1>1. j.keywords \in Seq(Terms) /\ j.must \in Seq(Requirements)
  BY DEF JobAnalyses
<1>2. Requirement(j.must) \in Seq(Terms)
  <2> DEFINE list == j.must
  <2>1. /\ Len(list) \in Nat /\ DOMAIN list = 1 .. Len(list)
        /\ \A i \in 1 .. Len(list) : list[i] \in Requirements
    BY <1>1
  <2>2. \A i \in 1 .. Len(list) : list[i].requirement \in Terms
    BY <2>1 DEF Requirements
  <2>3. Requirement(list) \in [1 .. Len(list) -> Terms]
    BY <2>1, <2>2 DEF Requirement
  <2>4. \A n \in Nat : [1 .. n -> Terms] \subseteq Seq(Terms)
    OBVIOUS
  <2> QED  BY <2>1, <2>3, <2>4
<1> QED  BY <1>1, <1>2 DEF KeywordsOf

LEMMA MustHaveInRange ==
    ASSUME NEW a \in ResumeAnalyses
    PROVE  MustHaveScore(a) \in 0 .. Full
<1> DEFINE e == a.evidence
           met == {i \in DOMAIN e : e[i].status = "met"}
           partial == {i \in DOMAIN e : e[i].status = "partial"}
<1>1. e \in Seq(Evidence)
  BY DEF ResumeAnalyses
<1>2. CASE e = <<>>
  BY <1>2 DEF MustHaveScore, Full
<1>3. CASE e # <<>>
  <2>1. /\ IsFiniteSet(met) /\ Cardinality(met) \in Nat
        /\ IsFiniteSet(partial) /\ Cardinality(partial) \in Nat
    BY <1>1, PartOfList
  <2>2. Cardinality(met \cup partial) \in 0 .. Len(e)
    BY <1>1, PartOfList
  <2>3. met \cap partial = {}
    OBVIOUS
  <2>4. Cardinality(met \cup partial) = Cardinality(met) + Cardinality(partial)
    <3>1. Cardinality(met \cap partial) = 0
      BY <2>3, FS_EmptySet
    <3>2. Cardinality(met \cup partial)
            = Cardinality(met) + Cardinality(partial) - Cardinality(met \cap partial)
      BY <2>1, FS_Union
    <3> QED  BY <2>1, <3>1, <3>2
  <2>5. With(e, "met") = Cardinality(met) /\ With(e, "partial") = Cardinality(partial)
    BY DEF With
  <2>6. Len(e) \in Nat \ {0}
    BY <1>1, <1>3
  <2>7. MustHaveScore(a)
          = Percent(2 * Cardinality(met) + Cardinality(partial), 2 * Len(e))
    BY <1>3, <2>5 DEF MustHaveScore
  <2> HIDE DEF e, met, partial
  <2>8. /\ 2 * Cardinality(met) + Cardinality(partial) \in Nat
        /\ 2 * Len(e) \in Nat \ {0}
        /\ 2 * Cardinality(met) + Cardinality(partial) <= 2 * Len(e)
    BY <2>1, <2>2, <2>4, <2>6
  <2> QED  BY <2>7, <2>8, PercentInRange
<1> QED  BY <1>2, <1>3

LEMMA SkillsInRange ==
    ASSUME NEW j \in JobAnalyses, NEW a \in ResumeAnalyses
    PROVE  SkillsScore(j, a) \in 0 .. Full
<1> DEFINE req  == RequiredSkills(j)
           pref == SkillEntries(j.nice)
           reqOf   == IF req = {} THEN 1 ELSE Cardinality(req)
           prefOf  == IF pref = {} THEN 1 ELSE Cardinality(pref)
           reqMet  == IF req = {} THEN 1 ELSE Found(req, a.skills)
           prefMet == IF pref = {} THEN 1 ELSE Found(pref, a.skills)
<1>1. /\ j.must \in Seq(Requirements) /\ j.nice \in Seq(Requirements)
      /\ j.keywords \in Seq(Terms)
  BY DEF JobAnalyses
<1>2. SubSeq(j.keywords, 1, Least(8, Len(j.keywords))) \in Seq(Terms)
  BY <1>1 DEF Least
<1>3. IsFiniteSet(req) /\ IsFiniteSet(pref)
  BY <1>1, <1>2, SkillEntriesFinite, EntriesCount DEF RequiredSkills
<1>4. \A s : IsFiniteSet(s) /\ s # {} => Cardinality(s) \in Nat \ {0}
  BY FS_CardinalityType, FS_EmptySet
<1>5. reqOf \in Nat \ {0} /\ reqMet \in 0 .. reqOf
  <2>1. CASE req = {}  BY <2>1
  <2>2. CASE req # {}  BY <1>3, <1>4, <2>2, FoundBound
  <2> QED  BY <2>1, <2>2
<1>6. prefOf \in Nat \ {0} /\ prefMet \in 0 .. prefOf
  <2>1. CASE pref = {}  BY <2>1
  <2>2. CASE pref # {}  BY <1>3, <1>4, <2>2, FoundBound
  <2> QED  BY <2>1, <2>2
<1>7. SkillsScore(j, a)
        = IF a.skills = {} THEN 0
          ELSE Percent(3 * reqMet * prefOf + prefMet * reqOf, 4 * reqOf * prefOf)
  BY DEF SkillsScore
<1> HIDE DEF req, pref, reqOf, prefOf, reqMet, prefMet
<1>8. /\ reqOf * prefOf \in Nat \ {0}
      /\ reqMet * prefOf \in 0 .. reqOf * prefOf
      /\ prefMet * reqOf \in 0 .. reqOf * prefOf
  BY <1>5, <1>6
<1>9. /\ 3 * reqMet * prefOf = 3 * (reqMet * prefOf)
      /\ 4 * reqOf * prefOf = 4 * (reqOf * prefOf)
  BY <1>5, <1>6
<1>10. Percent(3 * (reqMet * prefOf) + prefMet * reqOf, 4 * (reqOf * prefOf)) \in 0 .. Full
  <2> DEFINE x == reqMet * prefOf
             y == prefMet * reqOf
             z == reqOf * prefOf
  <2>1. z \in Nat \ {0} /\ x \in 0 .. z /\ y \in 0 .. z
    BY <1>8
  <2> HIDE DEF x, y, z
  <2>2. 3 * x + y \in Nat /\ 4 * z \in Nat \ {0} /\ 3 * x + y <= 4 * z
    BY <2>1
  <2>3. Percent(3 * x + y, 4 * z) \in 0 .. Full
    BY <2>2, PercentInRange
  <2> QED  BY <2>3 DEF x, y, z
<1>11. 0 \in 0 .. Full
  BY DEF Full
<1> HIDE DEF Full
<1>12. Percent(3 * reqMet * prefOf + prefMet * reqOf, 4 * reqOf * prefOf) \in 0 .. Full
  BY <1>9, <1>10, Zenon
<1> QED  BY <1>7, <1>11, <1>12, Zenon

LEMMA ExperienceInRange ==
    ASSUME NEW j \in JobAnalyses, NEW a \in ResumeAnalyses, NEW words
    PROVE  ExperienceScore(j, a, words) \in 0 .. Full
<1> DEFINE e == a.evidence
           supported == {i \in DOMAIN e : e[i].status \in {"met", "partial"} /\ e[i].quoted}
<1>1. e \in Seq(Evidence)
  BY DEF ResumeAnalyses
<1>2. CASE e # <<>>
  <2>1. Cardinality(supported) \in 0 .. Len(e) /\ Len(e) \in Nat \ {0}
    BY <1>1, <1>2, PartOfList
  <2> QED  BY <1>2, <2>1, PercentInRange DEF ExperienceScore
<1>3. CASE e = <<>>
  <2>1. \A text : Coverage(text, KeywordsOf(j)) \in 0 .. Full
    BY KeywordsTyped, CoverageInRange
  <2>2. 5000 \in 0 .. Full
    BY DEF Full
  <2> QED  BY <1>3, <2>1, <2>2 DEF ExperienceScore
<1> QED  BY <1>2, <1>3

LEMMA SeniorityInRange ==
    ASSUME NEW j \in JobAnalyses, NEW a \in ResumeAnalyses
    PROVE  SeniorityScore(j, a) \in 0 .. Full
<1>1. j.level \in Levels /\ a.level \in Levels
  BY DEF JobAnalyses, ResumeAnalyses
<1>2. \A l \in Levels : Rank[l] \in 1 .. 5
  BY DEF Rank, Levels
<1> DEFINE x == Rank[j.level]
           y == Rank[a.level]
           apart == IF x >= y THEN x - y ELSE y - x
<1>3. x \in 1 .. 5 /\ y \in 1 .. 5
  BY <1>1, <1>2
<1>4. SeniorityScore(j, a) = Full - 2500 * apart
  BY DEF SeniorityScore
<1> HIDE DEF x, y
<1>5. apart \in 0 .. 4
  BY <1>3
<1> HIDE DEF apart
<1>6. Full - 2500 * apart \in 0 .. Full
  BY <1>5 DEF Full
<1> QED  BY <1>4, <1>6

LEMMA FlaggedIsNat ==
    ASSUME NEW j \in JobAnalyses, NEW a
    PROVE  Flagged(j, a) \in Nat
<1>1. j.dealbreakers \in Seq(Terms \cup Sections)
  BY DEF JobAnalyses
<1>2. \A words : Found(Entries(j.dealbreakers), words) \in Nat
  BY <1>1, EntriesCount, FS_CardinalityType, FoundBound
<1> QED  BY <1>2 DEF Flagged

\* Whatever analyses the model answers and whatever the text, the score of a
\* resume lies between 0 and 100, as MatchScoreResult requires
\* (match_score.py:107-169, match.py:8-14).
THEOREM ScoreInRange ==
    ASSUME NEW j \in JobAnalyses, NEW a \in ResumeAnalyses, NEW words
    PROVE  MatchOf(j, a, words) \in Matches
<1> DEFINE flags == Flagged(j, a)
           overall == Weighted(MustHaveScore(a), SkillsScore(j, a),
                               ExperienceScore(j, a, words),
                               Coverage(words, KeywordsOf(j)), SeniorityScore(j, a))
<1>1. Coverage(words, KeywordsOf(j)) \in 0 .. Full
  BY KeywordsTyped, CoverageInRange
<1>2. overall \in 0 .. Full
  BY <1>1, MustHaveInRange, SkillsInRange, ExperienceInRange, SeniorityInRange,
     WeightedInRange
<1>3. flags \in Nat
  BY FlaggedIsNat
<1>4. MatchOf(j, a, words) = Match(overall - Least(overall, 2500 * flags), flags)
  BY DEF MatchOf
<1> HIDE DEF overall, flags
<1>5. overall - Least(overall, 2500 * flags) \in 0 .. Full
  BY <1>2, <1>3, FullIsNat DEF Least
<1> QED  BY <1>3, <1>4, <1>5 DEF Match, Matches

--------------------------------------------------------------------------------
(* The analysis by keywords. *)

LEMMA KeywordAnalysisTyped ==
    ASSUME NEW r \in Resumes, NEW j \in JobAnalyses
    PROVE  /\ KeywordAnalysis(r, j) \in ResumeAnalyses
           /\ Len(KeywordAnalysis(r, j).evidence) = Len(j.must)
<1> DEFINE a == KeywordAnalysis(r, j)
<1>1. j.must \in Seq(Requirements)
  BY DEF JobAnalyses
<1>2. /\ Len(j.must) \in Nat /\ DOMAIN j.must = 1 .. Len(j.must)
      /\ \A i \in 1 .. Len(j.must) : j.must[i].requirement \in Terms
  <2> DEFINE list == j.must
  <2>1. /\ Len(list) \in Nat /\ DOMAIN list = 1 .. Len(list)
        /\ \A i \in 1 .. Len(list) : list[i] \in Requirements
    BY <1>1
  <2>2. \A i \in 1 .. Len(list) : list[i].requirement \in Terms
    BY <2>1 DEF Requirements
  <2> QED  BY <2>1, <2>2
<1>3. a.evidence \in [1 .. Len(j.must) -> Evidence]
  BY <1>2 DEF KeywordAnalysis, Evidence
<1>4. \A n \in Nat : \A s \in [1 .. n -> Evidence] : s \in Seq(Evidence) /\ Len(s) = n
  OBVIOUS
<1>5. a.evidence \in Seq(Evidence) /\ Len(a.evidence) = Len(j.must)
  BY <1>2, <1>3, <1>4
<1>6. /\ a.skills \in SUBSET Words /\ a.bullets \in SUBSET Words
      /\ a.missing \in SUBSET Sections /\ a.level \in Levels
  BY DEF KeywordAnalysis, Resumes, Sections, Levels
<1>7. a = [ evidence |-> a.evidence, skills |-> a.skills, bullets |-> a.bullets,
            missing |-> a.missing, level |-> a.level ]
  BY DEF KeywordAnalysis
<1> HIDE DEF a
<1>8. a \in ResumeAnalyses
  BY <1>5, <1>6, <1>7 DEF ResumeAnalyses
<1> QED  BY <1>5, <1>8 DEF a

\* What fallback_jd_analysis answers: it has requirements whenever it has
\* keywords (jd_analyst.py:24-61).
LEMMA KeywordJobTyped ==
    ASSUME NEW keywords \in Seq(Terms), NEW years, NEW level \in Levels
    PROVE  /\ KeywordJob(keywords, years, level) \in JobAnalyses
           /\ KeywordJob(keywords, years, level).must = <<>>
                => KeywordJob(keywords, years, level).keywords = <<>>
<1> DEFINE j == KeywordJob(keywords, years, level)
           n == Least(5, Len(keywords))
           p == Least(12, Len(keywords))
<1>1. /\ n \in 0 .. Len(keywords) /\ p \in n .. Len(keywords)
      /\ n = 0 => Len(keywords) = 0
  BY DEF Least
<1>2. \A i \in 1 .. Len(keywords) : keywords[i] \in Terms
  OBVIOUS
<1>3. \A m \in Nat : \A s \in [1 .. m -> Requirements] : s \in Seq(Requirements) /\ Len(s) = m
  OBVIOUS
<1> HIDE DEF n, p
<1>4. j.must \in [1 .. n -> Requirements]
  BY <1>1, <1>2 DEF KeywordJob, Requirements, n
<1>5. j.nice \in [1 .. p - n -> Requirements]
  BY <1>1, <1>2 DEF KeywordJob, Requirements, n, p
<1>6. /\ j.must \in Seq(Requirements) /\ Len(j.must) = n
      /\ j.nice \in Seq(Requirements)
  BY <1>1, <1>3, <1>4, <1>5
<1>7. /\ j.keywords \in Seq(Terms)
      /\ Len(keywords) = 0 => j.keywords = <<>>
  BY DEF KeywordJob, Least
<1>8. j.dealbreakers = <<>> /\ j.level = level
  BY DEF KeywordJob
<1>9. j = [ must |-> j.must, nice |-> j.nice, keywords |-> j.keywords,
            level |-> j.level, dealbreakers |-> j.dealbreakers ]
  BY DEF KeywordJob
<1> HIDE DEF j
<1>10. j \in JobAnalyses
  <2>1. j.dealbreakers \in Seq(Terms \cup Sections)
    BY <1>8
  <2> QED  BY <1>6, <1>7, <1>8, <1>9, <2>1 DEF JobAnalyses
<1>11. j.must = <<>> => j.keywords = <<>>
  BY <1>1, <1>6, <1>7
<1> QED  BY <1>10, <1>11 DEF j

--------------------------------------------------------------------------------
(* The copies. *)

Early == {"analyze", "rewrite", "format", "rescore", "assess"}

\* Which scores and verdict there are at each step, and what they are of.
Copies ==
    /\ stage # "analyze" => previous \in Matches
    /\ stage \in {"rescore", "assess", "store"} => scores[selected] = current
    /\ stage \in {"rescore", "assess", "store", "done"} => current \in Matches
    /\ stage # "done" => edits = {}
    /\ stage \in Early => verdict = NoVerdict /\ "verdict" \notin byRule

\* Until the score after tailoring is computed, the one before it is that of
\* the master resume, by keywords if the model failed.
Judged ==
    stage \in {"rewrite", "format", "rescore"} =>
        /\ "tailored" \notin byRule
        /\ "original" \in byRule =>
              /\ job \in KeywordJobs
              /\ analysis = KeywordAnalysis(resume, job)
              /\ previous = Scored(analysis, resume)

Inv ==
    /\ TypeOK
    /\ analysis \in ResumeAnalyses
    /\ Copies
    /\ BeforeScoreStays
    /\ AfterScoresAgree
    /\ VerdictIsOfTheShownScore
    /\ stage = "analyze" => byRule = {}
    /\ Judged

LEMMA Typed ==
    ASSUME job \in Jobs \cup KeywordJobs
    PROVE  /\ job \in JobAnalyses
           /\ \A text : \A a \in ResumeAnalyses : Scored(a, text) \in Matches
           /\ \A text \in Texts : KeywordAnalysis(text, job) \in ResumeAnalyses
           /\ Analyses \subseteq ResumeAnalyses
           /\ NoMatch \notin Matches /\ NoVerdict \notin Verdicts
           /\ \A m \in Matches : m.overall \in 0 .. Full
  BY ScoreAssumption, ScoreInRange, KeywordAnalysisTyped DEF Scored, Matches

LEMMA InitInv == Init => Inv
<1> SUFFICES ASSUME Init PROVE Inv
  OBVIOUS
<1> USE DEF Init
<1>1. TypeOK
  BY ScoreAssumption DEF TypeOK, Stages, Full
<1>2. analysis \in ResumeAnalyses
  BY Typed
<1> QED
  BY <1>1, <1>2
  DEF Inv, Copies, BeforeScoreStays, AfterScoresAgree, VerdictIsOfTheShownScore, Judged, Early

LEMMA AnalyzeInputsInv ==
    ASSUME Inv, NEW a \in Analyses \cup {KeywordAnalysis(resume, job)}, AnalyzeInputs(a)
    PROVE  Inv'
<1> USE DEF AnalyzeInputs, inputs, columns
<1>0. TypeOK /\ Copies
  BY DEF Inv
<1>1. a \in ResumeAnalyses /\ a = analysis' /\ previous' = Scored(a, resume)
  BY <1>0, Typed DEF TypeOK
<1>2. previous' \in Matches
  BY <1>0, <1>1, Typed DEF TypeOK
<1>3. TypeOK'
  BY <1>0, <1>2 DEF TypeOK, Stages
<1>4. Copies'
  BY <1>0, <1>2 DEF Copies, Early
<1>5. Judged'
  BY DEF Judged, Scored, Inv
<1> QED
  BY <1>1, <1>3, <1>4, <1>5
  DEF Inv, BeforeScoreStays, AfterScoresAgree, VerdictIsOfTheShownScore

LEMMA RewriteInv ==
    ASSUME Inv, NEW text \in Texts, Rewrite(text)
    PROVE  Inv'
<1> USE DEF Rewrite, inputs, columns
<1>1. TypeOK'
  BY DEF Inv, TypeOK, Stages
<1>2. Copies'
  BY DEF Inv, Copies, Early
<1>3. Judged'
  BY DEF Inv, Judged, Scored
<1> QED
  BY <1>1, <1>2, <1>3 DEF Inv, BeforeScoreStays, AfterScoresAgree, VerdictIsOfTheShownScore

LEMMA FormatOutputInv ==
    ASSUME Inv, FormatOutput
    PROVE  Inv'
<1> USE DEF FormatOutput, inputs, columns
<1>0. current' \in Matches
  BY Typed DEF Inv, TypeOK
<1>1. TypeOK'
  BY <1>0 DEF Inv, TypeOK, Stages
<1>2. Copies'
  BY <1>0 DEF Inv, TypeOK, Copies, Early
<1>3. Judged'
  BY DEF Inv, Judged, Scored
<1> QED
  BY <1>1, <1>2, <1>3 DEF Inv, BeforeScoreStays, AfterScoresAgree, VerdictIsOfTheShownScore

LEMMA RescoreInv ==
    ASSUME Inv, NEW a \in Analyses \cup {KeywordAnalysis(tailored, job)}, Rescore(a)
    PROVE  Inv'
<1> USE DEF Rescore, inputs, columns
<1>0. current' \in Matches
  <2>1. a \in ResumeAnalyses  BY Typed DEF Inv, TypeOK
  <2> QED  BY <2>1, Typed DEF Inv, TypeOK
<1>1. TypeOK'
  BY <1>0 DEF Inv, TypeOK, Stages
<1>2. Copies'
  BY <1>0 DEF Inv, TypeOK, Copies, Early
<1> QED
  BY <1>1, <1>2
  DEF Inv, BeforeScoreStays, AfterScoresAgree, VerdictIsOfTheShownScore, Judged

LEMMA RescoreSkippedInv ==
    ASSUME Inv, RescoreSkipped
    PROVE  Inv'
<1> USE DEF RescoreSkipped, inputs, columns
<1>1. TypeOK'
  BY DEF Inv, TypeOK, Stages
<1>2. Copies'
  BY DEF Inv, Copies, Early
<1> QED
  BY <1>1, <1>2
  DEF Inv, BeforeScoreStays, AfterScoresAgree, VerdictIsOfTheShownScore, Judged

LEMMA AssessFitInv ==
    ASSUME Inv, NEW v \in Verdicts, AssessFit(v)
    PROVE  Inv'
<1> USE DEF AssessFit, inputs, columns
<1>1. TypeOK'
  BY DEF Inv, TypeOK, Stages
<1>2. Copies'
  BY DEF Inv, Copies, Early
<1>3. VerdictIsOfTheShownScore'
  BY DEF Inv, Copies, Early, VerdictIsOfTheShownScore
<1> QED
  BY <1>1, <1>2, <1>3 DEF Inv, BeforeScoreStays, AfterScoresAgree, Judged

LEMMA StoreInv ==
    ASSUME Inv, Store
    PROVE  Inv'
<1> USE DEF Store, inputs, columns
<1>0. previous \in Matches /\ current \in Matches
  BY DEF Inv, Copies
<1>1. TypeOK'
  BY <1>0, Typed DEF Inv, TypeOK, Stages
<1>2. Copies'
  BY <1>0 DEF Inv, Copies, Early
<1>3. BeforeScoreStays' /\ AfterScoresAgree'
  BY <1>0, Typed DEF Inv, TypeOK, Copies, BeforeScoreStays, AfterScoresAgree
<1> QED
  BY <1>1, <1>2, <1>3 DEF Inv, VerdictIsOfTheShownScore, Judged

LEMMA SelectVariantInv ==
    ASSUME Inv, NEW v \in Variants, SelectVariant(v)
    PROVE  Inv'
<1> USE DEF SelectVariant, Edit, inputs, columns
<1>1. TypeOK'
  BY ScoreAssumption DEF Inv, TypeOK, Stages
<1>2. Copies'
  BY DEF Inv, Copies, Early
<1>3. AfterScoresAgree'
  BY DEF Inv, AfterScoresAgree
<1> QED
  BY <1>1, <1>2, <1>3 DEF Inv, BeforeScoreStays, VerdictIsOfTheShownScore, Judged

LEMMA GenerateVariantInv ==
    ASSUME Inv, NEW v \in Variants, NEW text \in Texts, GenerateVariant(v, text)
    PROVE  Inv'
<1> DEFINE match == Scored(analysis, text)
<1>0. match \in Matches /\ match.overall \in 0 .. Full
  BY Typed DEF Inv, TypeOK
<1>1. /\ stage = "done" /\ count < MaxEdits /\ count' = count + 1
      /\ edits' = edits \cup {"generate"}
      /\ scores' = [scores EXCEPT ![v] = match]
      /\ after' = IF v = selected THEN match.overall ELSE after
      /\ UNCHANGED <<stage, inputs, tailored, selected, previous, current, verdict, before,
                     byRule>>
  BY DEF GenerateVariant, Edit
<1> HIDE DEF match
<1> USE DEF inputs
<1>2. TypeOK'
  BY <1>0, <1>1, ScoreAssumption DEF Inv, TypeOK, Stages
<1>3. Copies'
  BY <1>1 DEF Inv, Copies, Early
<1>4. AfterScoresAgree'
  BY <1>1 DEF AfterScoresAgree
<1> QED
  BY <1>1, <1>2, <1>3, <1>4 DEF Inv, BeforeScoreStays, VerdictIsOfTheShownScore, Judged

LEMMA AddSectionInv ==
    ASSUME Inv, NEW texts \in [Variants -> Texts], AddSection(texts)
    PROVE  Inv'
<1> DEFINE matches == [v \in Variants |-> Scored(analysis, texts[v])]
<1>0. matches \in [Variants -> Matches] /\ matches[selected] \in Matches
  BY Typed DEF Inv, TypeOK
<1>1. /\ stage = "done" /\ count < MaxEdits /\ count' = count + 1
      /\ edits' = {} /\ scores' = matches /\ current' = matches[selected]
      /\ after' = matches[selected].overall /\ verdict' = NoVerdict
      /\ UNCHANGED <<stage, inputs, tailored, selected, previous, before, byRule>>
  BY DEF AddSection, Edit
<1> HIDE DEF matches
<1> USE DEF inputs
<1>2. matches[selected].overall \in 0 .. Full /\ matches[selected] # NoMatch
  BY <1>0, Typed DEF Inv, TypeOK
<1>3. TypeOK'
  BY <1>0, <1>1, <1>2, ScoreAssumption DEF Inv, TypeOK, Stages
<1>4. Copies'
  BY <1>0, <1>1 DEF Inv, Copies, Early
<1>5. AfterScoresAgree'
  BY <1>1, <1>2 DEF AfterScoresAgree
<1> QED
  BY <1>1, <1>3, <1>4, <1>5 DEF Inv, BeforeScoreStays, VerdictIsOfTheShownScore, Judged

LEMMA NextInv == Inv /\ [Next]_vars => Inv'
<1> SUFFICES ASSUME Inv, [Next]_vars PROVE Inv'
  OBVIOUS
<1>1. CASE \E a \in Analyses \cup {KeywordAnalysis(resume, job)} : AnalyzeInputs(a)
  BY <1>1, AnalyzeInputsInv
<1>2. CASE \E text \in Texts : Rewrite(text)
  BY <1>2, RewriteInv
<1>3. CASE FormatOutput
  BY <1>3, FormatOutputInv
<1>4. CASE \E a \in Analyses \cup {KeywordAnalysis(tailored, job)} : Rescore(a)
  BY <1>4, RescoreInv
<1>5. CASE RescoreSkipped
  BY <1>5, RescoreSkippedInv
<1>6. CASE \E v \in Verdicts : AssessFit(v)
  BY <1>6, AssessFitInv
<1>7. CASE Store
  BY <1>7, StoreInv
<1>8. CASE \E v \in Variants : SelectVariant(v)
  BY <1>8, SelectVariantInv
<1>9. CASE \E v \in Variants, text \in Texts : GenerateVariant(v, text)
  BY <1>9, GenerateVariantInv
<1>10. CASE \E texts \in [Variants -> Texts] : AddSection(texts)
  BY <1>10, AddSectionInv
<1>11. CASE UNCHANGED vars
  BY <1>11
  DEF vars, inputs, columns, Inv, TypeOK, Copies, BeforeScoreStays, AfterScoresAgree,
      VerdictIsOfTheShownScore, Judged, Scored
<1> QED
  BY <1>1, <1>2, <1>3, <1>4, <1>5, <1>6, <1>7, <1>8, <1>9, <1>10, <1>11 DEF Next

\* The scores of a run and their copies, at every step of the agent and after
\* every edit.
THEOREM ScoresInvariance == Spec => []Inv
  BY InitInv, NextInv, PTL DEF Spec

\* Every stored score lies in 0 .. 100.
THEOREM ScoresTyped == Spec => []TypeOK
<1>1. Inv => TypeOK  BY DEF Inv
<1> QED  BY <1>1, ScoresInvariance, PTL

\* The score before tailoring is the same in the column and in the document,
\* whatever is edited.
THEOREM BeforeScoreIsKept == Spec => []BeforeScoreStays
<1>1. Inv => BeforeScoreStays  BY DEF Inv
<1> QED  BY <1>1, ScoresInvariance, PTL

\* The copies of the score after tailoring agree as long as nothing was
\* generated, and for the selected variant as long as nothing was selected.
THEOREM AfterScoreCopies == Spec => []AfterScoresAgree
<1>1. Inv => AfterScoresAgree  BY DEF Inv
<1> QED  BY <1>1, ScoresInvariance, PTL

\* No edit leaves a rule's verdict beside a score it was not given on.
THEOREM VerdictFollowsScore == Spec => []VerdictIsOfTheShownScore
<1>1. Inv => VerdictIsOfTheShownScore  BY DEF Inv
<1> QED  BY <1>1, ScoresInvariance, PTL

--------------------------------------------------------------------------------
(* More words, no lower score. *)

LEMMA RoundMonotone ==
    ASSUME NEW m \in Nat, NEW n \in Nat, NEW d \in Nat \ {0}, m <= n
    PROVE  Round(m, d) <= Round(n, d) /\ Round(m, d) \in Nat /\ Round(n, d) \in Nat
<1> DEFINE p == m \div d
           s == m % d
           q == n \div d
           r == n % d
<1>1. /\ p \in Nat /\ s \in 0 .. d - 1 /\ m = d * p + s
      /\ q \in Nat /\ r \in 0 .. d - 1 /\ n = d * q + r
  BY Quotient
<1>2. /\ Round(m, d) = IF 2 * s > d \/ (2 * s = d /\ p % 2 = 1) THEN p + 1 ELSE p
      /\ Round(n, d) = IF 2 * r > d \/ (2 * r = d /\ q % 2 = 1) THEN q + 1 ELSE q
  BY DEF Round
<1> HIDE DEF p, q, r, s
<1>3. p <= q
  <2>1. SUFFICES ASSUME p >= q + 1 PROVE FALSE
    BY <1>1
  <2>2. d * p >= d * (q + 1)  BY <1>1, <2>1
  <2>3. d * (q + 1) = d * q + d  BY <1>1
  <2>4. d * p \in Nat /\ d * q \in Nat  BY <1>1
  <2> QED  BY <1>1, <2>2, <2>3, <2>4
<1>4. CASE p = q
  <2>1. s <= r  BY <1>1, <1>4
  <2> QED  BY <1>1, <1>2, <1>4, <2>1
<1>5. CASE p # q
  <2>1. p + 1 <= q  BY <1>1, <1>3, <1>5
  <2>2. Round(m, d) \in {p, p + 1} /\ Round(n, d) \in {q, q + 1}  BY <1>2
  <2> QED  BY <1>1, <2>1, <2>2
<1> QED  BY <1>4, <1>5

LEMMA PercentMonotone ==
    ASSUME NEW m \in Nat, NEW n \in Nat, NEW d \in Nat \ {0}, m <= n
    PROVE  Percent(m, d) <= Percent(n, d)
<1>1. Full * m \in Nat /\ Full * n \in Nat /\ Full * m <= Full * n
  BY DEF Full
<1> QED  BY <1>1, RoundMonotone DEF Percent

LEMMA WeightedMonotone ==
    ASSUME NEW m1 \in 0 .. Full, NEW s1 \in 0 .. Full, NEW x1 \in 0 .. Full,
           NEW k1 \in 0 .. Full, NEW m2 \in 0 .. Full, NEW s2 \in 0 .. Full,
           NEW x2 \in 0 .. Full, NEW k2 \in 0 .. Full, NEW l \in 0 .. Full,
           m1 <= m2, s1 <= s2, x1 <= x2, k1 <= k2
    PROVE  Weighted(m1, s1, x1, k1, l) <= Weighted(m2, s2, x2, k2, l)
<1> DEFINE a == 35 * m1 + 20 * s1 + 20 * x1 + 15 * k1 + 10 * l
           b == 35 * m2 + 20 * s2 + 20 * x2 + 15 * k2 + 10 * l
<1>1. a \in Nat /\ b \in Nat /\ a <= b
  <2>1. /\ m1 \in Nat /\ s1 \in Nat /\ x1 \in Nat /\ k1 \in Nat /\ l \in Nat
        /\ m2 \in Nat /\ s2 \in Nat /\ x2 \in Nat /\ k2 \in Nat
    <3>1. \A z \in 0 .. Full : z \in Nat  BY FullIsNat
    <3> QED  BY <3>1, Zenon
  <2> QED  BY <2>1
<1>2. /\ Weighted(m1, s1, x1, k1, l) = Round(a, 100)
      /\ Weighted(m2, s2, x2, k2, l) = Round(b, 100)
  BY DEF Weighted
<1> HIDE DEF a, b
<1> QED  BY <1>1, <1>2, RoundMonotone

LEMMA FoundMonotone ==
    ASSUME NEW entries, IsFiniteSet(entries), NEW few, NEW many, few \subseteq many
    PROVE  Found(entries, few) <= Found(entries, many)
<1> DEFINE A == {e \in entries : e[2] \in few}
           B == {e \in entries : e[2] \in many}
<1>1. A \in SUBSET B /\ B \in SUBSET entries
  OBVIOUS
<1>2. IsFiniteSet(B)
  BY <1>1, FS_Subset
<1> QED  BY <1>1, <1>2, FS_Subset DEF Found

LEMMA CoverageMonotone ==
    ASSUME NEW keywords \in Seq(Terms), NEW few, NEW many, few \subseteq many
    PROVE  Coverage(few, keywords) <= Coverage(many, keywords)
<1>1. CASE keywords = <<>>
  BY <1>1 DEF Coverage
<1>2. CASE keywords # <<>>
  <2>1. IsFiniteSet(Entries(keywords)) /\ Len(keywords) \in Nat \ {0}
    BY <1>2, EntriesCount
  <2>2. /\ Found(Entries(keywords), few) \in Nat /\ Found(Entries(keywords), many) \in Nat
        /\ Found(Entries(keywords), few) <= Found(Entries(keywords), many)
    BY <2>1, FoundBound, FoundMonotone, FS_CardinalityType
  <2> QED  BY <1>2, <2>1, <2>2, PercentMonotone DEF Coverage
<1> QED  BY <1>1, <1>2

\* The original and a text that keeps its words, both analyzed by keywords.
LEMMA KeywordsMonotone ==
    ASSUME NEW j \in JobAnalyses, NEW old \in Resumes, NEW new \in Resumes, Gains(old, new)
    PROVE  LET a == KeywordAnalysis(old, j)
               b == KeywordAnalysis(new, j)
           IN  /\ WordsOf(old) \subseteq WordsOf(new)
               /\ a.skills \subseteq b.skills /\ b.missing \subseteq a.missing
               /\ a.level = b.level
               /\ DOMAIN a.evidence = DOMAIN j.must /\ DOMAIN b.evidence = DOMAIN j.must
               /\ \A i \in DOMAIN j.must :
                     /\ a.evidence[i].requirement = b.evidence[i].requirement
                     /\ a.evidence[i].status \in {"met", "missing"}
                     /\ b.evidence[i].status \in {"met", "missing"}
                     /\ a.evidence[i].status = "met" => b.evidence[i].status = "met"
                     /\ a.evidence[i].quoted <=> a.evidence[i].status = "met"
                     /\ b.evidence[i].quoted <=> b.evidence[i].status = "met"
<1> DEFINE a == KeywordAnalysis(old, j)
           b == KeywordAnalysis(new, j)
<1>1. WordsOf(old) \subseteq WordsOf(new)
  BY DEF WordsOf, Gains
<1>2. a.skills \subseteq b.skills /\ b.missing \subseteq a.missing /\ a.level = b.level
  BY DEF KeywordAnalysis, Gains, Sections
<1>3. /\ DOMAIN a.evidence = DOMAIN j.must /\ DOMAIN b.evidence = DOMAIN j.must
  BY DEF KeywordAnalysis
<1>4. ASSUME NEW i \in DOMAIN j.must
      PROVE  LET term == j.must[i].requirement
             IN  /\ a.evidence[i] = [ requirement |-> term,
                        status |-> IF term \in WordsOf(old) THEN "met" ELSE "missing",
                        quoted |-> term \in WordsOf(old) ]
                 /\ b.evidence[i] = [ requirement |-> term,
                        status |-> IF term \in WordsOf(new) THEN "met" ELSE "missing",
                        quoted |-> term \in WordsOf(new) ]
  BY DEF KeywordAnalysis
<1> HIDE DEF a, b
<1>5. ASSUME NEW i \in DOMAIN j.must
      PROVE  /\ a.evidence[i].requirement = b.evidence[i].requirement
             /\ a.evidence[i].status \in {"met", "missing"}
             /\ b.evidence[i].status \in {"met", "missing"}
             /\ a.evidence[i].status = "met" => b.evidence[i].status = "met"
             /\ a.evidence[i].quoted <=> a.evidence[i].status = "met"
             /\ b.evidence[i].quoted <=> b.evidence[i].status = "met"
  <2> DEFINE term == j.must[i].requirement
             x == a.evidence[i]
             y == b.evidence[i]
  <2>0. /\ x = [ requirement |-> term,
                 status |-> IF term \in WordsOf(old) THEN "met" ELSE "missing",
                 quoted |-> term \in WordsOf(old) ]
        /\ y = [ requirement |-> term,
                 status |-> IF term \in WordsOf(new) THEN "met" ELSE "missing",
                 quoted |-> term \in WordsOf(new) ]
    BY <1>4, Zenon
  <2> HIDE DEF x, y, term
  <2>1. /\ x.requirement = term
        /\ x.quoted <=> (term \in WordsOf(old))
        /\ x.status = IF term \in WordsOf(old) THEN "met" ELSE "missing"
    BY <2>0, Zenon
  <2>2. /\ y.requirement = term
        /\ y.quoted <=> (term \in WordsOf(new))
        /\ y.status = IF term \in WordsOf(new) THEN "met" ELSE "missing"
    BY <2>0, Zenon
  <2>3. /\ x.requirement = y.requirement
        /\ x.status \in {"met", "missing"} /\ y.status \in {"met", "missing"}
        /\ x.status = "met" => y.status = "met"
        /\ x.quoted <=> x.status = "met"
        /\ y.quoted <=> y.status = "met"
    BY <1>1, <2>1, <2>2
  <2> QED  BY <2>3 DEF x, y
<1> QED  BY <1>1, <1>2, <1>3, <1>5 DEF a, b

LEMMA MustHaveMonotone ==
    ASSUME NEW j \in JobAnalyses, NEW old \in Resumes, NEW new \in Resumes, Gains(old, new)
    PROVE  MustHaveScore(KeywordAnalysis(old, j)) <= MustHaveScore(KeywordAnalysis(new, j))
<1> DEFINE e == KeywordAnalysis(old, j).evidence
           g == KeywordAnalysis(new, j).evidence
           met(x) == {i \in DOMAIN x : x[i].status = "met"}
           partial(x) == {i \in DOMAIN x : x[i].status = "partial"}
<1>1. /\ e \in Seq(Evidence) /\ g \in Seq(Evidence)
      /\ Len(e) = Len(j.must) /\ Len(g) = Len(j.must)
  BY KeywordAnalysisTyped DEF ResumeAnalyses
<1>2. /\ DOMAIN e = DOMAIN j.must /\ DOMAIN g = DOMAIN j.must
      /\ \A i \in DOMAIN j.must :
            /\ e[i].status \in {"met", "missing"} /\ g[i].status \in {"met", "missing"}
            /\ e[i].status = "met" => g[i].status = "met"
  BY KeywordsMonotone
<1>3. /\ MustHaveScore(KeywordAnalysis(old, j))
           = IF e = <<>> THEN 0 ELSE Percent(2 * With(e, "met") + With(e, "partial"), 2 * Len(e))
      /\ MustHaveScore(KeywordAnalysis(new, j))
           = IF g = <<>> THEN 0 ELSE Percent(2 * With(g, "met") + With(g, "partial"), 2 * Len(g))
  BY DEF MustHaveScore
<1> HIDE DEF e, g
<1>4. partial(e) = {} /\ partial(g) = {} /\ met(e) \in SUBSET met(g)
  BY <1>2
<1>5. /\ With(e, "partial") = 0 /\ With(g, "partial") = 0
      /\ With(e, "met") \in Nat /\ With(g, "met") \in Nat /\ With(e, "met") <= With(g, "met")
  <2>1. IsFiniteSet(met(g)) /\ met(g) \in SUBSET DOMAIN g
    BY <1>1, PartOfList
  <2>2. /\ Cardinality(met(e)) <= Cardinality(met(g)) /\ Cardinality(met(e)) \in Nat
        /\ Cardinality(met(g)) \in Nat
    BY <1>4, <2>1, FS_Subset, FS_CardinalityType
  <2> QED  BY <1>4, <2>2, FS_EmptySet DEF With
<1>6. CASE e = <<>>
  <2>1. g = <<>>  BY <1>1, <1>6
  <2> QED  BY <1>3, <1>6, <2>1
<1>7. CASE e # <<>>
  <2>1. g # <<>> /\ Len(e) = Len(g) /\ Len(e) \in Nat \ {0}  BY <1>1, <1>7
  <2> DEFINE x == 2 * With(e, "met") + With(e, "partial")
             y == 2 * With(g, "met") + With(g, "partial")
             z == 2 * Len(e)
  <2>2. x \in Nat /\ y \in Nat /\ z \in Nat \ {0} /\ x <= y
    BY <1>5, <2>1
  <2> HIDE DEF x, y, z
  <2>3. Percent(x, z) <= Percent(y, z)
    BY <2>2, PercentMonotone
  <2> QED  BY <1>3, <1>7, <2>1, <2>3 DEF x, y, z
<1> QED  BY <1>6, <1>7

LEMMA SkillsMonotone ==
    ASSUME NEW j \in JobAnalyses, NEW a \in ResumeAnalyses, NEW b \in ResumeAnalyses,
           a.skills \subseteq b.skills
    PROVE  SkillsScore(j, a) <= SkillsScore(j, b)
<1> DEFINE req  == RequiredSkills(j)
           pref == SkillEntries(j.nice)
           reqOf  == IF req = {} THEN 1 ELSE Cardinality(req)
           prefOf == IF pref = {} THEN 1 ELSE Cardinality(pref)
           reqMet(x)  == IF req = {} THEN 1 ELSE Found(req, x.skills)
           prefMet(x) == IF pref = {} THEN 1 ELSE Found(pref, x.skills)
<1>1. /\ j.must \in Seq(Requirements) /\ j.nice \in Seq(Requirements)
      /\ j.keywords \in Seq(Terms)
  BY DEF JobAnalyses
<1>2. SubSeq(j.keywords, 1, Least(8, Len(j.keywords))) \in Seq(Terms)
  BY <1>1 DEF Least
<1>3. IsFiniteSet(req) /\ IsFiniteSet(pref)
  BY <1>1, <1>2, SkillEntriesFinite, EntriesCount DEF RequiredSkills
<1>4. \A s : IsFiniteSet(s) /\ s # {} => Cardinality(s) \in Nat \ {0}
  BY FS_CardinalityType, FS_EmptySet
<1>5. /\ \A s : IsFiniteSet(s) => Found(s, a.skills) \in Nat /\ Found(s, b.skills) \in Nat
      /\ \A s : IsFiniteSet(s) => Found(s, a.skills) <= Found(s, b.skills)
  BY FoundBound, FoundMonotone, FS_CardinalityType
<1>6. /\ reqOf \in Nat \ {0} /\ prefOf \in Nat \ {0}
      /\ reqMet(a) \in Nat /\ reqMet(b) \in Nat /\ reqMet(a) <= reqMet(b)
      /\ prefMet(a) \in Nat /\ prefMet(b) \in Nat /\ prefMet(a) <= prefMet(b)
  BY <1>3, <1>4, <1>5
<1> DEFINE num(x) == 3 * reqMet(x) * prefOf + prefMet(x) * reqOf
           den == 4 * reqOf * prefOf
<1>7. /\ SkillsScore(j, a) = IF a.skills = {} THEN 0 ELSE Percent(num(a), den)
      /\ SkillsScore(j, b) = IF b.skills = {} THEN 0 ELSE Percent(num(b), den)
  BY DEF SkillsScore
<1>8. 0 <= SkillsScore(j, b)
  <2>1. SkillsScore(j, b) \in 0 .. Full  BY SkillsInRange
  <2>2. \A z \in 0 .. Full : 0 <= z  BY DEF Full
  <2> QED  BY <2>1, <2>2, Zenon
<1> HIDE DEF req, pref, reqOf, prefOf, reqMet, prefMet
<1>9. num(a) \in Nat /\ num(b) \in Nat /\ num(a) <= num(b) /\ den \in Nat \ {0}
  <2> DEFINE p == reqMet(a) * prefOf
             q == reqMet(b) * prefOf
             r == prefMet(a) * reqOf
             s == prefMet(b) * reqOf
  <2>1. p \in Nat /\ q \in Nat /\ p <= q
    BY <1>6
  <2>2. r \in Nat /\ s \in Nat /\ r <= s
    BY <1>6
  <2>3. num(a) = 3 * p + r /\ num(b) = 3 * q + s
    BY <1>6
  <2>4. den = 4 * (reqOf * prefOf) /\ reqOf * prefOf \in Nat \ {0}
    BY <1>6
  <2>5. den \in Nat \ {0}
    BY <2>4
  <2> HIDE DEF p, q, r, s, num, den
  <2> QED  BY <2>1, <2>2, <2>3, <2>5
<1> HIDE DEF num, den
<1>10. CASE a.skills = {}
  BY <1>7, <1>8, <1>10
<1>11. CASE a.skills # {}
  <2>1. Percent(num(a), den) <= Percent(num(b), den)
    BY <1>9, PercentMonotone
  <2> QED  BY <1>7, <1>11, <2>1
<1> QED  BY <1>10, <1>11

LEMMA ExperienceMonotone ==
    ASSUME NEW j \in JobAnalyses, j.must = <<>> => j.keywords = <<>>,
           NEW old \in Resumes, NEW new \in Resumes, Gains(old, new), NEW few, NEW many
    PROVE  ExperienceScore(j, KeywordAnalysis(old, j), few)
             <= ExperienceScore(j, KeywordAnalysis(new, j), many)
<1> DEFINE a == KeywordAnalysis(old, j)
           b == KeywordAnalysis(new, j)
           e == a.evidence
           g == b.evidence
           supported(x) ==
              {i \in DOMAIN x : x[i].status \in {"met", "partial"} /\ x[i].quoted}
<1>1. /\ e \in Seq(Evidence) /\ g \in Seq(Evidence)
      /\ Len(e) = Len(j.must) /\ Len(g) = Len(j.must)
  BY KeywordAnalysisTyped DEF ResumeAnalyses
<1>2. /\ DOMAIN e = DOMAIN j.must /\ DOMAIN g = DOMAIN j.must
      /\ \A i \in DOMAIN j.must :
            /\ e[i].status \in {"met", "missing"} /\ g[i].status \in {"met", "missing"}
            /\ e[i].status = "met" => g[i].status = "met"
            /\ e[i].quoted <=> e[i].status = "met"
            /\ g[i].quoted <=> g[i].status = "met"
  BY KeywordsMonotone
<1>3. /\ e # <<>> => ExperienceScore(j, a, few) = Percent(Cardinality(supported(e)), Len(e))
      /\ g # <<>> => ExperienceScore(j, b, many) = Percent(Cardinality(supported(g)), Len(g))
      /\ e = <<>> /\ KeywordsOf(j) = <<>> => ExperienceScore(j, a, few) = 5000
      /\ g = <<>> /\ KeywordsOf(j) = <<>> => ExperienceScore(j, b, many) = 5000
  BY DEF ExperienceScore
<1>4. j.must \in Seq(Requirements)
  BY DEF JobAnalyses
<1>5. CASE e = <<>>
  <2>1. g = <<>> /\ j.must = <<>>  BY <1>1, <1>4, <1>5
  <2>2. KeywordsOf(j) = <<>>  BY <2>1 DEF KeywordsOf, Requirement
  <2> QED  BY <1>3, <1>5, <2>1, <2>2
<1>6. CASE e # <<>>
  <2> HIDE DEF e, g, a, b
  <2>1. g # <<>> /\ Len(e) = Len(g) /\ Len(e) \in Nat \ {0}  BY <1>1, <1>6
  <2>2. supported(e) \in SUBSET supported(g)  BY <1>2
  <2>3. IsFiniteSet(supported(g))  BY <1>1, PartOfList
  <2>4. /\ Cardinality(supported(e)) \in Nat /\ Cardinality(supported(g)) \in Nat
        /\ Cardinality(supported(e)) <= Cardinality(supported(g))
    BY <2>2, <2>3, FS_Subset, FS_CardinalityType
  <2> HIDE DEF supported
  <2>5. Percent(Cardinality(supported(e)), Len(e)) <= Percent(Cardinality(supported(g)), Len(g))
    BY <2>1, <2>4, PercentMonotone
  <2>6. ExperienceScore(j, a, few) <= ExperienceScore(j, b, many)
    BY <1>3, <1>6, <2>1, <2>5
  <2> QED  BY <2>6 DEF a, b
<1> QED  BY <1>5, <1>6

LEMMA FlaggedAntitone ==
    ASSUME NEW j \in JobAnalyses, NEW old \in Resumes, NEW new \in Resumes, Gains(old, new)
    PROVE  Flagged(j, KeywordAnalysis(new, j)) <= Flagged(j, KeywordAnalysis(old, j))
<1> DEFINE a == KeywordAnalysis(old, j)
           b == KeywordAnalysis(new, j)
           missing(x) == {x.evidence[i].requirement :
                            i \in {k \in DOMAIN x.evidence : x.evidence[k].status = "missing"}}
<1>1. /\ b.missing \subseteq a.missing
      /\ DOMAIN a.evidence = DOMAIN j.must /\ DOMAIN b.evidence = DOMAIN j.must
      /\ \A i \in DOMAIN j.must :
            /\ a.evidence[i].requirement = b.evidence[i].requirement
            /\ a.evidence[i].status \in {"met", "missing"}
            /\ b.evidence[i].status \in {"met", "missing"}
            /\ a.evidence[i].status = "met" => b.evidence[i].status = "met"
  BY KeywordsMonotone
<1>2. j.dealbreakers \in Seq(Terms \cup Sections)
  BY DEF JobAnalyses
<1>3. IsFiniteSet(Entries(j.dealbreakers))
  BY <1>2, EntriesCount
<1>4. /\ Flagged(j, a) = Found(Entries(j.dealbreakers), missing(a) \cup a.missing)
      /\ Flagged(j, b) = Found(Entries(j.dealbreakers), missing(b) \cup b.missing)
  BY DEF Flagged
<1> HIDE DEF a, b
<1>5. missing(b) \cup b.missing \subseteq missing(a) \cup a.missing
  BY <1>1
<1> HIDE DEF missing
<1>6. Flagged(j, b) <= Flagged(j, a)
  BY <1>3, <1>4, <1>5, FoundMonotone
<1> QED  BY <1>6 DEF a, b

\* A text that keeps every word of another scores no lower, when keywords judge
\* both (match_score.py:107-169, resume_analyst.py:20-73).
THEOREM MoreWordsNoLowerScore ==
    ASSUME NEW j \in JobAnalyses, j.must = <<>> => j.keywords = <<>>,
           NEW old \in Resumes, NEW new \in Resumes, Gains(old, new)
    PROVE  MatchOf(j, KeywordAnalysis(old, j), WordsOf(old)).overall
             <= MatchOf(j, KeywordAnalysis(new, j), WordsOf(new)).overall
<1> DEFINE a == KeywordAnalysis(old, j)
           b == KeywordAnalysis(new, j)
           mean(x, words) == Weighted(MustHaveScore(x), SkillsScore(j, x),
                                      ExperienceScore(j, x, words),
                                      Coverage(words, KeywordsOf(j)), SeniorityScore(j, x))
<1>1. a \in ResumeAnalyses /\ b \in ResumeAnalyses
  BY KeywordAnalysisTyped
<1>2. /\ WordsOf(old) \subseteq WordsOf(new) /\ a.skills \subseteq b.skills
      /\ a.level = b.level
  BY KeywordsMonotone
<1>3. MustHaveScore(a) <= MustHaveScore(b)
  BY MustHaveMonotone
<1>4. SkillsScore(j, a) <= SkillsScore(j, b)
  BY <1>1, <1>2, SkillsMonotone
<1>5. ExperienceScore(j, a, WordsOf(old)) <= ExperienceScore(j, b, WordsOf(new))
  BY ExperienceMonotone
<1>6. Coverage(WordsOf(old), KeywordsOf(j)) <= Coverage(WordsOf(new), KeywordsOf(j))
  BY <1>2, KeywordsTyped, CoverageMonotone
<1>7. Flagged(j, b) <= Flagged(j, a) /\ Flagged(j, a) \in Nat /\ Flagged(j, b) \in Nat
  BY FlaggedAntitone, FlaggedIsNat
<1>8. /\ MatchOf(j, a, WordsOf(old)).overall
           = mean(a, WordsOf(old)) - Least(mean(a, WordsOf(old)), 2500 * Flagged(j, a))
      /\ MatchOf(j, b, WordsOf(new)).overall
           = mean(b, WordsOf(new)) - Least(mean(b, WordsOf(new)), 2500 * Flagged(j, b))
  BY DEF MatchOf, Match
<1>9. SeniorityScore(j, a) = SeniorityScore(j, b)
  BY <1>2 DEF SeniorityScore
<1> HIDE DEF a, b
<1>10. \A text : Coverage(text, KeywordsOf(j)) \in 0 .. Full
  BY KeywordsTyped, CoverageInRange
<1>11. /\ mean(a, WordsOf(old)) \in 0 .. Full /\ mean(b, WordsOf(new)) \in 0 .. Full
       /\ mean(a, WordsOf(old)) <= mean(b, WordsOf(new))
  BY <1>1, <1>3, <1>4, <1>5, <1>6, <1>9, <1>10, MustHaveInRange, SkillsInRange,
     ExperienceInRange, SeniorityInRange, WeightedInRange, WeightedMonotone
<1> HIDE DEF mean
<1>12. MatchOf(j, a, WordsOf(old)).overall <= MatchOf(j, b, WordsOf(new)).overall
  <2> DEFINE x == mean(a, WordsOf(old))
             y == mean(b, WordsOf(new))
             p == Flagged(j, a)
             q == Flagged(j, b)
  <2>1. x \in Nat /\ y \in Nat /\ x <= y /\ p \in Nat /\ q \in Nat /\ q <= p
    <3>1. \A z \in 0 .. Full : z \in Nat  BY DEF Full
    <3> QED  BY <1>7, <1>11, <3>1
  <2> HIDE DEF x, y, p, q
  <2>2. x - Least(x, 2500 * p) <= y - Least(y, 2500 * q)
    BY <2>1 DEF Least
  <2> QED  BY <1>8, <2>2 DEF x, y, p, q
<1> QED  BY <1>12 DEF a, b

\* Judged by keywords before and after, a run that kept every word of the master
\* resume never shows a lower score than it started from.
THEOREM TailoringKeepsTheScore == Spec => TailoringNeverLowersTheScore
<1>1. ASSUME Inv, [Next]_vars, stage = "rescore", stage' = "assess", Gains(resume, tailored),
             {"original", "tailored"} \subseteq byRule'
      PROVE  current'.overall >= previous.overall
  <2>1. "tailored" \notin byRule
    BY <1>1 DEF Inv, Judged
  <2>2. PICK a \in Analyses \cup {KeywordAnalysis(tailored, job)} : Rescore(a)
    <3>1. ~ RescoreSkipped  BY <1>1, <2>1 DEF RescoreSkipped
    <3> QED
      BY <1>1, <3>1
      DEF Next, vars, AnalyzeInputs, Rewrite, FormatOutput, AssessFit, Store, SelectVariant,
          GenerateVariant, AddSection, Edit
  <2>3. /\ a = KeywordAnalysis(tailored, job) /\ byRule' = byRule \cup {"tailored"}
        /\ current' = Scored(a, tailored)
    BY <1>1, <2>1, <2>2 DEF Rescore
  <2>4. /\ job \in KeywordJobs /\ analysis = KeywordAnalysis(resume, job)
        /\ previous = Scored(analysis, resume)
    BY <1>1, <2>3 DEF Inv, Judged
  <2>5. /\ resume \in Resumes /\ tailored \in Resumes /\ job \in JobAnalyses
        /\ job.must = <<>> => job.keywords = <<>>
    BY <1>1, <2>4, ScoreAssumption DEF Inv, TypeOK
  <2>6. /\ previous = MatchOf(job, KeywordAnalysis(resume, job), WordsOf(resume))
        /\ current' = MatchOf(job, KeywordAnalysis(tailored, job), WordsOf(tailored))
    BY <2>3, <2>4 DEF Scored
  <2>7. previous.overall <= current'.overall
    BY <1>1, <2>5, <2>6, MoreWordsNoLowerScore
  <2>8. previous \in Matches /\ current' \in Matches
    BY <2>5, <2>6, KeywordAnalysisTyped, ScoreInRange
  <2> QED  BY <2>7, <2>8 DEF Matches
<1>2. Inv /\ [Next]_vars
        => [ stage = "rescore" /\ stage' = "assess" /\ Gains(resume, tailored)
               /\ {"original", "tailored"} \subseteq byRule'
             => current'.overall >= previous.overall ]_vars
  BY <1>1
<1> QED  BY <1>2, ScoresInvariance, PTL DEF Spec, TailoringNeverLowersTheScore

================================================================================
