------------------------------ MODULE MCRunScores ------------------------------
(***************************************************************************)
(* Six terms and a handful of postings, texts and answers of the model that *)
(* reach every branch of the score.                                         *)
(***************************************************************************)
EXTENDS RunScores, TLC

CONSTANTS python, sql, git, aws, css, vue

Symmetry == Permutations(Variants)

MCTerms == {python, sql, git, aws, css, vue}

Skill(t) == [requirement |-> t, category |-> "skill"]
Other(t) == [requirement |-> t, category |-> "other"]
Posting(must, nice, keywords, level, dealbreakers) ==
    [must |-> must, nice |-> nice, keywords |-> keywords, level |-> level,
     dealbreakers |-> dealbreakers]

\* The model names skills, or none; keywords, or none; dealbreakers, one twice.
MCJobs ==
    { Posting(<<Skill(python)>>, <<Skill(sql)>>, <<python, sql>>, "mid", <<>>),
      Posting(<<Other(python), Skill(sql)>>, <<>>, <<>>, "executive", <<python>>),
      Posting(<<Other(sql)>>, <<>>, <<sql, python>>, "junior", <<sql, sql, "education">>),
      Posting(<<>>, <<>>, <<>>, "unknown", <<"skills">>) }

MCKeywordJobs ==
    { KeywordJob(<<python, sql, git, aws, css, vue>>, {css}, "unknown"),
      KeywordJob(<<sql, python>>, {sql}, "lead"),
      KeywordJob(<<>>, {}, "unknown") }

Claim(t, status, quoted) == [requirement |-> t, status |-> status, quoted |-> quoted]
Answer(evidence, skills, bullets, missing, level) ==
    [evidence |-> evidence, skills |-> skills, bullets |-> bullets, missing |-> missing,
     level |-> level]

MCAnalyses ==
    { Answer(<<Claim(python, "met", TRUE), Claim(sql, "met", TRUE)>>, {python, sql}, {python},
             {}, "senior"),
      Answer(<<Claim(python, "partial", TRUE), Claim(sql, "missing", FALSE)>>, {Filler}, {},
             {"education"}, "junior"),
      Answer(<<Claim(sql, "partial", FALSE)>>, {}, {}, Sections, "executive"),
      Answer(<<>>, {sql}, {Filler}, {}, "mid"),
      Answer(<<>>, {sql}, {}, {}, "mid") }

Text(experience, skills, education) ==
    [s \in Sections |-> CASE s = "experience" -> experience [] s = "skills" -> skills
                          [] s = "education" -> education [] OTHER -> {}]

MCTexts ==
    { Text({Filler}, {}, {}), Text({Filler, sql}, {python}, {}),
      Text({Filler, sql, vue}, {python}, {Filler}), Text({}, {}, {}) }
================================================================================
