------------------------------ MODULE RunScores -------------------------------
(***************************************************************************)
(* The scores of one run.  The agent scores the resume before tailoring,    *)
(* scores the tailored text with the analysis of the original, analyzes the *)
(* tailored text and scores it again, and judges the fit.  The executor     *)
(* copies two of the numbers to columns of agent_runs; the document that    *)
(* holds all of them is then edited by the endpoints of RunEditor, each of  *)
(* which brings some of the copies up to date.                              *)
(***************************************************************************)
EXTENDS MatchScore

CONSTANTS
    Jobs,        \* the model's analyses of the posting
    KeywordJobs, \* the analyses of the posting by keywords
    Analyses,    \* the model's analyses of a resume
    Texts,       \* the resumes, original and tailored
    Variants,    \* VariantName
    NoVerdict,   \* no fit_assessment
    NoMatch,     \* no match_score
    MaxEdits     \* edits explored after the agent

ASSUME ScoreAssumption ==
    /\ Jobs \subseteq JobAnalyses /\ KeywordJobs \subseteq JobAnalyses
    /\ \A j \in KeywordJobs : j.must = <<>> => j.keywords = <<>>
    /\ Analyses \subseteq ResumeAnalyses /\ Texts \subseteq Resumes
    /\ NoVerdict \notin Verdicts /\ NoMatch \notin Matches
    /\ MaxEdits \in Nat

VARIABLES
    stage,      \* the step of the agent that comes next; "done" once the run is stored
    resume,     \* the master resume
    tailored,   \* the text of the variant the agent writes
    job,        \* final_output["jd_analysis"]
    analysis,   \* final_output["resume_analysis"]: of the original text, for good
    selected,   \* final_output["selected_variant"]
    previous,   \* final_output["match_score"]["previous"]
    current,    \* final_output["match_score"]["current"]
    scores,     \* final_output["variants"][v]["match_score"]
    verdict,    \* final_output["fit_assessment"]
    before,     \* agent_runs.ats_score_before
    after,      \* agent_runs.ats_score_after
    byRule,     \* history: which of the analyses and the verdict the model did not give
    edits,      \* history: the kinds of edit since the document was last built
    count       \* history: edits made

inputs == <<resume, job, analysis>>
columns == <<before, after>>
vars == <<stage, inputs, tailored, selected, previous, current, scores, verdict, columns,
          byRule, edits, count>>

Stages == {"analyze", "rewrite", "format", "rescore", "assess", "store", "done"}

Init ==
    /\ stage = "analyze"
    /\ resume \in Texts /\ tailored = resume
    /\ selected \in Variants
    /\ job \in Jobs \cup KeywordJobs
    /\ analysis = KeywordAnalysis(resume, job)
    /\ previous = NoMatch /\ current = NoMatch
    /\ scores = [v \in Variants |-> NoMatch]
    /\ verdict = NoVerdict
    /\ before = 0 /\ after = 0
    /\ byRule = {} /\ edits = {} /\ count = 0

Scored(a, text) == MatchOf(job, a, WordsOf(text))

--------------------------------------------------------------------------------
(* The agent. *)

\* One call analyzes both inputs; if it fails, both are analyzed by keywords.
AnalyzeInputs(a) ==
    /\ stage = "analyze"
    /\ \/ job \in Jobs /\ a \in Analyses /\ byRule' = byRule
       \/ job \in KeywordJobs /\ a = KeywordAnalysis(resume, job)
          /\ byRule' = byRule \cup {"original"}
    /\ analysis' = a
    /\ previous' = Scored(a, resume)
    /\ stage' = "rewrite"
    /\ UNCHANGED <<resume, job, tailored, selected, current, scores, verdict, columns, edits,
                   count>>

Rewrite(text) ==
    /\ stage = "rewrite"
    /\ tailored' = text
    /\ stage' = "format"
    /\ UNCHANGED <<inputs, selected, previous, current, scores, verdict, columns, byRule,
                   edits, count>>

\* The new text under the analysis of the old one.
FormatOutput ==
    /\ stage = "format"
    /\ current' = Scored(analysis, tailored)
    /\ scores' = [scores EXCEPT ![selected] = Scored(analysis, tailored)]
    /\ stage' = "rescore"
    /\ UNCHANGED <<inputs, tailored, selected, previous, verdict, columns, byRule, edits, count>>

\* A slip: the score of the variant is left as format_output computed it.
RescoreSlip(a) ==
    /\ stage = "rescore"
    /\ \/ a \in Analyses /\ byRule' = byRule
       \/ a = KeywordAnalysis(tailored, job) /\ byRule' = byRule \cup {"tailored"}
    /\ current' = Scored(a, tailored)
    /\ stage' = "assess"
    /\ UNCHANGED <<inputs, tailored, selected, previous, scores, verdict, columns, edits, count>>

\* The tailored text is analyzed, by the model or by keywords, and scored anew.
Rescore(a) ==
    /\ stage = "rescore"
    /\ \/ a \in Analyses /\ byRule' = byRule
       \/ a = KeywordAnalysis(tailored, job) /\ byRule' = byRule \cup {"tailored"}
    /\ current' = Scored(a, tailored)
    /\ scores' = [scores EXCEPT ![selected] = Scored(a, tailored)]
    /\ stage' = "assess"
    /\ UNCHANGED <<inputs, tailored, selected, previous, verdict, columns, edits, count>>

\* With no text there is nothing to analyze; and whatever the analysis or the scoring
\* of the tailored text raises, the document keeps the score it has.
RescoreSkipped ==
    /\ stage = "rescore"
    /\ stage' = "assess"
    /\ UNCHANGED <<inputs, tailored, selected, previous, current, scores, verdict, columns,
                   byRule, edits, count>>

\* A slip: the verdict is given on the score before tailoring.
AssessFitSlip(v) ==
    /\ stage = "assess"
    /\ \/ v \in Verdicts /\ byRule' = byRule
       \/ v = Verdict(previous) /\ byRule' = byRule \cup {"verdict"}
    /\ verdict' = v
    /\ stage' = "store"
    /\ UNCHANGED <<inputs, tailored, selected, previous, current, scores, columns, edits, count>>

\* The model's verdict is anything; the rule's is that of the current score.
AssessFit(v) ==
    /\ stage = "assess"
    /\ \/ v \in Verdicts /\ byRule' = byRule
       \/ v = Verdict(current) /\ byRule' = byRule \cup {"verdict"}
    /\ verdict' = v
    /\ stage' = "store"
    /\ UNCHANGED <<inputs, tailored, selected, previous, current, scores, columns, edits, count>>

\* execute_run
Store ==
    /\ stage = "store"
    /\ before' = previous.overall
    /\ after' = current.overall
    /\ stage' = "done"
    /\ UNCHANGED <<inputs, tailored, selected, previous, current, scores, verdict, byRule,
                   edits, count>>

--------------------------------------------------------------------------------
(* The edits. *)

Edit(kinds) ==
    /\ stage = "done"
    /\ count < MaxEdits
    /\ count' = count + 1
    /\ edits' = kinds

\* No score follows the selection.
SelectVariant(v) ==
    /\ Edit(edits \cup {"select"})
    /\ selected' = v
    /\ UNCHANGED <<stage, inputs, tailored, previous, current, scores, verdict, columns, byRule>>

\* The variant is written again and scored with the analysis of the original
\* text; the column follows it if it is the selected one, the document does not.
GenerateVariant(v, text) ==
    LET match == Scored(analysis, text)
    IN  /\ Edit(edits \cup {"generate"})
        /\ scores' = [scores EXCEPT ![v] = match]
        /\ after' = IF v = selected THEN match.overall ELSE after
        /\ UNCHANGED <<stage, inputs, tailored, selected, previous, current, verdict, before,
                       byRule>>

\* Every variant gains the section; the document is built anew by format_output,
\* which carries the first score over and gives no verdict.
AddSection(texts) ==
    LET matches == [v \in Variants |-> Scored(analysis, texts[v])]
    IN  /\ Edit({})
        /\ scores' = matches
        /\ current' = matches[selected]
        /\ after' = matches[selected].overall
        /\ verdict' = NoVerdict
        /\ UNCHANGED <<stage, inputs, tailored, selected, previous, before, byRule>>

Next ==
    \/ \E a \in Analyses \cup {KeywordAnalysis(resume, job)} : AnalyzeInputs(a)
    \/ \E text \in Texts : Rewrite(text)
    \/ FormatOutput
    \/ \E a \in Analyses \cup {KeywordAnalysis(tailored, job)} : Rescore(a)
    \/ RescoreSkipped
    \/ \E v \in Verdicts : AssessFit(v)
    \/ Store
    \/ \E v \in Variants : SelectVariant(v)
    \/ \E v \in Variants, text \in Texts : GenerateVariant(v, text)
    \/ \E texts \in [Variants -> Texts] : AddSection(texts)

Spec == Init /\ [][Next]_vars

--------------------------------------------------------------------------------
\* No score leaves 0 .. 100, whatever the model answers: pydantic would raise
\* (match.py:8-14), which fails the run when the first score is computed.
TypeOK ==
    /\ stage \in Stages
    /\ selected \in Variants
    /\ resume \in Texts /\ tailored \in Texts
    /\ job \in Jobs \cup KeywordJobs
    /\ previous \in Matches \cup {NoMatch}
    /\ current \in Matches \cup {NoMatch}
    /\ scores \in [Variants -> Matches \cup {NoMatch}]
    /\ verdict \in Verdicts \cup {NoVerdict}
    /\ before \in 0 .. Full /\ after \in 0 .. Full
    /\ byRule \subseteq {"original", "tailored", "verdict"}
    /\ edits \subseteq {"select", "generate"}
    /\ count \in 0 .. MaxEdits

\* The score before tailoring is in the run's column and in its document, and
\* no edit makes them differ (run_editor.py:50, run_executor.py:91-96).
BeforeScoreStays == stage = "done" => previous # NoMatch /\ before = previous.overall

\* The three copies of the score after tailoring, the column the locked page
\* shows, the document's and the selected variant's, are one number when the
\* document has just been built, and a selection alone leaves the first two
\* equal (graph.py:50-72, run_editor.py:225-226).
AfterScoresAgree ==
    stage = "done" =>
        /\ edits \subseteq {"select"} => current # NoMatch /\ after = current.overall
        /\ edits = {} => scores[selected] = current

\* A verdict given by rule is the rule's verdict on the score the document
\* shows, however often it is edited (fit_analyst.py:71-83, graph.py:152).
VerdictIsOfTheShownScore ==
    stage \in {"store", "done"} /\ verdict # NoVerdict /\ "verdict" \in byRule
        => verdict = Verdict(current)

Gains(old, new) == \A s \in Sections : old[s] \subseteq new[s]

\* When keywords judge both texts, a tailored text that keeps every word of the
\* original never scores below it (match_score.py:107-169).
TailoringNeverLowersTheScore ==
    [][ stage = "rescore" /\ stage' = "assess" /\ Gains(resume, tailored)
          /\ {"original", "tailored"} \subseteq byRule'
        => current'.overall >= previous.overall ]_vars

================================================================================
