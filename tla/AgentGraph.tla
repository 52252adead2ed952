------------------------------ MODULE AgentGraph ------------------------------
(***************************************************************************)
(* The LangGraph agent of one run: prepare the inputs, understand and       *)
(* analyze them, rewrite every section at once, validate the draft, write   *)
(* it again if it was rejected, format it, assess the fit.  The language    *)
(* model answers anything, or its call raises.                              *)
(*                                                                         *)
(* A text is what validation can tell of it: "supported" by the resume,     *)
(* a "year" the resume does not have, some other unsupported "claim".       *)
(***************************************************************************)
EXTENDS Naturals

CONSTANTS
    Sections,   \* SECTION_KEYS
    Skills,     \* the section that may be written with no source text
    NoOutput    \* final_output of a state that was not formatted yet

VARIABLES
    node,       \* the node that runs next; "end", or "raised" when run_agent raised
    inputsOk,   \* both texts are long enough
    source,     \* the resume by section, as the model mapped it
    evidence,   \* met requirements or priority keywords were found
    drafts,     \* section_drafts
    variant,    \* variants[selected_variant]
    given,      \* the text handed to each rewrite as its source
    open,       \* rewrite calls in flight
    passed,     \* validation_passed
    retry,      \* retry_count
    fatal,      \* fatal_error
    output,     \* final_output["sections"], once formatted
    reviewed,   \* history: the draft the last validation looked at
    rewrites    \* history: drafts handed to validation

inputs == <<inputsOk, source>>
review == <<passed, retry, reviewed>>
vars == <<node, inputs, evidence, drafts, variant, given, open, review, fatal, output, rewrites>>

NoText == "none"
Texts == {NoText, "supported", "year", "claim"}
Drafts == [Sections -> Texts]
Blank == [s \in Sections |-> NoText]

ASSUME GraphAssumption == NoOutput \notin Drafts
RetryLimit == 2

Nodes == {"prepare_inputs", "understand_resume", "analyze_inputs", "rewrite_sections",
          "rewriting", "validate_output", "format_output", "assess_fit", "end", "raised"}

Init ==
    /\ node = "prepare_inputs"
    /\ inputsOk \in BOOLEAN
    /\ evidence = FALSE
    /\ source = Blank /\ drafts = Blank /\ variant = Blank /\ given = Blank
    /\ open = {}
    /\ passed = FALSE /\ retry = 0 /\ fatal = FALSE
    /\ output = NoOutput /\ reviewed = Blank /\ rewrites = 0

--------------------------------------------------------------------------------
PrepareInputs ==
    /\ node = "prepare_inputs"
    /\ fatal' = ~inputsOk
    /\ node' = IF inputsOk THEN "understand_resume" ELSE "end"
    /\ UNCHANGED <<inputs, evidence, drafts, variant, given, open, review, output, rewrites>>

\* The model's map of the resume, quoted rightly or not, or the parser's when
\* the call raises.
UnderstandResume ==
    /\ node = "understand_resume"
    /\ source' \in Drafts
    /\ drafts' = source'
    /\ node' = "analyze_inputs"
    /\ UNCHANGED <<inputsOk, evidence, variant, given, open, review, fatal, output, rewrites>>

\* The model's analysis, or the keyword fallback when the call raises.
AnalyzeInputs ==
    /\ node = "analyze_inputs"
    /\ evidence' \in BOOLEAN
    /\ node' = "rewrite_sections"
    /\ UNCHANGED <<inputs, drafts, variant, given, open, review, fatal, output, rewrites>>

\* _source_sections: the draft in the state if there is one, else the resume.
SourceOf(s) == IF drafts[s] # NoText THEN drafts[s] ELSE source[s]

\* _sections_to_tailor
ToTailor ==
    LET present == {s \in Sections : source[s] # NoText}
    IN  {s \in Sections :
            \/ SourceOf(s) # NoText /\ (s \in present \/ present = {})
            \/ s = Skills /\ (SourceOf(s) # NoText \/ evidence)}

\* build_all_variants gathers one call per section.
RewriteSections ==
    /\ node = "rewrite_sections"
    /\ open' = ToTailor
    /\ given' = [s \in Sections |-> IF s \in ToTailor THEN SourceOf(s) ELSE NoText]
    /\ variant' = Blank
    /\ node' = "rewriting"
    /\ UNCHANGED <<inputs, evidence, drafts, review, fatal, output, rewrites>>

\* The model may answer nothing: the section is left out of the variant.
RewriteAnswers(s, t) ==
    /\ node = "rewriting" /\ s \in open
    /\ open' = open \ {s}
    /\ variant' = [variant EXCEPT ![s] = t]
    /\ UNCHANGED <<node, inputs, evidence, drafts, given, review, fatal, output, rewrites>>

\* The first call that raises ends the gather, and the graph; the other calls
\* run on.
RewriteRaises(s) ==
    /\ node = "rewriting" /\ s \in open
    /\ open' = open \ {s}
    /\ node' = "raised"
    /\ UNCHANGED <<inputs, evidence, drafts, variant, given, review, fatal, output, rewrites>>

\* A call that outlived its gather ends.
StragglerEnds(s) ==
    /\ node = "raised" /\ s \in open
    /\ open' = open \ {s}
    /\ UNCHANGED <<node, inputs, evidence, drafts, variant, given, review, fatal, output,
                   rewrites>>

\* Slips: going on with the first answer, and waiting for a text of every section.
RewriteGatheredEarly ==
    /\ node = "rewriting" /\ variant # Blank
    /\ drafts' = variant /\ rewrites' = rewrites + 1
    /\ node' = "validate_output"
    /\ UNCHANGED <<inputs, evidence, variant, given, open, review, fatal, output>>

RewriteGatheredWhole ==
    /\ node = "rewriting" /\ \A s \in Sections : given[s] # NoText => variant[s] # NoText
    /\ drafts' = variant /\ rewrites' = rewrites + 1
    /\ node' = "validate_output"
    /\ UNCHANGED <<inputs, evidence, variant, given, open, review, fatal, output>>

RewriteGatheredTrusted ==  \* a slip: what was written again is not reviewed again
    /\ node = "rewriting" /\ open = {}
    /\ drafts' = variant
    /\ rewrites' = rewrites + 1
    /\ node' = IF retry = 0 THEN "validate_output" ELSE "format_output"
    /\ UNCHANGED <<inputs, evidence, variant, given, open, review, fatal, output>>

RewriteGathered ==
    /\ node = "rewriting" /\ open = {}
    /\ drafts' = variant
    /\ rewrites' = rewrites + 1
    /\ node' = "validate_output"
    /\ UNCHANGED <<inputs, evidence, variant, given, open, review, fatal, output>>

\* The sections under review: those of the variant, or the drafts if it has none.
UnderReview == IF variant # Blank THEN variant ELSE drafts

\* A slip: only the model is asked.
NoRule == FALSE

\* _rule_validate: the draft has a year the resume does not have.
RuleErrors == \E s \in Sections : UnderReview[s] = "year"

\* A slip: never giving up.
AfterValidateTireless(ok, count) ==
    IF ok \/ count > RetryLimit THEN "format_output" ELSE "rewrite_sections"

\* _after_validate
AfterValidate(ok, count) ==
    IF ok \/ count >= RetryLimit THEN "format_output" ELSE "rewrite_sections"

\* The rule decides alone when it finds an error, and the model otherwise.
ValidateOutput(ok) ==
    LET count == IF ~ok /\ retry < RetryLimit THEN retry + 1 ELSE retry
    IN  /\ node = "validate_output"
        /\ RuleErrors => ~ok
        /\ passed' = ok
        /\ retry' = count
        /\ drafts' = UnderReview
        /\ reviewed' = UnderReview
        /\ node' = AfterValidate(ok, count)
        /\ UNCHANGED <<inputs, evidence, variant, given, open, fatal, output, rewrites>>

ValidationRaises ==
    /\ node = "validate_output"
    /\ ~RuleErrors
    /\ node' = "raised"
    /\ UNCHANGED <<inputs, evidence, drafts, variant, given, open, review, fatal, output,
                   rewrites>>

\* Scoring the formatted text again asks the model and survives its failure.
FormatOutput ==
    /\ node = "format_output"
    /\ output' = IF variant # Blank THEN variant ELSE drafts
    /\ node' = "assess_fit"
    /\ UNCHANGED <<inputs, evidence, drafts, variant, given, open, review, fatal, rewrites>>

\* The model's assessment, or the heuristic one when the call raises.
AssessFit ==
    /\ node = "assess_fit"
    /\ node' = "end"
    /\ UNCHANGED <<inputs, evidence, drafts, variant, given, open, review, fatal, output,
                   rewrites>>

\* The checkpointer fails to store the state between two nodes.
CheckpointRaises ==
    /\ node \notin {"rewriting", "end", "raised"}
    /\ node' = "raised"
    /\ UNCHANGED <<inputs, evidence, drafts, variant, given, open, review, fatal, output,
                   rewrites>>

Progress ==
    \/ PrepareInputs \/ UnderstandResume \/ AnalyzeInputs
    \/ RewriteSections \/ RewriteGathered
    \/ \E ok \in BOOLEAN : ValidateOutput(ok)
    \/ FormatOutput \/ AssessFit

Next ==
    \/ Progress
    \/ \E s \in Sections, t \in Texts : RewriteAnswers(s, t)
    \/ \E s \in Sections : RewriteRaises(s) \/ StragglerEnds(s)
    \/ ValidationRaises
    \/ CheckpointRaises

Spec == Init /\ [][Next]_vars

\* The event loop runs the next node, and the providers' clients give up after
\* 90 seconds (_http.py:14, anthropic_provider.py:36): a call answers or raises.
CallEnds(s) == (\E t \in Texts : RewriteAnswers(s, t)) \/ RewriteRaises(s) \/ StragglerEnds(s)

FairSpec ==
    /\ Spec
    /\ WF_vars(Progress \/ ValidationRaises)
    /\ \A s \in Sections : WF_vars(CallEnds(s))

--------------------------------------------------------------------------------
\* The state is what the nodes may hand each other, and a rewrite call is in
\* flight only while its gather waits or after the gather gave up.
TypeOK ==
    /\ node \in Nodes
    /\ inputsOk \in BOOLEAN /\ evidence \in BOOLEAN
    /\ passed \in BOOLEAN /\ fatal \in BOOLEAN
    /\ source \in Drafts /\ drafts \in Drafts /\ variant \in Drafts /\ given \in Drafts
    /\ reviewed \in Drafts
    /\ output \in Drafts \cup {NoOutput}
    /\ open \subseteq Sections
    /\ open # {} => node \in {"rewriting", "raised"}
    /\ retry \in 0 .. RetryLimit /\ rewrites \in 0 .. RetryLimit

\* What the run publishes is, section by section, the draft that the last review
\* looked at: no rewrite slips in between the review and the formatting, on the
\* first pass of the loop or on a later one (graph.py:182-190).
PublishedIsTheReviewedDraft == output # NoOutput => output = reviewed

\* No answer of the model gets a year that the source does not have into a
\* published resume on whose record validation passed (validate_output.py:11-19).
PassedOutputHasNoInventedYear ==
    output # NoOutput /\ passed => \A s \in Sections : output[s] # "year"

\* Validation fails closed: a draft it rejected is not published.  The edge out
\* of the last rejection breaks it (graph.py:104).
RejectedDraftIsNotPublished == output # NoOutput => passed

\* Whatever the model answers and whichever call raises, the graph comes to an
\* end and no call stays open.
GraphEnds == <>[](node \in {"end", "raised"} /\ open = {})

\* The retry loop is DraftReview with two tries.
Review == INSTANCE DraftReview WITH
    Tries    <- RetryLimit,
    stage    <- CASE node = "validate_output" -> "review"
                  [] node \in {"format_output", "assess_fit", "end", "raised"} -> "over"
                  [] OTHER -> "writing",
    tries    <- rewrites,
    accepted <- passed

ImplementsReview == Review!Spec
================================================================================
