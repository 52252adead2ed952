--------------------------- MODULE AgentGraphProofs ---------------------------
(***************************************************************************)
(* What the agent graph publishes, for any set of sections: the draft that  *)
(* was reviewed last, without an invented year if that review passed it.    *)
(*                                                                         *)
(* The invariant ties the retry counter, which only a rejection moves, to   *)
(* the drafts that were submitted, node by node.                            *)
(***************************************************************************)
EXTENDS AgentGraph, FiniteSetTheorems, TLAPS

Cleared == {"format_output", "assess_fit"}
Opening == {"prepare_inputs", "understand_resume", "analyze_inputs"}
Writing == Opening \cup {"rewrite_sections", "rewriting"}

\* While a draft is written every earlier one was rejected and the tries are not
\* spent; the draft under review is one try more than the rejections.
CountersAgree ==
    /\ node \in Opening => retry = 0
    /\ node \in Writing => rewrites = retry /\ retry < RetryLimit /\ ~passed
    /\ node = "validate_output" => rewrites = retry + 1 /\ retry < RetryLimit
    /\ fatal => node = "end"

\* A draft that went on to be formatted is the one that was reviewed, and an
\* accepted one has no invented year.
ReviewAgrees ==
    /\ node \in Cleared => reviewed = UnderReview
    /\ node \in Cleared \cup {"end"} /\ passed => \A s \in Sections : reviewed[s] # "year"

\* What was formatted is what was reviewed, and only the graph's last nodes
\* follow.
OutputAgrees ==
    output # NoOutput =>
        /\ node \in {"assess_fit", "end", "raised"}
        /\ output = reviewed
        /\ passed => \A s \in Sections : reviewed[s] # "year"

Inv == TypeOK /\ CountersAgree /\ ReviewAgrees /\ OutputAgrees

LEMMA InitialInvariant == Init => Inv
<1> SUFFICES ASSUME Init PROVE Inv
  OBVIOUS
<1>1. Blank \in Drafts
  BY DEF Blank, Drafts, Texts
<1>2. TypeOK
  <2>1. open \subseteq Sections /\ (open # {} => node \in {"rewriting", "raised"})
    BY DEF Init
  <2>2. inputsOk \in BOOLEAN /\ evidence \in BOOLEAN /\ passed \in BOOLEAN /\ fatal \in BOOLEAN
    BY DEF Init
  <2>3. node \in Nodes /\ retry \in 0 .. RetryLimit /\ rewrites \in 0 .. RetryLimit
    BY DEF Init, Nodes, RetryLimit
  <2> QED  BY <1>1, <2>1, <2>2, <2>3 DEF Init, TypeOK
<1>3. CountersAgree /\ ReviewAgrees /\ OutputAgrees
  BY DEF Init, CountersAgree, ReviewAgrees, OutputAgrees, Cleared, Opening, Writing, RetryLimit
<1> QED  BY <1>2, <1>3 DEF Inv

--------------------------------------------------------------------------------
(* One lemma per group of nodes. *)

\* The nodes before the first rewrite only lay the ground (prepare_inputs.py,
\* understand_resume.py, analyze_inputs.py).
LEMMA OpeningStep ==
    ASSUME Inv, PrepareInputs \/ UnderstandResume \/ AnalyzeInputs
    PROVE  Inv'
<1>1. TypeOK'
  BY DEF Inv, TypeOK, PrepareInputs, UnderstandResume, AnalyzeInputs, inputs, review, Nodes
<1>2. CountersAgree'
  <2>1. CASE PrepareInputs
    <3>1. inputsOk \in BOOLEAN  BY DEF Inv, TypeOK
    <3>2. CASE inputsOk
      BY <2>1, <3>2 DEF Inv, CountersAgree, PrepareInputs, review, Cleared, Opening, Writing
    <3>3. CASE ~inputsOk
      BY <2>1, <3>3 DEF Inv, CountersAgree, PrepareInputs, review, Cleared, Opening, Writing
    <3> QED  BY <3>2, <3>3
  <2>2. CASE UnderstandResume \/ AnalyzeInputs
    BY <2>2 DEF Inv, CountersAgree, UnderstandResume, AnalyzeInputs, review, Cleared, Opening,
       Writing
  <2> QED  BY <2>1, <2>2
<1>3. ReviewAgrees' /\ OutputAgrees'
  BY DEF Inv, CountersAgree, ReviewAgrees, OutputAgrees, PrepareInputs, UnderstandResume,
     AnalyzeInputs, review, Cleared, Opening, Writing
<1> QED  BY <1>1, <1>2, <1>3 DEF Inv

\* A rewrite submits one draft (rewrite_sections.py, sections/orchestrator.py).
LEMMA RewritingStep ==
    ASSUME Inv,
           \/ RewriteSections \/ RewriteGathered
           \/ \E s \in Sections, t \in Texts : RewriteAnswers(s, t)
           \/ \E s \in Sections : RewriteRaises(s) \/ StragglerEnds(s)
    PROVE  Inv'
<1> USE DEF Cleared, Opening, Writing, RetryLimit
<1>1. CASE RewriteSections
  <2>1. Blank \in Drafts /\ given' \in Drafts
    BY <1>1 DEF Inv, TypeOK, RewriteSections, SourceOf, Blank, Drafts, Texts
  <2>2. TypeOK'
    BY <1>1, <2>1 DEF Inv, TypeOK, RewriteSections, ToTailor, inputs, review, Nodes
  <2> QED  BY <1>1, <2>2 DEF Inv, CountersAgree, ReviewAgrees, OutputAgrees, RewriteSections, review
<1>2. CASE RewriteGathered
  <2>1. TypeOK'
    BY <1>2 DEF Inv, TypeOK, CountersAgree, RewriteGathered, inputs, review, Nodes
  <2> QED  BY <1>2, <2>1 DEF Inv, TypeOK, CountersAgree, ReviewAgrees, OutputAgrees, RewriteGathered,
              review
<1>3. CASE \E s \in Sections, t \in Texts : RewriteAnswers(s, t)
  <2> PICK s \in Sections, t \in Texts : RewriteAnswers(s, t)
    BY <1>3
  <2>1. variant' \in Drafts
    BY DEF Inv, TypeOK, RewriteAnswers, Drafts
  <2>2. TypeOK'
    BY <2>1 DEF Inv, TypeOK, RewriteAnswers, inputs, review
  <2> QED  BY <2>2 DEF Inv, CountersAgree, ReviewAgrees, OutputAgrees, RewriteAnswers, review
<1>4. CASE \E s \in Sections : RewriteRaises(s) \/ StragglerEnds(s)
  <2> PICK s \in Sections : RewriteRaises(s) \/ StragglerEnds(s)
    BY <1>4
  <2>1. TypeOK'
    BY DEF Inv, TypeOK, RewriteRaises, StragglerEnds, inputs, review, Nodes
  <2> QED  BY <2>1 DEF Inv, CountersAgree, ReviewAgrees, OutputAgrees, RewriteRaises,
              StragglerEnds, review
<1> QED  BY <1>1, <1>2, <1>3, <1>4

\* A review accepts a draft without an invented year, or counts one rejection
\* more (validate_output.py:22-49, graph.py:99-104).
LEMMA ReviewStep ==
    ASSUME Inv, NEW ok \in BOOLEAN, ValidateOutput(ok)
    PROVE  Inv'
<1> USE DEF Cleared, Opening, Writing, RetryLimit
<1>1. UnderReview \in Drafts /\ retry \in {0, 1} /\ output = NoOutput
  BY DEF Inv, TypeOK, CountersAgree, OutputAgrees, ValidateOutput, UnderReview
<1>2. UnderReview' = UnderReview
  BY DEF ValidateOutput, UnderReview
<1>3. CASE ok
  <2>1. node' = "format_output" /\ passed' /\ retry' = retry
    BY <1>3 DEF ValidateOutput, AfterValidate
  <2>2. \A s \in Sections : UnderReview[s] # "year"
    BY <1>3 DEF ValidateOutput, RuleErrors
  <2>3. TypeOK'
    BY <1>1, <2>1 DEF Inv, TypeOK, ValidateOutput, inputs, Nodes
  <2> QED  BY <1>1, <1>2, <2>1, <2>2, <2>3 DEF Inv, CountersAgree, ReviewAgrees, OutputAgrees,
              ValidateOutput
<1>4. CASE ~ok
  <2>1. /\ ~passed' /\ retry' = retry + 1
        /\ node' = IF retry = 1 THEN "format_output" ELSE "rewrite_sections"
    BY <1>1, <1>4 DEF ValidateOutput, AfterValidate
  <2>2. TypeOK'
    BY <1>1, <2>1 DEF Inv, TypeOK, ValidateOutput, inputs, Nodes
  <2> QED  BY <1>1, <1>2, <2>1, <2>2 DEF Inv, TypeOK, CountersAgree, ReviewAgrees, OutputAgrees,
              ValidateOutput
<1> QED  BY <1>3, <1>4

\* Formatting publishes what was reviewed, and nothing after it writes a draft.
LEMMA ClosingStep ==
    ASSUME Inv, FormatOutput \/ AssessFit \/ ValidationRaises \/ CheckpointRaises
    PROVE  Inv'
<1> USE DEF Cleared, Opening, Writing
<1>1. TypeOK'
  BY DEF Inv, TypeOK, FormatOutput, AssessFit, ValidationRaises, CheckpointRaises, inputs, review,
     Nodes
<1>2. CountersAgree'
  BY DEF Inv, CountersAgree, FormatOutput, AssessFit, ValidationRaises, CheckpointRaises, review
<1>3. ReviewAgrees' /\ OutputAgrees'
  BY DEF Inv, CountersAgree, ReviewAgrees, OutputAgrees, FormatOutput, AssessFit, ValidationRaises,
     CheckpointRaises, review, UnderReview
<1> QED  BY <1>1, <1>2, <1>3 DEF Inv

LEMMA NextInvariant == Inv /\ [Next]_vars => Inv'
<1> SUFFICES ASSUME Inv, [Next]_vars PROVE Inv'
  OBVIOUS
<1>1. CASE UNCHANGED vars
  BY <1>1 DEF Inv, TypeOK, CountersAgree, ReviewAgrees, OutputAgrees, UnderReview, vars, inputs,
     review
<1> QED  BY <1>1, OpeningStep, RewritingStep, ReviewStep, ClosingStep DEF Next, Progress

\* The invariant, for any set of sections.
THEOREM GraphInvariance == Spec => []Inv
  BY InitialInvariant, NextInvariant, PTL DEF Spec

\* The state is well formed, and a rewrite call is open only in its gather or
\* after a gather that raised.
THEOREM GraphTypes == Spec => []TypeOK
<1>1. Inv => TypeOK
  BY DEF Inv
<1> QED  BY <1>1, GraphInvariance, PTL

\* The run publishes the draft reviewed last (graph.py:182-190,
\* format_output.py:49-52).
THEOREM PublicationFollowsReview == Spec => []PublishedIsTheReviewedDraft
<1>1. Inv => PublishedIsTheReviewedDraft
  BY DEF Inv, OutputAgrees, PublishedIsTheReviewedDraft
<1> QED  BY <1>1, GraphInvariance, PTL

\* A published resume on whose record validation passed has no year the source
\* does not have (validate_output.py:11-19).
THEOREM PassedHasNoInventedYear == Spec => []PassedOutputHasNoInventedYear
<1>1. Inv => PassedOutputHasNoInventedYear
  BY DEF Inv, OutputAgrees, PassedOutputHasNoInventedYear
<1> QED  BY <1>1, GraphInvariance, PTL

--------------------------------------------------------------------------------
(* The refinement. *)

\* Every step of the graph is one step of the review loop or none.
LEMMA StepReviews ==
    ASSUME Inv, [Next]_vars
    PROVE  [Review!Next]_(Review!vars)
<1> USE DEF Review!Next, Review!vars, RetryLimit
<1>1. ASSUME RewriteGathered PROVE Review!Next
  <2>1. Review!Submit
    BY <1>1 DEF Inv, TypeOK, CountersAgree, Writing, RewriteGathered, review, Review!Submit
  <2> QED  BY <2>1
<1>2. ASSUME NEW ok \in BOOLEAN, ValidateOutput(ok) PROVE Review!Next
  <2>1. retry \in {0, 1} /\ rewrites = retry + 1
    BY <1>2 DEF Inv, TypeOK, CountersAgree, ValidateOutput
  <2>2. CASE ok
    <3>1. Review!Accept
      BY <1>2, <2>2 DEF ValidateOutput, AfterValidate, Review!Accept
    <3> QED  BY <3>1
  <2>3. CASE ~ok
    <3>1. Review!Reject
      BY <1>2, <2>1, <2>3 DEF Inv, CountersAgree, ValidateOutput, AfterValidate, Review!Reject
    <3> QED  BY <3>1
  <2> QED  BY <2>2, <2>3
<1>3. ASSUME ValidationRaises \/ CheckpointRaises
      PROVE  Review!Next \/ UNCHANGED Review!vars
  <2>1. CASE node \in {"format_output", "assess_fit"}
    BY <1>3, <2>1 DEF ValidationRaises, CheckpointRaises, review
  <2>2. CASE node \notin {"format_output", "assess_fit"}
    <3>1. Review!GiveUp
      BY <1>3, <2>2 DEF ValidationRaises, CheckpointRaises, review, Review!GiveUp
    <3> QED  BY <3>1
  <2> QED  BY <2>1, <2>2
<1>4. ASSUME NEW s \in Sections, RewriteRaises(s) PROVE Review!Next
  <2>1. Review!GiveUp
    BY <1>4 DEF RewriteRaises, review, Review!GiveUp
  <2> QED  BY <2>1
<1>5. ASSUME PrepareInputs PROVE Review!Next \/ UNCHANGED Review!vars
  <2>1. CASE inputsOk
    BY <1>5, <2>1 DEF PrepareInputs, review
  <2>2. CASE ~inputsOk
    <3>1. Review!GiveUp
      BY <1>5, <2>2 DEF PrepareInputs, review, Review!GiveUp
    <3> QED  BY <3>1
  <2> QED  BY <2>1, <2>2
<1>6. ASSUME \/ UnderstandResume \/ AnalyzeInputs \/ RewriteSections
             \/ FormatOutput \/ AssessFit \/ UNCHANGED vars
      PROVE  UNCHANGED Review!vars
  BY <1>6 DEF UnderstandResume, AnalyzeInputs, RewriteSections, FormatOutput, AssessFit, vars,
     review
<1>7. ASSUME NEW s \in Sections, (\E t \in Texts : RewriteAnswers(s, t)) \/ StragglerEnds(s)
      PROVE  UNCHANGED Review!vars
  BY <1>7 DEF RewriteAnswers, StragglerEnds, review
<1> HIDE DEF Review!Next, Review!vars, RetryLimit
<1> QED  BY <1>1, <1>2, <1>3, <1>4, <1>5, <1>6, <1>7 DEF Next, Progress

\* The graph implements DraftReview: at most two tries, each reviewed before the
\* next, and none after one that was accepted.
THEOREM GraphImplementsReview == Spec => ImplementsReview
<1>1. Init => Review!Init
  BY DEF Init, Review!Init
<1>2. Inv /\ [Next]_vars => [Review!Next]_(Review!vars)
  BY StepReviews
<1> QED  BY <1>1, <1>2, GraphInvariance, PTL DEF Spec, ImplementsReview, Review!Spec

--------------------------------------------------------------------------------
(* The graph ends. *)

\* How far the graph is from its end: three nodes for each try that is left.
Rank ==
    LET tries == RetryLimit - retry
    IN  CASE node = "prepare_inputs"    -> 11
          [] node = "understand_resume" -> 10
          [] node = "analyze_inputs"    -> 9
          [] node = "rewrite_sections"  -> 3 * tries + 2
          [] node = "rewriting"         -> 3 * tries + 1
          [] node = "validate_output"   -> 3 * tries
          [] node = "format_output"     -> 2
          [] node = "assess_fit"        -> 1
          [] OTHER                      -> 0

\* A node that ends weighs more than all the calls it may have opened.
StepsLeft == Rank * (Cardinality(Sections) + 1) + Cardinality(open)

EveryStepCounts == StepsLeft' < StepsLeft /\ StepsLeft \in Nat

LEMMA RankNat == Inv => Rank \in 0 .. 11
  BY DEF Inv, TypeOK, CountersAgree, Opening, Writing, RetryLimit, Nodes, Rank

LEMMA NextRankNat == Inv' => (Rank \in 0 .. 11)'
  BY RankNat, PTL

\* Every node but a gather hands over to one nearer the end: a rejection spends a
\* try.
LEMMA RankFalls ==
    ASSUME Inv, Progress \/ ValidationRaises \/ CheckpointRaises
    PROVE  Rank' < Rank
<1> USE DEF Inv, TypeOK, CountersAgree, Opening, Writing, RetryLimit, Rank, review
<1>1. CASE PrepareInputs \/ UnderstandResume \/ AnalyzeInputs
  BY <1>1 DEF PrepareInputs, UnderstandResume, AnalyzeInputs
<1>2. CASE RewriteSections \/ RewriteGathered
  BY <1>2 DEF RewriteSections, RewriteGathered
<1>3. ASSUME NEW ok \in BOOLEAN, ValidateOutput(ok) PROVE Rank' < Rank
  <2>1. retry \in {0, 1}
    BY <1>3 DEF ValidateOutput
  <2>2. CASE ok
    BY <1>3, <2>1, <2>2 DEF ValidateOutput, AfterValidate
  <2>3. CASE ~ok
    BY <1>3, <2>1, <2>3 DEF ValidateOutput, AfterValidate
  <2> QED  BY <2>2, <2>3
<1>4. CASE FormatOutput \/ AssessFit \/ ValidationRaises
  BY <1>4 DEF FormatOutput, AssessFit, ValidationRaises
<1>5. CASE CheckpointRaises
  BY <1>5 DEF CheckpointRaises, Nodes
<1> QED  BY <1>1, <1>2, <1>3, <1>4, <1>5 DEF Progress

\* A call that answers, raises or outlives its gather closes itself, and takes the
\* graph nowhere but to its end.
LEMMA CallsClose ==
    ASSUME Inv, NEW s \in Sections, CallEnds(s)
    PROVE  Rank' <= Rank /\ s \in open /\ open' = open \ {s}
  BY DEF Inv, TypeOK, CountersAgree, Opening, Writing, RetryLimit, Rank, review, CallEnds,
     RewriteAnswers, RewriteRaises, StragglerEnds

\* The two together: what is left of the graph is a number, and every step lowers it.
LEMMA StepsAreNumbered ==
    ASSUME IsFiniteSet(Sections), Inv, [Next]_vars
    PROVE  /\ StepsLeft \in Nat
           /\ UNCHANGED vars \/ StepsLeft' < StepsLeft
<1> DEFINE N == Cardinality(Sections)
<1>1. N \in Nat
  BY FS_CardinalityType
<1>2. Inv'
  BY NextInvariant
<1>3. \A S \in SUBSET Sections : IsFiniteSet(S) /\ Cardinality(S) \in 0 .. N
  BY <1>1, FS_Subset, FS_CardinalityType
<1>4. PICK c \in 0 .. N : c = Cardinality(open)
  BY <1>3 DEF Inv, TypeOK
<1>5. PICK d \in 0 .. N : d = Cardinality(open')
  BY <1>2, <1>3 DEF Inv, TypeOK
<1>6. PICK a \in 0 .. 11 : a = Rank
  BY RankNat
<1>7. PICK b \in 0 .. 11 : b = Rank'
  BY <1>2, NextRankNat
<1>8. \A x, y \in 0 .. 11 : x <= y => x * (N + 1) <= y * (N + 1)
  BY <1>1
<1>9. StepsLeft = a * (N + 1) + c /\ StepsLeft' = b * (N + 1) + d
  BY <1>4, <1>5, <1>6, <1>7 DEF StepsLeft
<1> HIDE DEF N
<1>10. StepsLeft \in Nat
  BY <1>1, <1>9
<1>11. ASSUME b < a PROVE StepsLeft' < StepsLeft
  <2>1. b + 1 \in 0 .. 11 /\ b + 1 <= a
    BY <1>11
  <2>2. (b + 1) * (N + 1) <= a * (N + 1)
    BY <1>8, <2>1
  <2>3. (b + 1) * (N + 1) = b * (N + 1) + N + 1
    BY <1>1
  <2>4. b * (N + 1) \in Nat /\ a * (N + 1) \in Nat
    BY <1>1
  <2> QED  BY <1>1, <1>9, <2>2, <2>3, <2>4
<1>12. ASSUME NEW s \in Sections, CallEnds(s)
       PROVE  StepsLeft' < StepsLeft
  <2>1. b <= a /\ s \in open /\ open' = open \ {s}
    BY <1>6, <1>7, <1>12, CallsClose
  <2>2. d = c - 1
    <3>1. IsFiniteSet(open)
      BY <1>3 DEF Inv, TypeOK
    <3> QED  BY <1>4, <1>5, <2>1, <3>1, FS_RemoveElement
  <2>3. b * (N + 1) <= a * (N + 1)
    BY <1>8, <2>1
  <2>4. b * (N + 1) \in Nat /\ a * (N + 1) \in Nat
    BY <1>1
  <2> QED  BY <1>9, <2>2, <2>3, <2>4
<1>13. CASE Progress \/ ValidationRaises \/ CheckpointRaises
  BY <1>6, <1>7, <1>10, <1>11, <1>13, RankFalls
<1>14. CASE \E s \in Sections : CallEnds(s)
  BY <1>10, <1>12, <1>14
<1> QED  BY <1>10, <1>13, <1>14 DEF Next, CallEnds

\* Whatever the model answers and whichever call raises, a graph over finitely many
\* sections takes finitely many steps: no fairness is needed for it to end, only
\* for it to go on (graph.py:99-104).
THEOREM GraphIsFinite ==
    ASSUME IsFiniteSet(Sections)
    PROVE  Spec => [][EveryStepCounts]_vars
<1>1. Inv /\ [Next]_vars => [EveryStepCounts]_vars
  BY StepsAreNumbered DEF EveryStepCounts
<1> QED  BY <1>1, GraphInvariance, PTL DEF Spec

================================================================================
