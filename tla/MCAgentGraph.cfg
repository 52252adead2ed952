SPECIFICATION FairSpec
CONSTANTS
    Sections = {"summary", "skills"}
    Skills = "skills"
    NoOutput = noOutput
INVARIANTS
    TypeOK
    PublishedIsTheReviewedDraft
    PassedOutputHasNoInventedYear
PROPERTIES
    GraphEnds
    ImplementsReview
CHECK_DEADLOCK FALSE
