SPECIFICATION Spec
CONSTANTS
    Sections = {"skills"}
    Skills = "skills"
    NoOutput = noOutput
INVARIANTS
    RejectedDraftIsNotPublished
CHECK_DEADLOCK FALSE
