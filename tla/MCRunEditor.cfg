SPECIFICATION Spec
CONSTANTS
    Requests = {r1, r2, r3}
    Sections = {summary, skills}
    Source = {summary}
    Variants = {balanced, bold}
    Default = balanced
    Agent = agent
    NoText = noText
SYMMETRY AnyRequest
INVARIANTS
    AcknowledgedOverrideStays
    BuiltVariantStays
CHECK_DEADLOCK FALSE
