SPECIFICATION Spec
CONSTANTS
    python = python
    sql = sql
    git = git
    aws = aws
    css = css
    vue = vue
    Terms <- MCTerms
    Filler = Filler
    Jobs <- MCJobs
    KeywordJobs <- MCKeywordJobs
    Analyses <- MCAnalyses
    Texts <- MCTexts
    Variants = {balanced, bold}
    NoVerdict = NoVerdict
    NoMatch = NoMatch
    MaxEdits = 2
SYMMETRY Symmetry
INVARIANTS
    TypeOK
    AfterScoresAgree
    VerdictIsOfTheShownScore

    
CHECK_DEADLOCK FALSE
