SPECIFICATION Spec
CONSTANTS
    None = None
    a = a
    b = b
    f = f
    MaxRuns = 2
    MaxReading = 1
    Handlers = {h1, h2}
    Shas = {a, b}
    Start = a
    OldShas = {a}
    Findings = {f}
    Present <- MCPresent
    MaxMoves = 2
    MaxVotes = 2
SYMMETRY AnyHandler
CHECK_DEADLOCK FALSE
INVARIANTS HistoryExact VotesKept ReportIsTrue
