SPECIFICATION Spec
CONSTANTS
    f = f
    g = g
    o = o
    x = x
    y = y
    Runs = {r1, r2, r3}
    Heads <- MCHeads
    Findings = {f, g, o, x, y}
    Report <- MCReport
    Commentable <- MCCommentable
    Near <- MCNear
    MaxInline = 2
    ListMax = 1
    Room <- MCRoom
    Codebase = FALSE
    Serial = TRUE
    MaxForeign = 1
CHECK_DEADLOCK FALSE
INVARIANTS SaidOnce RejectedOnlyWhenMoved
PROPERTIES NothingLost
