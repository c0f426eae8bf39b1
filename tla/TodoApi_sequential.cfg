SPECIFICATION Spec
CONSTANTS
    c1 = c1
    c2 = c2
    u1 = u1
    u2 = u2
    Conns <- MCConns
    Users <- MCUsers
    Texts = {t1, t2}
    MaxId = 2
    Anonymous = Anonymous
    BadId = BadId
    Unset = Unset
    NoRow = NoRow
    Nothing = Nothing
    DbMayFail = FALSE
    OneAtATime = TRUE
SYMMETRY Symmetry
INVARIANTS AnswerIsCurrent
PROPERTIES PatchKeepsUnset
