SPECIFICATION Spec
CONSTANTS
    Notes = {n1}
    Chats = {t1}
    Calls = {c1, c2}
    Anchors = {a1}
    UserText = {u1}
    Nothing = Nothing
    NoCall = NoCall
    MaxStaleRetries = 1
    NewConflicts = FALSE
INVARIANTS TypeOK DecisionsStand NobodyLeftWaiting
PROPERTIES FeedbackTruthful GuardKeepsUnseen
SYMMETRY Interchangeable
