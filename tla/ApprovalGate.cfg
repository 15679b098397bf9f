SPECIFICATION FairSpec
CONSTANTS
    Cards = {c1, c2}
    Effects = {e1, e2}
    Nothing = Nothing
    Clients = {p1, p2}
    Skewed = {p2}
INVARIANT TypeOK
INVARIANT OnePerformer
INVARIANT AnswersStayTrue
INVARIANT OverdueMeansUnspent
PROPERTY Promise
PROPERTY CallsEnd
