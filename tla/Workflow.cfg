SPECIFICATION Spec
CONSTANTS
    none = none
    None = none
    Otherwise = Otherwise
    Ids = {"intake"}
    Candidates <- MCCandidates
    Contracts <- MCContracts
    RoleContract <- MCRole
    Projectable = {"msg"}
    Registered = {"triager", "promotion"}
    Workers = {w1, w2}
    Humans = {h1}
    Outputs = {"ask", "go", "bad"}
    Invalid = "bad"
    MaxRuns = 1
    MaxVersions = 2
    MaxFaults = 2
INVARIANT OpenRunHasItsEffect
PROPERTIES AnswerOfCurrentClaim FollowsPath RunsSettle
