CONSTANTS
    c1 = c1
    c2 = c2
    c3 = c3
    p1 = p1
    p2 = p2
    Resolvers = {p1}
    Commits = {c1, c2}
    Branch = Branch
    None = None
    Empty = Empty
    Tree <- MCTree
    Index <- MCIndex
    Requests <- Safetensors
    HonestHub = TRUE
    MaxRuns = 1
    MaxCrashes = 0
SPECIFICATION Spec
INVARIANT RevisionRefComplete
