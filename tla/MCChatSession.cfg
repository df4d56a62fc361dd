CONSTANTS
    u1 = u1
    u2 = u2
    a1 = a1
    a2 = a2
    Texts = {u1, u2}
    Pieces = {a1, a2}
    Chunks <- MCChunks
    Replies <- MCReplies
    None = None
    Bad = Bad
    MaxInputs = 3
    MaxEvents = 2
SPECIFICATION Spec
INVARIANTS HistoryAlternates HistoryIsTranscript FaultsEndTheProgram
SYMMETRY Symmetry
